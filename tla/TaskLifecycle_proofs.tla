----------------------- MODULE TaskLifecycle_proofs -----------------------
(***************************************************************************)
(* Proofs about TaskLifecycle for any people, notes, managers and settings *)
(* and a trail of any length.                                              *)
(***************************************************************************)
EXTENDS TaskLifecycle, TLAPS

---------------------------------------------------------------------------
(* The repository's methods keep a row a row.                              *)

\* An audit entry of known parts is an entry.
LEMMA EntryType ==
    ASSUME NEW e \in AuditEvents, NEW who \in People \union {NoOne},
           NEW d \in Notes \union {NoNotes}
    PROVE  Entry(e, who, d) \in Entries
  BY DEF Entry, Entries

\* A guarded or unguarded status change with its entry keeps a row a row.
LEMMA StepType ==
    ASSUME NEW r \in Rows, NEW target \in Statuses, NEW e \in Entries
    PROVE  Step(r, target, e) \in Rows
  <1>1. r.audit \in Seq(Entries)
    BY DEF Rows
  <1>2. Append(r.audit, e) \in Seq(Entries)
    BY <1>1
  <1> QED
    BY <1>2 DEF Step, Rows

\* acknowledge and resume return a row.
LEMMA StartType ==
    ASSUME NEW r \in Rows, NEW who \in People
    PROVE  /\ AssigneeAcknowledge(r, who) \in Rows
           /\ AssigneeResume(r, who) \in Rows
           /\ ImplicitAcknowledge(r, who) \in Rows
  <1>1. /\ Entry("ACKNOWLEDGED", who, NoNotes) \in Entries
        /\ Entry("RESUMED", who, NoNotes) \in Entries
    BY EntryType DEF AuditEvents, LifecycleEvents
  <1>2. "IN_PROGRESS" \in Statuses
    BY DEF Statuses
  <1> QED
    BY <1>1, <1>2, StepType
    DEF AssigneeAcknowledge, AssigneeResume, ImplicitAcknowledge

\* close, in both ways, returns a row.
LEMMA CloseType ==
    ASSUME NEW r \in Rows, NEW who \in People, NEW text \in Notes
    PROVE  /\ MarkPendingClosure(r, who, text) \in Rows
           /\ CloseAndVerifySelf(r, who, text) \in Rows
  <1> DEFINE begun == [ImplicitAcknowledge(r, who) EXCEPT !.notes = text]
  <1>1. begun \in Rows
    <2>1. ImplicitAcknowledge(r, who) \in Rows
      BY StartType
    <2> QED
      BY <2>1 DEF Rows
  <1>2. /\ Entry("CLOSURE_REQUESTED", who, text) \in Entries
        /\ Entry("VERIFIED", who, NoNotes) \in Entries
    BY EntryType DEF AuditEvents, LifecycleEvents
  <1>3. "PENDING_VERIFICATION" \in Statuses /\ "VERIFIED" \in Statuses
    BY DEF Statuses
  <1> HIDE DEF begun
  <1>4. /\ Step(begun, "PENDING_VERIFICATION",
                Entry("CLOSURE_REQUESTED", who, text)) \in Rows
        /\ Step(begun, "VERIFIED", Entry("CLOSURE_REQUESTED", who, text)) \in Rows
    BY <1>1, <1>2, <1>3, StepType
  <1>5. Step(Step(begun, "VERIFIED", Entry("CLOSURE_REQUESTED", who, text)),
             "VERIFIED", Entry("VERIFIED", who, NoNotes)) \in Rows
    BY <1>2, <1>3, <1>4, StepType
  <1> QED
    BY <1>1, <1>4, <1>5 DEF MarkPendingClosure, CloseAndVerifySelf, begun

\* The two decisions return a row.
LEMMA DecisionType ==
    ASSUME NEW r \in Rows, NEW who \in People, NEW why \in Notes
    PROVE  /\ ManagerConfirm(r, who) \in Rows
           /\ ManagerReject(r, who, why) \in Rows
  <1>1. /\ Entry("VERIFIED", who, NoNotes) \in Entries
        /\ Entry("REOPENED", who, why) \in Entries
    BY EntryType DEF AuditEvents, LifecycleEvents
  <1>2. "REOPENED" \in Statuses /\ "VERIFIED" \in Statuses
    BY DEF Statuses
  <1>3. /\ Step(r, "VERIFIED", Entry("VERIFIED", who, NoNotes)) \in Rows
        /\ Step(r, "REOPENED", Entry("REOPENED", who, why)) \in Rows
    BY <1>1, <1>2, StepType
  <1>4. [Step(r, "REOPENED", Entry("REOPENED", who, why)) EXCEPT !.reason = why]
           \in Rows
    BY <1>3 DEF Rows
  <1> QED
    BY <1>3, <1>4 DEF ManagerConfirm, ManagerReject

\* The worker threads write rows.
LEMMA WorkerType ==
    ASSUME NEW r \in Rows, NEW passed \in BOOLEAN
    PROVE  /\ RefreshOverdue(r, passed) \in Rows
           /\ AppendAudit(r) \in Rows
  <1>1. Entry("NOTIFIED", NoOne, NoNotes) \in Entries
    BY EntryType DEF AuditEvents
  <1>2. AppendAudit(r) \in Rows
    BY <1>1 DEF AppendAudit, Rows
  <1>3. (passed /\ r.status \notin Terminal) \in BOOLEAN
    OBVIOUS
  <1>4. RefreshOverdue(r, passed) \in Rows
    BY <1>3 DEF RefreshOverdue, Rows
  <1> QED
    BY <1>2, <1>4

\* A commit of one row over another is a row.
LEMMA FlushedType ==
    ASSUME NEW now \in Rows, NEW seen \in Rows, NEW new \in Rows
    PROVE  Flushed(now, seen, new) \in Rows
  <1> DEFINE Column(a, b, c) == IF c = b THEN a ELSE c
  <1>1. /\ Column(now.status, seen.status, new.status) \in Statuses
        /\ Column(now.notes, seen.notes, new.notes) \in Notes \union {NoNotes}
        /\ Column(now.reason, seen.reason, new.reason) \in Notes \union {NoNotes}
        /\ Column(now.overdue, seen.overdue, new.overdue) \in BOOLEAN
        /\ Column(now.audit, seen.audit, new.audit) \in Seq(Entries)
    BY DEF Rows
  <1>2. Flushed(now, seen, new) =
           [now EXCEPT !.status = Column(now.status, seen.status, new.status),
                       !.notes = Column(now.notes, seen.notes, new.notes),
                       !.reason = Column(now.reason, seen.reason, new.reason),
                       !.overdue = Column(now.overdue, seen.overdue, new.overdue),
                       !.audit = Column(now.audit, seen.audit, new.audit)]
    BY DEF Flushed
  <1> HIDE DEF Column
  <1> QED
    BY <1>1, <1>2 DEF Rows

\* What a commit leaves in each column.
LEMMA FlushedColumns ==
    ASSUME NEW now \in Rows, NEW seen \in Rows, NEW new \in Rows
    PROVE  /\ Flushed(now, seen, new).creator = now.creator
           /\ Flushed(now, seen, new).assignee = now.assignee
           /\ Flushed(now, seen, new).status =
                 IF new.status = seen.status THEN now.status ELSE new.status
           /\ Flushed(now, seen, new).overdue =
                 IF new.overdue = seen.overdue THEN now.overdue ELSE new.overdue
           /\ Flushed(now, seen, new).audit =
                 IF new.audit = seen.audit THEN now.audit ELSE new.audit
  BY DEF Flushed, Rows

---------------------------------------------------------------------------
(* Type correctness.                                                       *)

\* The row of a new task is a row.
LEMMA InitType == LifecycleAssumption /\ Init => TypeOK
  <1> SUFFICES ASSUME LifecycleAssumption, Init PROVE TypeOK
    OBVIOUS
  <1>1. PICK creator \in People, assignee \in People : row = Created(creator, assignee)
    BY DEF Init
  <1>2. /\ Entry("CREATED", creator, NoNotes) \in Entries
        /\ Entry("ASSIGNED", creator, NoNotes) \in Entries
    BY EntryType DEF AuditEvents, LifecycleEvents
  <1>3. Created(creator, assignee) \in Rows
    BY <1>2 DEF Created, Rows, Statuses
  <1> QED
    BY <1>1, <1>3 DEF Init, TypeOK, Threads

\* A commit of a typed transaction keeps the types.
LEMMA CommitType ==
    ASSUME TypeOK, NEW l \in Loops, txn[l] # Idle, NEW new \in Rows, Commit(l, new)
    PROVE  TypeOK'
  <1>1. txn[l].seen \in Rows
    BY DEF TypeOK, Transactions
  <1>2. row' \in Rows
    BY <1>1, FlushedType DEF Commit, TypeOK
  <1>3. txn' \in [Loops -> Transactions \union {Idle}]
    BY DEF Commit, TypeOK
  <1> QED
    BY <1>2, <1>3 DEF Commit, TypeOK

\* Every step of a use case keeps the types.
LEMMA UseCaseType ==
    ASSUME TypeOK, NEW l \in Loops, UseCase(l)
    PROVE  TypeOK'
  <1> DEFINE t == txn[l]
  <1>0. \A op \in Operations : Running(l, op) =>
           /\ t # Idle
           /\ t.seen \in Rows /\ t.actor \in People /\ t.text \in Notes
    BY DEF TypeOK, Transactions, Running, Idle, Operations
  <1>1. ASSUME Request(l) PROVE TypeOK'
    <2>1. PICK op \in Operations, actor \in People, text \in Notes :
             Read(l, op, actor, text)
      BY <1>1 DEF Request
    <2>2. [op |-> op, actor |-> actor, text |-> text, seen |-> row] \in Transactions
      BY DEF TypeOK, Transactions
    <2> QED
      BY <2>1, <2>2 DEF Read, TypeOK
  <1>2. ASSUME Acknowledge(l) PROVE TypeOK'
    BY <1>0, <1>2, StartType, CommitType DEF Acknowledge, Operations
  <1>3. ASSUME Resume(l) PROVE TypeOK'
    BY <1>0, <1>3, StartType, CommitType DEF Resume, Operations
  <1>4. ASSUME Close(l) PROVE TypeOK'
    BY <1>0, <1>4, CloseType, CommitType DEF Close, Operations
  <1>5. ASSUME CloseSelf(l) PROVE TypeOK'
    BY <1>0, <1>5, CloseType, CommitType DEF CloseSelf, Operations
  <1>6. ASSUME Verify(l) PROVE TypeOK'
    BY <1>0, <1>6, DecisionType, CommitType DEF Verify, Operations
  <1>7. ASSUME Reopen(l) PROVE TypeOK'
    BY <1>0, <1>7, DecisionType, CommitType DEF Reopen, Operations
  <1>8. ASSUME GiveUp(l) PROVE TypeOK'
    BY <1>8 DEF GiveUp, TypeOK
  <1> QED
    BY <1>1, <1>2, <1>3, <1>4, <1>5, <1>6, <1>7, <1>8 DEF UseCase

\* Every step of the notification thread keeps the types.
LEMMA NotifierType ==
    ASSUME TypeOK, Notifier
    PROVE  TypeOK'
  <1>1. ASSUME StartNotifier PROVE TypeOK'
    BY <1>1 DEF StartNotifier, Acquire, TypeOK, Threads
  <1>2. ASSUME ReadForAudit PROVE TypeOK'
    BY <1>2 DEF ReadForAudit, TypeOK
  <1>3. ASSUME CommitAudit PROVE TypeOK'
    <2>1. notifier.seen \in Rows
      BY <1>3 DEF CommitAudit, TypeOK
    <2>2. AppendAudit(notifier.seen) \in Rows
      BY <2>1, WorkerType
    <2>3. row' \in Rows
      BY <1>3, <2>1, <2>2, FlushedType DEF CommitAudit, TypeOK
    <2> QED
      BY <1>3, <2>3 DEF CommitAudit, Release, TypeOK, Threads
  <1>4. ASSUME LoseNotifier PROVE TypeOK'
    BY <1>4 DEF LoseNotifier, Release, TypeOK, Threads
  <1> QED
    BY <1>1, <1>2, <1>3, <1>4 DEF Notifier

\* Every step of the overdue job keeps the types.
LEMMA CronType ==
    ASSUME TypeOK, Cron
    PROVE  TypeOK'
  <1>1. ASSUME StartRefresh PROVE TypeOK'
    <2>1. RefreshOverdue(row, due) \in Rows
      BY WorkerType DEF TypeOK
    <2> QED
      BY <1>1, <2>1 DEF StartRefresh, Acquire, TypeOK, Threads
  <1>2. ASSUME CommitRefresh PROVE TypeOK'
    <2>1. cron.seen \in Rows /\ cron.new \in Rows
      BY <1>2 DEF CommitRefresh, TypeOK
    <2>2. row' \in Rows
      BY <1>2, <2>1, FlushedType DEF CommitRefresh, TypeOK
    <2> QED
      BY <1>2, <2>2 DEF CommitRefresh, Release, TypeOK, Threads
  <1>3. ASSUME LoseRefresh PROVE TypeOK'
    BY <1>3 DEF LoseRefresh, Release, TypeOK, Threads
  <1> QED
    BY <1>1, <1>2, <1>3 DEF Cron

\* The row, the transactions in flight and the threads always have the
\* values the code can give them.
THEOREM TypeCorrect == LifecycleAssumption => (Spec => []TypeOK)
  <1> SUFFICES ASSUME LifecycleAssumption PROVE Spec => []TypeOK
    OBVIOUS
  <1>1. Init => TypeOK
    BY InitType
  <1>2. TypeOK /\ [Next]_vars => TypeOK'
    <2> SUFFICES ASSUME TypeOK, [Next]_vars PROVE TypeOK'
      OBVIOUS
    <2>1. ASSUME NEW l \in Loops, UseCase(l) PROVE TypeOK'
      BY <2>1, UseCaseType
    <2>2. ASSUME Notifier PROVE TypeOK'
      BY <2>2, NotifierType
    <2>3. ASSUME Cron PROVE TypeOK'
      BY <2>3, CronType
    <2>4. ASSUME DueDatePasses PROVE TypeOK'
      BY <2>4 DEF DueDatePasses, TypeOK
    <2>5. ASSUME UNCHANGED vars PROVE TypeOK'
      BY <2>5 DEF vars, TypeOK
    <2> QED
      BY <2>1, <2>2, <2>3, <2>4, <2>5 DEF Next
  <1> QED
    BY <1>1, <1>2, PTL DEF Spec

---------------------------------------------------------------------------
(* The audit trail explains the status, in one process on a single-writer  *)
(* database.                                                               *)

SingleLoop == \A a, b \in Loops : a = b

\* The inductive invariant. AuditExplainsStatus alone is not preserved: a
\* commit writes what a transaction made of the row it read, so the row read
\* must still have the committed status, and what a worker thread read under
\* the lock must still be the whole row.
IInv == TypeOK /\ AuditExplainsStatus /\ DecisionsAreFresh /\ LockedReadsAreFresh

\* What the use cases hand to a commit: the status and the trail as they
\* were, or a new trail whose end explains the new status.
Recorded(seen, new) ==
    /\ new.overdue = seen.overdue
    /\ \/ new.status = seen.status /\ new.audit = seen.audit
       \/ Explains(new.audit, new.status) /\ new.audit # seen.audit

\* A trail that ends in a lifecycle entry explains that entry's status.
LEMMA LifecycleEntryExplains ==
    ASSUME NEW a \in Seq(Entries), NEW e \in Entries, e.event \in LifecycleEvents
    PROVE  Explains(Append(a, e), StatusAfter[e.event])
  <1> DEFINE b == Append(a, e)
  <1>1. Len(b) = Len(a) + 1 /\ Len(a) \in Nat /\ b[Len(b)] = e
    OBVIOUS
  <1>2. Len(b) \in 1..Len(b) /\ \A j \in (Len(b) + 1)..Len(b) : b[j].event = "NOTIFIED"
    BY <1>1
  <1> QED
    BY <1>1, <1>2 DEF Explains

\* NOTIFIED changes nothing about what a trail explains.
LEMMA NotifiedExplains ==
    ASSUME NEW a \in Seq(Entries), NEW s, NEW e \in Entries, e.event = "NOTIFIED",
           Explains(a, s)
    PROVE  Explains(Append(a, e), s)
  <1> DEFINE b == Append(a, e)
  <1>1. /\ Len(b) = Len(a) + 1 /\ Len(a) \in Nat /\ b[Len(b)] = e
        /\ \A k \in 1..Len(a) : b[k] = a[k]
    OBVIOUS
  <1>2. PICK i \in 1..Len(a) :
           /\ a[i].event \in LifecycleEvents
           /\ s = StatusAfter[a[i].event]
           /\ \A j \in (i + 1)..Len(a) : a[j].event = "NOTIFIED"
    BY DEF Explains
  <1>3. i \in 1..Len(b) /\ b[i] = a[i]
    BY <1>1
  <1>4. \A j \in (i + 1)..Len(b) : b[j].event = "NOTIFIED"
    <2> TAKE j \in (i + 1)..Len(b)
    <2>1. CASE j = Len(b)
      BY <1>1, <2>1
    <2>2. CASE j # Len(b)
      <3>1. j \in (i + 1)..Len(a) /\ j \in 1..Len(a)
        BY <1>1, <2>2
      <3> QED
        BY <1>1, <1>2, <3>1
    <2> QED
      BY <2>1, <2>2
  <1> HIDE DEF b
  <1>5. Explains(b, s)
    BY <1>2, <1>3, <1>4 DEF Explains
  <1> QED
    BY <1>5 DEF b

\* One recorded status change.
LEMMA StepRecords ==
    ASSUME NEW r \in Rows, NEW e \in Entries, e.event \in LifecycleEvents
    PROVE  LET n == Step(r, StatusAfter[e.event], e)
           IN /\ n.overdue = r.overdue
              /\ n.audit = Append(r.audit, e)
              /\ Len(n.audit) = Len(r.audit) + 1
              /\ Explains(n.audit, n.status)
  <1>1. r.audit \in Seq(Entries)
    BY DEF Rows
  <1>2. Explains(Append(r.audit, e), StatusAfter[e.event])
    BY <1>1, LifecycleEntryExplains
  <1>3. Len(Append(r.audit, e)) = Len(r.audit) + 1
    BY <1>1
  <1> QED
    BY <1>2, <1>3 DEF Step, Rows

\* acknowledge and resume record what they do.
LEMMA StartRecords ==
    ASSUME NEW r \in Rows, NEW who \in People
    PROVE  /\ Recorded(r, AssigneeAcknowledge(r, who))
           /\ Recorded(r, AssigneeResume(r, who))
           /\ ImplicitAcknowledge(r, who).overdue = r.overdue
           /\ Len(ImplicitAcknowledge(r, who).audit) >= Len(r.audit)
           /\ \/ ImplicitAcknowledge(r, who) = r
              \/ r.status = "ASSIGNED" /\ ImplicitAcknowledge(r, who).status = "IN_PROGRESS"
  <1>1. /\ Entry("ACKNOWLEDGED", who, NoNotes) \in Entries
        /\ Entry("RESUMED", who, NoNotes) \in Entries
    BY EntryType DEF AuditEvents, LifecycleEvents
  <1>2. \A ev \in {"ACKNOWLEDGED", "RESUMED"} :
           /\ StatusAfter[Entry(ev, who, NoNotes).event] = "IN_PROGRESS"
           /\ Entry(ev, who, NoNotes).event \in LifecycleEvents
    BY DEF StatusAfter, LifecycleEvents, Entry
  <1>3. \A ev \in {"ACKNOWLEDGED", "RESUMED"} :
          LET n == Step(r, "IN_PROGRESS", Entry(ev, who, NoNotes))
          IN /\ n.overdue = r.overdue
             /\ Len(n.audit) = Len(r.audit) + 1
             /\ Explains(n.audit, n.status)
             /\ n.status = "IN_PROGRESS"
    <2> TAKE ev \in {"ACKNOWLEDGED", "RESUMED"}
    <2> DEFINE e == Entry(ev, who, NoNotes)
    <2>1. e \in Entries /\ e.event \in LifecycleEvents /\ StatusAfter[e.event] = "IN_PROGRESS"
      BY <1>1, <1>2
    <2> HIDE DEF e
    <2>2. Step(r, "IN_PROGRESS", e).status = "IN_PROGRESS"
      BY DEF Step, Rows
    <2> QED
      BY <2>1, <2>2, StepRecords DEF e
  <1>4. r.audit \in Seq(Entries) /\ Len(r.audit) \in Nat
    BY DEF Rows
  <1>5. /\ Recorded(r, AssigneeAcknowledge(r, who))
        /\ Recorded(r, AssigneeResume(r, who))
    BY <1>3, <1>4 DEF Recorded, AssigneeAcknowledge, AssigneeResume
  <1>6. ImplicitAcknowledge(r, who).overdue = r.overdue
    BY <1>3 DEF ImplicitAcknowledge, AssigneeAcknowledge
  <1>7. Len(ImplicitAcknowledge(r, who).audit) >= Len(r.audit)
    BY <1>3, <1>4 DEF ImplicitAcknowledge, AssigneeAcknowledge
  <1>8. \/ ImplicitAcknowledge(r, who) = r
        \/ r.status = "ASSIGNED" /\ ImplicitAcknowledge(r, who).status = "IN_PROGRESS"
    BY <1>3 DEF ImplicitAcknowledge, AssigneeAcknowledge
  <1> QED
    BY <1>5, <1>6, <1>7, <1>8

\* close, honoured in either way or refused, records what it does.
LEMMA CloseRecords ==
    ASSUME NEW r \in Rows, NEW who \in People, NEW text \in Notes
    PROVE  /\ Recorded(r, MarkPendingClosure(r, who, text))
           /\ Recorded(r, CloseAndVerifySelf(r, who, text))
  <1> DEFINE a == ImplicitAcknowledge(r, who)
             b == [a EXCEPT !.notes = text]
             c == Entry("CLOSURE_REQUESTED", who, text)
             v == Entry("VERIFIED", who, NoNotes)
             closed == Step(b, "VERIFIED", c)
  <1>1. a \in Rows
    BY StartType
  <1>2. /\ b \in Rows /\ b.status = a.status /\ b.audit = a.audit
        /\ b.overdue = a.overdue
    BY <1>1 DEF Rows
  <1>3. /\ Len(a.audit) >= Len(r.audit) /\ a.overdue = r.overdue
        /\ a = r \/ a.status = "IN_PROGRESS"
        /\ Len(a.audit) \in Nat /\ Len(r.audit) \in Nat
    BY <1>1, StartRecords DEF Rows
  <1>4. /\ c \in Entries /\ c.event \in LifecycleEvents
        /\ StatusAfter[c.event] = "PENDING_VERIFICATION"
    <2>1. c \in Entries
      BY EntryType DEF AuditEvents, LifecycleEvents
    <2> QED
      BY <2>1 DEF StatusAfter, LifecycleEvents, Entry
  <1>5. v \in Entries /\ v.event \in LifecycleEvents /\ StatusAfter[v.event] = "VERIFIED"
    <2>1. v \in Entries
      BY EntryType DEF AuditEvents, LifecycleEvents
    <2> QED
      BY <2>1 DEF StatusAfter, LifecycleEvents, Entry
  <1> HIDE DEF a, b, c, v
  <1>6. ASSUME CanTransition(b.status, "PENDING_VERIFICATION")
        PROVE  Recorded(r, MarkPendingClosure(r, who, text))
    <2>1. MarkPendingClosure(r, who, text) = Step(b, "PENDING_VERIFICATION", c)
      BY <1>6 DEF MarkPendingClosure, a, b, c
    <2> QED
      BY <1>2, <1>3, <1>4, <2>1, StepRecords DEF Recorded
  <1>7. ASSUME ~CanTransition(b.status, "PENDING_VERIFICATION")
        PROVE  Recorded(r, MarkPendingClosure(r, who, text))
    <2>1. MarkPendingClosure(r, who, text) = b
      BY <1>7 DEF MarkPendingClosure, a, b, c
    <2>2. CanTransition("IN_PROGRESS", "PENDING_VERIFICATION")
      BY DEF CanTransition, Edges
    <2>3. a = r
      BY <1>2, <1>3, <1>7, <2>2
    <2> QED
      BY <1>2, <2>1, <2>3 DEF Recorded
  <1>8. Recorded(r, CloseAndVerifySelf(r, who, text))
    <2>1. closed \in Rows
      BY <1>2, <1>4, StepType DEF Statuses
    <2>2. closed.audit = Append(b.audit, c) /\ closed.overdue = b.overdue
      BY <1>2 DEF Step, Rows
    <2>3. Len(closed.audit) = Len(b.audit) + 1
      BY <1>2, <2>2 DEF Rows
    <2> HIDE DEF closed
    <2>4. CloseAndVerifySelf(r, who, text) = Step(closed, "VERIFIED", v)
      BY DEF CloseAndVerifySelf, a, b, c, v, closed
    <2> QED
      BY <1>2, <1>3, <1>5, <2>1, <2>2, <2>3, <2>4, StepRecords DEF Recorded
  <1> QED
    BY <1>6, <1>7, <1>8

\* The two decisions record what they do.
LEMMA DecisionRecords ==
    ASSUME NEW r \in Rows, NEW who \in People, NEW why \in Notes
    PROVE  /\ Recorded(r, ManagerConfirm(r, who))
           /\ Recorded(r, ManagerReject(r, who, why))
  <1> DEFINE v == Entry("VERIFIED", who, NoNotes)
             o == Entry("REOPENED", who, why)
  <1>1. v \in Entries /\ o \in Entries
    BY EntryType DEF AuditEvents, LifecycleEvents
  <1>2. /\ v.event \in LifecycleEvents /\ StatusAfter[v.event] = "VERIFIED"
        /\ o.event \in LifecycleEvents /\ StatusAfter[o.event] = "REOPENED"
    BY DEF StatusAfter, LifecycleEvents, Entry
  <1>3. Len(r.audit) \in Nat
    BY DEF Rows
  <1> HIDE DEF v, o
  <1>4. Recorded(r, Step(r, "VERIFIED", v)) /\ Recorded(r, Step(r, "REOPENED", o))
    BY <1>1, <1>2, <1>3, StepRecords DEF Recorded
  <1>5. Step(r, "REOPENED", o) \in Rows
    BY <1>1, StepType DEF Statuses
  <1>6. LET n == [Step(r, "REOPENED", o) EXCEPT !.reason = why]
            m == Step(r, "REOPENED", o)
        IN n.status = m.status /\ n.audit = m.audit /\ n.overdue = m.overdue
    BY <1>5 DEF Rows
  <1> QED
    BY <1>4, <1>6 DEF ManagerConfirm, ManagerReject, Recorded, v, o

---------------------------------------------------------------------------
(* What the write lock guards, whatever the number of processes.           *)

Locked == TypeOK /\ LockedReadsAreFresh

\* A use case that commits finds no thread between its read and its commit,
\* and flags nothing.
LEMMA CommitLocks ==
    ASSUME WriteLock = TRUE, Locked, NEW l \in Loops, txn[l] # Idle,
           NEW new \in Rows, new.overdue = txn[l].seen.overdue, Commit(l, new)
    PROVE  Locked' /\ row'.overdue = row.overdue
  <1>1. TypeOK'
    BY CommitType DEF Locked
  <1>2. LockedReadsAreFresh'
    BY DEF Commit, CanWrite, Locked, TypeOK, Threads, LockedReadsAreFresh
  <1>3. txn[l].seen \in Rows /\ row \in Rows /\ row' = Flushed(row, txn[l].seen, new)
    BY DEF Locked, TypeOK, Transactions, Commit
  <1>4. row'.overdue = row.overdue
    BY <1>3, FlushedColumns
  <1> QED
    BY <1>1, <1>2, <1>4 DEF Locked

LEMMA UseCaseLocks ==
    ASSUME WriteLock = TRUE, Locked, NEW l \in Loops, UseCase(l)
    PROVE  Locked' /\ row'.overdue = row.overdue
  <1> DEFINE t == txn[l]
             Goal == Locked' /\ row'.overdue = row.overdue
  <1>0. \A op \in Operations : Running(l, op) =>
           /\ t # Idle
           /\ t.seen \in Rows /\ t.actor \in People /\ t.text \in Notes
    BY DEF Locked, TypeOK, Transactions, Running, Idle, Operations
  <1>1. ASSUME NEW new \in Rows, Recorded(t.seen, new), t # Idle, Commit(l, new) PROVE Goal
    BY <1>1, CommitLocks DEF Recorded
  <1>2. TypeOK'
    BY UseCaseType DEF Locked
  <1>3. ASSUME UNCHANGED <<row, notifier, cron, lock>> PROVE Goal
    BY <1>2, <1>3 DEF Locked, LockedReadsAreFresh
  <1>4. Request(l) \/ GiveUp(l) => UNCHANGED <<row, notifier, cron, lock>>
    BY DEF Request, Read, GiveUp
  <1>5. ASSUME Acknowledge(l) PROVE Goal
    BY <1>0, <1>1, <1>5, StartType, StartRecords DEF Acknowledge, Operations
  <1>6. ASSUME Resume(l) PROVE Goal
    BY <1>0, <1>1, <1>6, StartType, StartRecords DEF Resume, Operations
  <1>7. ASSUME Close(l) PROVE Goal
    BY <1>0, <1>1, <1>7, CloseType, CloseRecords DEF Close, Operations
  <1>8. ASSUME CloseSelf(l) PROVE Goal
    BY <1>0, <1>1, <1>8, CloseType, CloseRecords DEF CloseSelf, Operations
  <1>9. ASSUME Verify(l) PROVE Goal
    BY <1>0, <1>1, <1>9, DecisionType, DecisionRecords DEF Verify, Operations
  <1>10. ASSUME Reopen(l) PROVE Goal
    BY <1>0, <1>1, <1>10, DecisionType, DecisionRecords DEF Reopen, Operations
  <1> QED
    BY <1>3, <1>4, <1>5, <1>6, <1>7, <1>8, <1>9, <1>10 DEF UseCase

\* The notification thread appends to the row as it is, and flags nothing.
LEMMA NotifierLocks ==
    ASSUME WriteLock = TRUE, Locked, Notifier
    PROVE  Locked' /\ row'.overdue = row.overdue
  <1> DEFINE Goal == LockedReadsAreFresh' /\ row'.overdue = row.overdue
  <1>1. ASSUME StartNotifier PROVE Goal
    BY <1>1 DEF StartNotifier, Acquire, CanWrite, Locked, TypeOK, Threads, LockedReadsAreFresh
  <1>2. ASSUME ReadForAudit PROVE Goal
    BY <1>2 DEF ReadForAudit, Locked, LockedReadsAreFresh
  <1>3. ASSUME CommitAudit PROVE Goal
    <2>1. /\ row \in Rows /\ notifier.seen = row /\ lock = "notifier"
          /\ row' = Flushed(row, row, AppendAudit(row))
      BY <1>3 DEF CommitAudit, Locked, TypeOK, LockedReadsAreFresh
    <2>2. AppendAudit(row) \in Rows /\ AppendAudit(row).overdue = row.overdue
      BY <2>1, WorkerType DEF AppendAudit, Rows
    <2>3. row'.overdue = row.overdue
      BY <2>1, <2>2, FlushedColumns
    <2>4. LockedReadsAreFresh'
      BY <1>3, <2>1 DEF CommitAudit, Release, Locked, LockedReadsAreFresh
    <2> QED
      BY <2>3, <2>4
  <1>4. ASSUME LoseNotifier PROVE Goal
    BY <1>4 DEF LoseNotifier, Release, Locked, TypeOK, LockedReadsAreFresh
  <1> QED
    BY <1>1, <1>2, <1>3, <1>4, NotifierType DEF Notifier, Locked

\* The overdue job flags the row as it is, and only if it has not ended.
LEMMA CronLocks ==
    ASSUME WriteLock = TRUE, Locked, Cron
    PROVE  Locked' /\ (row.status \in Terminal => (row'.overdue => row.overdue))
  <1> DEFINE Goal == /\ LockedReadsAreFresh'
                     /\ row.status \in Terminal => (row'.overdue => row.overdue)
  <1>1. ASSUME StartRefresh PROVE Goal
    <2>1. due \in BOOLEAN
      BY DEF Locked, TypeOK
    <2> QED
      BY <1>1, <2>1 DEF StartRefresh, Acquire, CanWrite, Locked, TypeOK, Threads,
         LockedReadsAreFresh, RefreshOverdue
  <1>2. ASSUME CommitRefresh PROVE Goal
    <2>1. PICK p \in BOOLEAN : cron.new = RefreshOverdue(row, p)
      BY <1>2 DEF CommitRefresh, Locked, LockedReadsAreFresh
    <2>2. /\ row \in Rows /\ cron.seen = row /\ lock = "cron"
          /\ row' = Flushed(row, row, cron.new)
      BY <1>2 DEF CommitRefresh, Locked, TypeOK, LockedReadsAreFresh
    <2>3. cron.new \in Rows /\ (cron.new.overdue => row.status \notin Terminal)
      BY <2>1, <2>2, WorkerType DEF RefreshOverdue, Rows
    <2>4. row.status \in Terminal => (row'.overdue => row.overdue)
      BY <2>2, <2>3, FlushedColumns
    <2>5. LockedReadsAreFresh'
      BY <1>2, <2>2 DEF CommitRefresh, Release, Locked, LockedReadsAreFresh
    <2> QED
      BY <2>4, <2>5
  <1>3. ASSUME LoseRefresh PROVE Goal
    BY <1>3 DEF LoseRefresh, Release, Locked, TypeOK, LockedReadsAreFresh
  <1> QED
    BY <1>1, <1>2, <1>3, CronType DEF Cron, Locked

LEMMA StepLocks ==
    ASSUME WriteLock = TRUE, Locked, [Next]_vars
    PROVE  Locked' /\ (row.status \in Terminal => (row'.overdue => row.overdue))
  <1>1. ASSUME NEW l \in Loops, UseCase(l) PROVE Locked' /\ row'.overdue = row.overdue
    BY <1>1, UseCaseLocks
  <1>2. ASSUME DueDatePasses \/ UNCHANGED vars PROVE Locked' /\ row'.overdue = row.overdue
    BY <1>2 DEF DueDatePasses, vars, Locked, TypeOK, LockedReadsAreFresh
  <1> QED
    BY <1>1, <1>2, NotifierLocks, CronLocks DEF Next

\* What a worker thread read under the write lock is still the row when it
\* commits, the sends in between included (service.py, scheduled_jobs.py),
\* however many processes serve requests.
THEOREM LockedReadsAlwaysFresh ==
    ASSUME LifecycleAssumption, WriteLock = TRUE
    PROVE  Spec => []LockedReadsAreFresh
  <1>1. Init => Locked
    BY InitType DEF Init, Locked, LockedReadsAreFresh
  <1>2. Locked /\ [Next]_vars => Locked'
    BY StepLocks
  <1>3. Locked => LockedReadsAreFresh
    BY DEF Locked
  <1> QED
    BY <1>1, <1>2, <1>3, PTL DEF Spec

\* The overdue job never flags a task that has ended (refresh_overdue_flags),
\* however many processes serve requests.
THEOREM EndedTasksAreNeverFlagged ==
    ASSUME LifecycleAssumption, WriteLock = TRUE
    PROVE  Spec => EndedTaskIsNotFlagged
  <1>1. Init => Locked
    BY InitType DEF Init, Locked, LockedReadsAreFresh
  <1>2. Locked /\ [Next]_vars
           => Locked' /\ [row.status \in Terminal => (row'.overdue => row.overdue)]_vars
    BY StepLocks
  <1> QED
    BY <1>1, <1>2, PTL DEF Spec, EndedTaskIsNotFlagged

---------------------------------------------------------------------------
(* One process.                                                            *)

\* A new task's trail says ASSIGNED.
LEMMA InitInv == LifecycleAssumption /\ Init => IInv
  <1> SUFFICES ASSUME LifecycleAssumption, Init PROVE IInv
    OBVIOUS
  <1>1. TypeOK
    BY InitType
  <1>2. PICK creator \in People, assignee \in People : row = Created(creator, assignee)
    BY DEF Init
  <1>3. AuditExplainsStatus
    <2>1. Len(row.audit) = 2 /\ row.audit[2].event = "ASSIGNED" /\ row.status = "ASSIGNED"
      BY <1>2 DEF Created, Entry
    <2>2. "ASSIGNED" \in LifecycleEvents /\ StatusAfter["ASSIGNED"] = "ASSIGNED"
      BY DEF LifecycleEvents, StatusAfter
    <2>3. 2 \in 1..Len(row.audit) /\ \A j \in (2 + 1)..Len(row.audit) : row.audit[j].event = "NOTIFIED"
      BY <2>1
    <2> QED
      BY <2>1, <2>2, <2>3 DEF AuditExplainsStatus, Explains
  <1>4. DecisionsAreFresh /\ LockedReadsAreFresh
    BY DEF Init, DecisionsAreFresh, LockedReadsAreFresh
  <1> QED
    BY <1>1, <1>3, <1>4 DEF IInv

\* A recorded commit keeps the invariant.
LEMMA CommitInv ==
    ASSUME WriteLock = TRUE, SingleLoop, IInv,
           NEW l \in Loops, txn[l] # Idle,
           NEW new \in Rows, Recorded(txn[l].seen, new), Commit(l, new)
    PROVE  IInv'
  <1> DEFINE seen == txn[l].seen
  <1>1. TypeOK'
    BY CommitType DEF IInv
  <1>2. seen \in Rows /\ row \in Rows /\ seen.status = row.status
    BY DEF IInv, TypeOK, Transactions, DecisionsAreFresh
  <1>3. row' = Flushed(row, seen, new)
    BY DEF Commit
  <1>4. /\ row'.status = IF new.status = seen.status THEN row.status ELSE new.status
        /\ row'.audit = IF new.audit = seen.audit THEN row.audit ELSE new.audit
    BY <1>2, <1>3, FlushedColumns
  <1>5. AuditExplainsStatus'
    BY <1>2, <1>4 DEF IInv, AuditExplainsStatus, Recorded
  <1>6. DecisionsAreFresh'
    <2> SUFFICES ASSUME NEW k \in Loops PROVE txn'[k] = Idle
      BY DEF DecisionsAreFresh
    <2>1. k = l
      BY DEF SingleLoop
    <2> QED
      BY <1>1, <2>1 DEF Commit, IInv, TypeOK
  <1>7. LockedReadsAreFresh'
    BY CommitLocks DEF IInv, Locked, Recorded
  <1> QED
    BY <1>1, <1>4, <1>5, <1>6, <1>7 DEF IInv

\* Every step of the loop keeps the invariant.
LEMMA UseCaseInv ==
    ASSUME WriteLock = TRUE, SingleLoop, IInv, NEW l \in Loops, UseCase(l)
    PROVE  IInv'
  <1> DEFINE t == txn[l]
  <1>0. \A op \in Operations : Running(l, op) =>
           /\ t # Idle
           /\ t.seen \in Rows /\ t.actor \in People /\ t.text \in Notes
    BY DEF IInv, TypeOK, Transactions, Running, Idle, Operations
  <1>1. ASSUME Request(l) PROVE IInv'
    <2>1. PICK op \in Operations, actor \in People, text \in Notes :
             Read(l, op, actor, text)
      BY <1>1 DEF Request
    <2>2. TypeOK'
      BY UseCaseType DEF IInv
    <2>3. AuditExplainsStatus' /\ LockedReadsAreFresh'
      BY <2>1 DEF Read, IInv, AuditExplainsStatus, LockedReadsAreFresh
    <2>4. DecisionsAreFresh'
      <3> SUFFICES ASSUME NEW k \in Loops, txn'[k] # Idle
                   PROVE  /\ txn'[k].seen = row
                          /\ row' = row
        BY DEF DecisionsAreFresh, IInv, AuditExplainsStatus
      <3>1. k = l
        BY DEF SingleLoop
      <3> QED
        BY <2>1, <3>1 DEF Read, IInv, TypeOK
    <2> QED
      BY <2>1, <2>2, <2>3, <2>4 DEF IInv, Read
  <1>2. ASSUME Acknowledge(l) PROVE IInv'
    BY <1>0, <1>2, StartType, StartRecords, CommitInv DEF Acknowledge, Operations
  <1>3. ASSUME Resume(l) PROVE IInv'
    BY <1>0, <1>3, StartType, StartRecords, CommitInv DEF Resume, Operations
  <1>4. ASSUME Close(l) PROVE IInv'
    BY <1>0, <1>4, CloseType, CloseRecords, CommitInv DEF Close, Operations
  <1>5. ASSUME CloseSelf(l) PROVE IInv'
    BY <1>0, <1>5, CloseType, CloseRecords, CommitInv DEF CloseSelf, Operations
  <1>6. ASSUME Verify(l) PROVE IInv'
    BY <1>0, <1>6, DecisionType, DecisionRecords, CommitInv DEF Verify, Operations
  <1>7. ASSUME Reopen(l) PROVE IInv'
    BY <1>0, <1>7, DecisionType, DecisionRecords, CommitInv DEF Reopen, Operations
  <1>8. ASSUME GiveUp(l) PROVE IInv'
    <2>1. TypeOK'
      BY UseCaseType DEF IInv
    <2>2. \A k \in Loops : txn'[k] = Idle \/ txn'[k] = txn[k]
      BY <1>8 DEF GiveUp, IInv, TypeOK
    <2> QED
      BY <1>8, <2>1, <2>2 DEF GiveUp, IInv, AuditExplainsStatus,
         LockedReadsAreFresh, DecisionsAreFresh
  <1> QED
    BY <1>1, <1>2, <1>3, <1>4, <1>5, <1>6, <1>7, <1>8 DEF UseCase

\* A write that keeps the status and the parties leaves the decisions fresh.
LEMMA StatusKept ==
    ASSUME DecisionsAreFresh, UNCHANGED txn, row'.status = row.status,
           row'.creator = row.creator, row'.assignee = row.assignee
    PROVE  DecisionsAreFresh'
  BY DEF DecisionsAreFresh

\* Every step of the notification thread keeps the invariant.
LEMMA NotifierInv ==
    ASSUME WriteLock = TRUE, LifecycleAssumption, IInv, Notifier
    PROVE  IInv'
  <1>0. TypeOK' /\ LockedReadsAreFresh'
    BY NotifierLocks DEF IInv, Locked
  <1>1. ASSUME StartNotifier PROVE IInv'
    BY <1>0, <1>1 DEF StartNotifier, IInv, AuditExplainsStatus, DecisionsAreFresh
  <1>2. ASSUME ReadForAudit PROVE IInv'
    BY <1>0, <1>2 DEF ReadForAudit, IInv, AuditExplainsStatus, DecisionsAreFresh
  <1>3. ASSUME CommitAudit PROVE IInv'
    <2> DEFINE e == Entry("NOTIFIED", NoOne, NoNotes)
    <2>1. /\ row \in Rows /\ notifier.seen = row /\ lock = "notifier"
          /\ row' = Flushed(row, row, AppendAudit(row))
      BY <1>3 DEF CommitAudit, IInv, TypeOK, LockedReadsAreFresh
    <2>2. /\ AppendAudit(row) \in Rows
          /\ AppendAudit(row).status = row.status
          /\ AppendAudit(row).audit = Append(row.audit, e)
      BY <2>1, WorkerType DEF AppendAudit, Rows
    <2>3. e \in Entries /\ e.event = "NOTIFIED" /\ row.audit \in Seq(Entries)
      BY <2>1, EntryType DEF AuditEvents, Entry, Rows
    <2>4. Len(Append(row.audit, e)) = Len(row.audit) + 1 /\ Len(row.audit) \in Nat
      BY <2>3
    <2>5. /\ row'.status = row.status
          /\ row'.creator = row.creator /\ row'.assignee = row.assignee
          /\ row'.audit = Append(row.audit, e)
      BY <2>1, <2>2, <2>4, FlushedColumns
    <2>6. AuditExplainsStatus'
      BY <2>3, <2>5, NotifiedExplains DEF IInv, AuditExplainsStatus
    <2>7. DecisionsAreFresh'
      BY <1>3, <2>5, StatusKept DEF CommitAudit, IInv
    <2> QED
      BY <1>0, <2>5, <2>6, <2>7 DEF IInv
  <1>4. ASSUME LoseNotifier PROVE IInv'
    BY <1>0, <1>4 DEF LoseNotifier, IInv, AuditExplainsStatus, DecisionsAreFresh
  <1> QED
    BY <1>1, <1>2, <1>3, <1>4 DEF Notifier

\* Every step of the overdue job keeps the invariant.
LEMMA CronInv ==
    ASSUME WriteLock = TRUE, LifecycleAssumption, IInv, Cron
    PROVE  IInv'
  <1>0. TypeOK' /\ LockedReadsAreFresh'
    BY CronLocks DEF IInv, Locked
  <1>1. ASSUME StartRefresh PROVE IInv'
    BY <1>0, <1>1 DEF StartRefresh, IInv, AuditExplainsStatus, DecisionsAreFresh
  <1>2. ASSUME CommitRefresh PROVE IInv'
    <2>1. PICK p \in BOOLEAN : cron.new = RefreshOverdue(row, p)
      BY <1>2 DEF CommitRefresh, IInv, LockedReadsAreFresh
    <2>2. /\ row \in Rows /\ cron.seen = row /\ lock = "cron"
          /\ row' = Flushed(row, row, cron.new)
      BY <1>2 DEF CommitRefresh, IInv, TypeOK, LockedReadsAreFresh
    <2>3. /\ cron.new \in Rows
          /\ cron.new.status = row.status /\ cron.new.audit = row.audit
      BY <2>1, <2>2, WorkerType DEF RefreshOverdue, Rows
    <2>4. /\ row'.status = row.status /\ row'.audit = row.audit
          /\ row'.creator = row.creator /\ row'.assignee = row.assignee
      BY <2>2, <2>3, FlushedColumns
    <2>5. AuditExplainsStatus'
      BY <2>4 DEF IInv, AuditExplainsStatus
    <2>6. DecisionsAreFresh'
      BY <1>2, <2>4, StatusKept DEF CommitRefresh, IInv
    <2> QED
      BY <1>0, <2>5, <2>6 DEF IInv
  <1>3. ASSUME LoseRefresh PROVE IInv'
    BY <1>0, <1>3 DEF LoseRefresh, IInv, AuditExplainsStatus, DecisionsAreFresh
  <1> QED
    BY <1>1, <1>2, <1>3 DEF Cron

\* Every step keeps the invariant.
LEMMA StepInv ==
    ASSUME WriteLock = TRUE, LifecycleAssumption, SingleLoop, IInv, [Next]_vars
    PROVE  IInv'
  <1>1. ASSUME NEW l \in Loops, UseCase(l) PROVE IInv'
    BY <1>1, UseCaseInv
  <1>2. ASSUME Notifier PROVE IInv'
    BY <1>2, NotifierInv
  <1>3. ASSUME Cron PROVE IInv'
    BY <1>3, CronInv
  <1>4. ASSUME DueDatePasses PROVE IInv'
    BY <1>4 DEF DueDatePasses, IInv, TypeOK, AuditExplainsStatus,
       DecisionsAreFresh, LockedReadsAreFresh
  <1>5. ASSUME UNCHANGED vars PROVE IInv'
    BY <1>5 DEF vars, IInv, TypeOK, AuditExplainsStatus,
       DecisionsAreFresh, LockedReadsAreFresh
  <1> QED
    BY <1>1, <1>2, <1>3, <1>4, <1>5 DEF Next

\* With one event loop on a single-writer database the invariant holds.
THEOREM Invariant ==
    ASSUME LifecycleAssumption, WriteLock = TRUE, SingleLoop
    PROVE  Spec => []IInv
  <1>1. Init => IInv
    BY InitInv
  <1>2. IInv /\ [Next]_vars => IInv'
    BY StepInv
  <1> QED
    BY <1>1, <1>2, PTL DEF Spec

\* The last lifecycle entry of the audit trail always explains the status
\* (repository.py), for any number of requests and commits of the worker
\* threads between a use case's read and its commit.
THEOREM AuditAlwaysExplainsStatus ==
    ASSUME LifecycleAssumption, WriteLock = TRUE, SingleLoop
    PROVE  Spec => []AuditExplainsStatus
  <1>1. IInv => AuditExplainsStatus
    BY DEF IInv
  <1> QED
    BY <1>1, Invariant, PTL

\* Use cases decide on the status the task still has (application/tasks.py).
THEOREM DecisionsAlwaysFresh ==
    ASSUME LifecycleAssumption, WriteLock = TRUE, SingleLoop
    PROVE  Spec => []DecisionsAreFresh
  <1>1. IInv => DecisionsAreFresh
    BY DEF IInv
  <1> QED
    BY <1>1, Invariant, PTL

---------------------------------------------------------------------------
(* Who is named in the trail, for any number of processes and on either    *)
(* kind of database.                                                       *)

\* The row n has the people of the row r, and names only whom it may.
Upholds(r, n) == /\ n \in Rows
                 /\ n.creator = r.creator /\ n.assignee = r.assignee
                 /\ Entitled(n)

\* The inductive invariant. Without locks a commit may write back a trail
\* that is long out of date, so every copy of the row that somebody holds
\* has to be one that is fit to be written.
EInv == /\ TypeOK
        /\ Entitled(row)
        /\ \A l \in Loops : txn[l] # Idle => Upholds(row, txn[l].seen)
        /\ notifier.pc = "appending" => Upholds(row, notifier.seen)
        /\ cron.pc = "sending" => Upholds(row, cron.seen) /\ Upholds(row, cron.new)

\* The same people may sign in two rows of the same task.
LEMMA SamePeople ==
    ASSUME NEW r, NEW n, n.creator = r.creator, n.assignee = r.assignee, NEW event
    PROVE  WhoMay(n, event) = WhoMay(r, event)
  BY DEF WhoMay, VerifierRef

\* Rows that uphold rows.
LEMMA UpholdsOn ==
    ASSUME NEW r, NEW n, NEW m, Upholds(r, n), Upholds(n, m)
    PROVE  Upholds(r, m)
  BY DEF Upholds

\* An entry of somebody entitled to it may be appended.
LEMMA EntryUpholds ==
    ASSUME NEW r \in Rows, Entitled(r), NEW n \in Rows, NEW e \in Entries,
           n.creator = r.creator, n.assignee = r.assignee,
           n.audit = Append(r.audit, e), e.actor \in WhoMay(r, e.event)
    PROVE  Upholds(r, n)
  <1>1. r.audit \in Seq(Entries)
    BY DEF Rows
  <1>2. /\ Len(n.audit) = Len(r.audit) + 1 /\ Len(r.audit) \in Nat
        /\ n.audit[Len(r.audit) + 1] = e
        /\ \A i \in 1..Len(r.audit) : n.audit[i] = r.audit[i]
    BY <1>1
  <1>3. \A i \in 1..Len(n.audit) : n.audit[i].actor \in WhoMay(r, n.audit[i].event)
    <2> TAKE i \in 1..Len(n.audit)
    <2>1. CASE i = Len(r.audit) + 1
      BY <1>2, <2>1
    <2>2. CASE i # Len(r.audit) + 1
      <3>1. i \in 1..Len(r.audit)
        BY <1>2, <2>2
      <3> QED
        BY <1>2, <3>1 DEF Entitled
    <2> QED
      BY <2>1, <2>2
  <1>4. Entitled(n)
    BY <1>3, SamePeople DEF Entitled
  <1> QED
    BY <1>4 DEF Upholds

\* A column of no concern to the trail.
LEMMA ColumnUpholds ==
    ASSUME NEW r \in Rows, Entitled(r), NEW n \in Rows,
           n.creator = r.creator, n.assignee = r.assignee, n.audit = r.audit
    PROVE  Upholds(r, n)
  BY SamePeople DEF Upholds, Entitled

\* A status change with an entry of somebody entitled to it.
LEMMA StepUpholds ==
    ASSUME NEW r \in Rows, Entitled(r), NEW target \in Statuses,
           NEW event \in AuditEvents, NEW who \in WhoMay(r, event), who \in People,
           NEW d \in Notes \union {NoNotes}
    PROVE  Upholds(r, Step(r, target, Entry(event, who, d)))
  <1> DEFINE e == Entry(event, who, d)
  <1>1. e \in Entries /\ e.actor = who /\ e.event = event
    BY EntryType DEF Entry
  <1> HIDE DEF e
  <1>2. /\ Step(r, target, e) \in Rows
        /\ Step(r, target, e).creator = r.creator
        /\ Step(r, target, e).assignee = r.assignee
        /\ Step(r, target, e).audit = Append(r.audit, e)
    <2>1. Step(r, target, e) \in Rows
      BY <1>1, StepType
    <2> QED
      BY <2>1 DEF Step, Rows
  <1>3. Upholds(r, Step(r, target, e))
    BY <1>1, <1>2, EntryUpholds
  <1> QED
    BY <1>3 DEF e

\* The assignee may start the work.
LEMMA StartUpholds ==
    ASSUME NEW r \in Rows, Entitled(r)
    PROVE  /\ Upholds(r, AssigneeAcknowledge(r, r.assignee))
           /\ Upholds(r, AssigneeResume(r, r.assignee))
           /\ Upholds(r, ImplicitAcknowledge(r, r.assignee))
  <1>1. r.assignee \in People
    BY DEF Rows
  <1>2. \A event \in {"ACKNOWLEDGED", "RESUMED"} :
           event \in AuditEvents /\ r.assignee \in WhoMay(r, event)
    BY DEF AuditEvents, LifecycleEvents, WhoMay
  <1>3. "IN_PROGRESS" \in Statuses
    BY DEF Statuses
  <1>4. /\ Upholds(r, AssigneeAcknowledge(r, r.assignee))
        /\ Upholds(r, AssigneeResume(r, r.assignee))
    BY <1>1, <1>2, <1>3, StepUpholds DEF AssigneeAcknowledge, AssigneeResume
  <1>5. Upholds(r, r)
    BY DEF Upholds
  <1> QED
    BY <1>4, <1>5 DEF ImplicitAcknowledge

\* The assignee may close, and verify what only the assignee can verify.
LEMMA CloseUpholds ==
    ASSUME NEW r \in Rows, Entitled(r), NEW text \in Notes
    PROVE  /\ Upholds(r, MarkPendingClosure(r, r.assignee, text))
           /\ r.assignee \in VerifierRef(r)
                 => Upholds(r, CloseAndVerifySelf(r, r.assignee, text))
  <1> DEFINE who == r.assignee
             a == ImplicitAcknowledge(r, who)
             b == [a EXCEPT !.notes = text]
             closed == Step(b, "VERIFIED", Entry("CLOSURE_REQUESTED", who, text))
  <1>1. who \in People
    BY DEF Rows
  <1>2. Upholds(r, a)
    BY StartUpholds
  <1> HIDE DEF a
  <1>3. /\ b \in Rows /\ b.creator = a.creator
        /\ b.assignee = a.assignee /\ b.audit = a.audit
    BY <1>2 DEF Upholds, Rows
  <1> HIDE DEF b
  <1>4. Upholds(a, b)
    BY <1>2, <1>3, ColumnUpholds DEF Upholds
  <1>5. Upholds(r, b)
    BY <1>2, <1>4, UpholdsOn
  <1>6. /\ "CLOSURE_REQUESTED" \in AuditEvents /\ "VERIFIED" \in AuditEvents
        /\ "VERIFIED" \in Statuses /\ "PENDING_VERIFICATION" \in Statuses
    BY DEF AuditEvents, LifecycleEvents, Statuses
  <1>7. who \in WhoMay(b, "CLOSURE_REQUESTED")
    BY <1>5 DEF Upholds, WhoMay
  <1>8. ASSUME NEW target \in {"VERIFIED", "PENDING_VERIFICATION"}
        PROVE  Upholds(b, Step(b, target, Entry("CLOSURE_REQUESTED", who, text)))
    BY <1>1, <1>5, <1>6, <1>7, <1>8, StepUpholds DEF Upholds
  <1>9. Upholds(r, MarkPendingClosure(r, who, text))
    BY <1>5, <1>8, UpholdsOn DEF MarkPendingClosure, a, b
  <1>10. ASSUME who \in VerifierRef(r)
         PROVE  Upholds(r, CloseAndVerifySelf(r, who, text))
    <2>1. Upholds(b, closed)
      BY <1>8
    <2>2. Upholds(r, closed)
      BY <1>5, <2>1, UpholdsOn
    <2> HIDE DEF closed
    <2>3. who \in WhoMay(r, "VERIFIED")
      BY <1>10 DEF WhoMay
    <2>4. who \in WhoMay(closed, "VERIFIED")
      BY <2>2, <2>3, SamePeople DEF Upholds
    <2>5. Upholds(closed, Step(closed, "VERIFIED", Entry("VERIFIED", who, NoNotes)))
      BY <1>1, <1>6, <2>2, <2>4, StepUpholds DEF Upholds
    <2>6. Upholds(r, Step(closed, "VERIFIED", Entry("VERIFIED", who, NoNotes)))
      BY <2>2, <2>5, UpholdsOn
    <2> QED
      BY <2>6 DEF CloseAndVerifySelf, a, b, closed
  <1> QED
    BY <1>9, <1>10

\* A verifier may decide.
LEMMA DecisionUpholds ==
    ASSUME NEW r \in Rows, Entitled(r), NEW who \in People, who \in VerifierRef(r),
           NEW why \in Notes
    PROVE  /\ Upholds(r, ManagerConfirm(r, who))
           /\ Upholds(r, ManagerReject(r, who, why))
  <1> DEFINE n == Step(r, "REOPENED", Entry("REOPENED", who, why))
             m == [n EXCEPT !.reason = why]
  <1>1. /\ "VERIFIED" \in AuditEvents /\ "REOPENED" \in AuditEvents
        /\ "VERIFIED" \in Statuses /\ "REOPENED" \in Statuses
    BY DEF AuditEvents, LifecycleEvents, Statuses
  <1>2. who \in WhoMay(r, "VERIFIED") /\ who \in WhoMay(r, "REOPENED")
    BY DEF WhoMay
  <1>3. Upholds(r, ManagerConfirm(r, who))
    BY <1>1, <1>2, StepUpholds DEF ManagerConfirm
  <1>4. Upholds(r, n)
    BY <1>1, <1>2, StepUpholds
  <1> HIDE DEF n
  <1>5. /\ m \in Rows /\ m.creator = n.creator
        /\ m.assignee = n.assignee /\ m.audit = n.audit
    BY <1>4 DEF Upholds, Rows
  <1> HIDE DEF m
  <1>6. Upholds(r, m)
    BY <1>4, <1>5, ColumnUpholds, UpholdsOn DEF Upholds
  <1> QED
    BY <1>3, <1>6 DEF ManagerReject, n, m

\* The worker threads name nobody, and no one else.
LEMMA WorkerUpholds ==
    ASSUME NEW r \in Rows, Entitled(r), NEW passed \in BOOLEAN
    PROVE  Upholds(r, AppendAudit(r)) /\ Upholds(r, RefreshOverdue(r, passed))
  <1> DEFINE e == Entry("NOTIFIED", NoOne, NoNotes)
  <1>1. e \in Entries /\ e.actor = NoOne /\ e.event = "NOTIFIED"
    BY EntryType DEF AuditEvents, Entry
  <1>2. NoOne \in WhoMay(r, "NOTIFIED")
    BY DEF WhoMay
  <1>3. /\ AppendAudit(r) \in Rows
        /\ AppendAudit(r).creator = r.creator
        /\ AppendAudit(r).assignee = r.assignee
        /\ AppendAudit(r).audit = Append(r.audit, e)
    BY WorkerType DEF AppendAudit, Rows
  <1> HIDE DEF e
  <1>4. Upholds(r, AppendAudit(r))
    BY <1>1, <1>2, <1>3, EntryUpholds
  <1>5. /\ RefreshOverdue(r, passed) \in Rows
        /\ RefreshOverdue(r, passed).creator = r.creator
        /\ RefreshOverdue(r, passed).assignee = r.assignee
        /\ RefreshOverdue(r, passed).audit = r.audit
    BY WorkerType DEF RefreshOverdue, Rows
  <1>6. Upholds(r, RefreshOverdue(r, passed))
    BY <1>5, ColumnUpholds
  <1> QED
    BY <1>4, <1>6

\* What was made of a copy of the row that upholds it may be committed, even
\* over a trail that has grown since.
LEMMA FlushedUpholds ==
    ASSUME NEW now \in Rows, Entitled(now), NEW seen \in Rows, NEW new,
           Upholds(now, seen), Upholds(seen, new)
    PROVE  Upholds(now, Flushed(now, seen, new))
  <1> DEFINE f == Flushed(now, seen, new)
  <1>1. new \in Rows /\ Upholds(now, new)
    BY UpholdsOn DEF Upholds
  <1>2. /\ f \in Rows /\ f.creator = now.creator /\ f.assignee = now.assignee
        /\ f.audit = now.audit \/ f.audit = new.audit
    BY <1>1, FlushedType, FlushedColumns
  <1>3. \A n \in Rows : n.creator = now.creator /\ n.assignee = now.assignee
                         /\ (n.audit = now.audit \/ n.audit = new.audit)
                            => Upholds(now, n)
    <2> SUFFICES ASSUME NEW n \in Rows,
                        n.creator = now.creator, n.assignee = now.assignee,
                        n.audit = now.audit \/ n.audit = new.audit
                 PROVE  Upholds(now, n)
      OBVIOUS
    <2>1. CASE n.audit = now.audit
      BY <2>1, ColumnUpholds
    <2>2. CASE n.audit = new.audit
      BY <1>1, <2>2, SamePeople DEF Upholds, Entitled
    <2> QED
      BY <2>1, <2>2
  <1> QED
    BY <1>2, <1>3

---------------------------------------------------------------------------
\* A step that gives the row the same people and an upright trail, and
\* leaves no one with a copy they did not have, keeps the invariant.
LEMMA CopiesUphold ==
    ASSUME EInv, TypeOK', Upholds(row, row'),
           \A l \in Loops : txn'[l] # Idle => Upholds(row, txn'[l].seen),
           notifier'.pc = "appending" => Upholds(row, notifier'.seen),
           cron'.pc = "sending" => Upholds(row, cron'.seen) /\ Upholds(row, cron'.new)
    PROVE  EInv'
  <1>1. \A n : Upholds(row, n) => Upholds(row', n)
    BY DEF Upholds
  <1>2. Entitled(row')
    BY DEF Upholds
  <1>3. /\ \A l \in Loops : txn'[l] # Idle => Upholds(row', txn'[l].seen)
        /\ notifier'.pc = "appending" => Upholds(row', notifier'.seen)
        /\ cron'.pc = "sending" => Upholds(row', cron'.seen) /\ Upholds(row', cron'.new)
    BY <1>1
  <1> QED
    BY <1>2, <1>3 DEF EInv

\* A new task is entered by its creator.
LEMMA InitEntitled == LifecycleAssumption /\ Init => EInv
  <1> SUFFICES ASSUME LifecycleAssumption, Init PROVE EInv
    OBVIOUS
  <1>1. TypeOK
    BY InitType
  <1>2. PICK creator \in People, assignee \in People : row = Created(creator, assignee)
    BY DEF Init
  <1>3. /\ row.creator = creator /\ Len(row.audit) = 2
        /\ row.audit[1].actor = creator /\ row.audit[1].event = "CREATED"
        /\ row.audit[2].actor = creator /\ row.audit[2].event = "ASSIGNED"
    BY <1>2 DEF Created, Entry
  <1>4. WhoMay(row, "CREATED") = {creator} /\ WhoMay(row, "ASSIGNED") = {creator}
    BY <1>3 DEF WhoMay
  <1>5. \A i \in 1..2 : i = 1 \/ i = 2
    OBVIOUS
  <1>6. Entitled(row)
    BY <1>3, <1>4, <1>5 DEF Entitled
  <1> QED
    BY <1>1, <1>6 DEF Init, EInv

\* Every step of a use case keeps the invariant.
LEMMA UseCaseEntitled ==
    ASSUME EInv, NEW l \in Loops, UseCase(l)
    PROVE  EInv'
  <1> DEFINE t == txn[l]
  <1>0. /\ TypeOK /\ TypeOK' /\ row \in Rows /\ Entitled(row) /\ Upholds(row, row)
        /\ txn \in [Loops -> Transactions \union {Idle}]
    BY UseCaseType DEF EInv, TypeOK, Upholds
  <1>1. \A op \in Operations : Running(l, op) =>
           /\ t # Idle /\ Upholds(row, t.seen)
           /\ t.seen \in Rows /\ Entitled(t.seen)
           /\ t.actor \in People /\ t.text \in Notes
    BY DEF EInv, TypeOK, Transactions, Running, Idle, Operations, Upholds
  <1>2. ASSUME t # Idle, NEW new, Upholds(t.seen, new), Commit(l, new)
        PROVE  EInv'
    <2>1. Upholds(row, t.seen) /\ t.seen \in Rows
      BY <1>2 DEF EInv, Upholds
    <2>2. Upholds(row, row')
      BY <1>0, <1>2, <2>1, FlushedUpholds DEF Commit
    <2>3. \A k \in Loops : txn'[k] = Idle \/ txn'[k] = txn[k]
      BY <1>0, <1>2 DEF Commit
    <2> QED
      BY <1>0, <1>2, <2>2, <2>3, CopiesUphold DEF Commit, EInv
  <1>3. ASSUME Request(l) PROVE EInv'
    <2>1. PICK op \in Operations, actor \in People, text \in Notes :
             Read(l, op, actor, text)
      BY <1>3 DEF Request
    <2>2. \A k \in Loops : txn'[k] = txn[k] \/ txn'[k].seen = row
      BY <1>0, <2>1 DEF Read
    <2> QED
      BY <1>0, <2>1, <2>2, CopiesUphold DEF Read, EInv
  <1>4. ASSUME Acknowledge(l) PROVE EInv'
    BY <1>1, <1>2, <1>4, StartUpholds DEF Acknowledge, IsAssignee, Operations
  <1>5. ASSUME Resume(l) PROVE EInv'
    BY <1>1, <1>2, <1>5, StartUpholds DEF Resume, IsAssignee, Operations
  <1>6. ASSUME Close(l) PROVE EInv'
    BY <1>1, <1>2, <1>6, CloseUpholds DEF Close, IsAssignee, Operations
  <1>7. ASSUME CloseSelf(l) PROVE EInv'
    BY <1>1, <1>2, <1>7, CloseUpholds
    DEF CloseSelf, IsAssignee, AutoVerify, Operations
  <1>8. ASSUME Verify(l) PROVE EInv'
    BY <1>1, <1>2, <1>8, DecisionUpholds DEF Verify, MayDecide, Operations
  <1>9. ASSUME Reopen(l) PROVE EInv'
    BY <1>1, <1>2, <1>9, DecisionUpholds DEF Reopen, MayDecide, Operations
  <1>10. ASSUME GiveUp(l) PROVE EInv'
    <2>1. \A k \in Loops : txn'[k] = Idle \/ txn'[k] = txn[k]
      BY <1>0, <1>10 DEF GiveUp
    <2> QED
      BY <1>0, <1>10, <2>1, CopiesUphold DEF GiveUp, EInv
  <1> QED
    BY <1>3, <1>4, <1>5, <1>6, <1>7, <1>8, <1>9, <1>10 DEF UseCase

\* Every step of the two worker threads keeps the invariant.
LEMMA WorkersEntitled ==
    ASSUME LifecycleAssumption, EInv, Notifier \/ Cron
    PROVE  EInv'
  <1>0. /\ TypeOK /\ TypeOK' /\ row \in Rows /\ due \in BOOLEAN
        /\ Entitled(row) /\ Upholds(row, row)
    BY NotifierType, CronType DEF EInv, TypeOK, Upholds
  <1>1. ASSUME row' = row, txn' = txn, cron' = cron,
               notifier' = notifier \/ notifier'.pc # "appending" \/ notifier'.seen = row
        PROVE  EInv'
    BY <1>0, <1>1, CopiesUphold DEF EInv
  <1>2. ASSUME StartNotifier \/ ReadForAudit \/ LoseNotifier PROVE EInv'
    <2>1. row' = row /\ txn' = txn /\ cron' = cron
      BY <1>2 DEF StartNotifier, ReadForAudit, LoseNotifier
    <2>2. notifier'.pc # "appending" \/ notifier'.seen = row
      BY <1>2 DEF StartNotifier, ReadForAudit, LoseNotifier
    <2> QED
      BY <1>1, <2>1, <2>2
  <1>3. ASSUME CommitAudit PROVE EInv'
    <2>1. /\ Upholds(row, notifier.seen)
          /\ notifier.seen \in Rows /\ Entitled(notifier.seen)
      BY <1>3 DEF CommitAudit, EInv, Upholds
    <2>2. Upholds(notifier.seen, AppendAudit(notifier.seen))
      BY <2>1, WorkerUpholds
    <2>3. Upholds(row, row')
      BY <1>0, <1>3, <2>1, <2>2, FlushedUpholds DEF CommitAudit
    <2>4. txn' = txn /\ cron' = cron /\ notifier'.pc # "appending"
      BY <1>3 DEF CommitAudit
    <2> QED
      BY <1>0, <2>3, <2>4, CopiesUphold DEF EInv
  <1>4. ASSUME StartRefresh PROVE EInv'
    <2>1. Upholds(row, RefreshOverdue(row, due))
      BY <1>0, WorkerUpholds
    <2>2. /\ row' = row /\ txn' = txn /\ notifier' = notifier
          /\ cron'.seen = row /\ cron'.new = RefreshOverdue(row, due)
      BY <1>4 DEF StartRefresh
    <2> QED
      BY <1>0, <2>1, <2>2, CopiesUphold DEF EInv
  <1>5. ASSUME CommitRefresh PROVE EInv'
    <2>1. /\ Upholds(row, cron.seen) /\ cron.seen \in Rows
          /\ Upholds(cron.seen, cron.new)
      BY <1>5 DEF CommitRefresh, EInv, Upholds
    <2>2. Upholds(row, row')
      BY <1>0, <1>5, <2>1, FlushedUpholds DEF CommitRefresh
    <2>3. txn' = txn /\ notifier' = notifier /\ cron'.pc # "sending"
      BY <1>5 DEF CommitRefresh
    <2> QED
      BY <1>0, <2>2, <2>3, CopiesUphold DEF EInv
  <1>6. ASSUME LoseRefresh PROVE EInv'
    <2>1. row' = row /\ txn' = txn /\ notifier' = notifier /\ cron'.pc # "sending"
      BY <1>6 DEF LoseRefresh
    <2> QED
      BY <1>0, <2>1, CopiesUphold DEF EInv
  <1> QED
    BY <1>2, <1>3, <1>4, <1>5, <1>6 DEF Notifier, Cron

\* Every entry of the trail names somebody entitled to it (_require_assignee
\* and _require_verifier of application/tasks.py, and what repository.py
\* commits), however many processes serve the task, on either database, and
\* also where a commit overwrites entries of another.
THEOREM EntriesAlwaysEntitled ==
    LifecycleAssumption => (Spec => []EntriesAreEntitled)
  <1> SUFFICES ASSUME LifecycleAssumption PROVE Spec => []EntriesAreEntitled
    OBVIOUS
  <1>1. Init => EInv
    BY InitEntitled
  <1>2. EInv /\ [Next]_vars => EInv'
    <2> SUFFICES ASSUME EInv, [Next]_vars PROVE EInv'
      OBVIOUS
    <2>1. ASSUME NEW l \in Loops, UseCase(l) PROVE EInv'
      BY <2>1, UseCaseEntitled
    <2>2. ASSUME Notifier \/ Cron PROVE EInv'
      BY <2>2, WorkersEntitled
    <2>3. ASSUME DueDatePasses \/ UNCHANGED vars PROVE EInv'
      <3>1. row' = row /\ txn' = txn /\ notifier' = notifier /\ cron' = cron
        BY <2>3 DEF DueDatePasses, vars
      <3>2. TypeOK'
        BY <2>3 DEF DueDatePasses, vars, EInv, TypeOK
      <3>3. Upholds(row, row)
        BY DEF EInv, TypeOK, Upholds
      <3> QED
        BY <3>1, <3>2, <3>3, CopiesUphold DEF EInv
    <2> QED
      BY <2>1, <2>2, <2>3 DEF Next
  <1>3. EInv => EntriesAreEntitled
    BY DEF EInv, EntriesAreEntitled
  <1> QED
    BY <1>1, <1>2, <1>3, PTL DEF Spec
=============================================================================
