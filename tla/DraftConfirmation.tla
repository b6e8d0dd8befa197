------------------------- MODULE DraftConfirmation -------------------------
(***************************************************************************)
(* From a durable draft to a numbered task: bot/drafts.py, the use cases   *)
(* of application/drafts.py and the repository's next_sequence and         *)
(* create_from_draft.                                                      *)
(*                                                                         *)
(* A request runs on a process's event loop without an await until its     *)
(* transaction has committed, so one process serves one request at a time; *)
(* while a restart overlaps, two processes share the database.  A request  *)
(* is a few short transactions: confirm() peeks at the draft in one and    *)
(* claims it, numbers the task and inserts it in another; every one of     *)
(* them reads before it writes.                                            *)
(*                                                                         *)
(* A transaction keeps the lock of what it wrote until it ends: the whole  *)
(* database on SQLite (WriteLock), the row on SQL Server.                  *)
(***************************************************************************)
EXTENDS Naturals, FiniteSets, Sequences

CONSTANTS People,
          Drafts,
          Requester,   \* [Drafts -> People]
          Loops,       \* the event loops of the processes that are up
          Nobody,      \* holds no lock
          WriteLock,   \* single-writer database
          MaxRequests  \* bound: requests served

ASSUME DraftAssumption ==
    /\ Requester \in [Drafts -> People]
    /\ Nobody \notin Loops
    /\ "counter" \notin Drafts
    /\ WriteLock \in BOOLEAN
    /\ MaxRequests \in Nat

VARIABLES draft,      \* committed: [state, task]; task 0 is none recorded
          stale,      \* the drafts whose thirty minutes have passed
          counter,    \* committed: last_sequence of the department and year
          tasks,      \* committed: [id, draft]
          req,        \* per loop: the request being served
          holder,     \* who holds the write lock of each resource
          answers,    \* ghost: what the requests were answered
          served,     \* requests started, up to MaxRequests
          overlapped  \* ghost: have two processes served at the same time?
vars == <<draft, stale, counter, tasks, req, holder, answers, served, overlapped>>

States == {"ABSENT", "ACTIVE", "CONSUMED", "CANCELLED"}
Codes == {"TASK_CREATED", "DRAFT_EXPIRED", "DRAFT_CANCELLED",
          "NOT_DRAFT_REQUESTER", "ASSIGNMENT_DENIED", "ERROR"}

\* What a write locks until its transaction ends.
Resources == IF WriteLock THEN {"database"} ELSE Drafts \union {"counter"}
LockOf(r) == IF WriteLock THEN "database" ELSE r
Free(l, r) == holder[LockOf(r)] \in {Nobody, l}
Acquire(l, r) == holder' = [holder EXCEPT ![LockOf(r)] = l]
ReleaseAll(l) == holder' = [r \in Resources |->
                              IF holder[r] = l THEN Nobody ELSE holder[r]]

NoRequest == [pc |-> "idle"]
At(l, pc) == req[l].pc = pc
Goto(l, pc) == req' = [req EXCEPT ![l].pc = pc]
Target(l) == req[l].draft

\* Mutant of Answer: the session is never closed.
AnswerInTransaction(l, code, task) ==
    /\ answers' = answers \union {[draft |-> Target(l), code |-> code, task |-> task]}
    /\ req' = [req EXCEPT ![l] = NoRequest]
    /\ UNCHANGED holder

\* The request's transaction ends and the requester is told.
Answer(l, code, task) ==
    /\ answers' = answers \union {[draft |-> Target(l), code |-> code, task |-> task]}
    /\ req' = [req EXCEPT ![l] = NoRequest]
    /\ ReleaseAll(l)

---------------------------------------------------------------------------
\* Mutant of Stash: the row of a draft that has ended is used again.
StashOver(d) ==
    /\ draft[d].state # "ACTIVE"
    /\ holder[LockOf(d)] = Nobody
    /\ draft' = [draft EXCEPT ![d].state = "ACTIVE"]
    /\ UNCHANGED <<stale, counter, tasks, req, holder, answers, served, overlapped>>

\* stash_draft: nobody else knows the draft yet.
Stash(d) ==
    /\ draft[d].state = "ABSENT"
    /\ holder[LockOf(d)] = Nobody
    /\ draft' = [draft EXCEPT ![d].state = "ACTIVE"]
    /\ UNCHANGED <<stale, counter, tasks, req, holder, answers, served, overlapped>>

\* expires_at passes.
Expire(d) ==
    /\ draft[d].state # "ABSENT"
    /\ d \notin stale
    /\ stale' = stale \union {d}
    /\ UNCHANGED <<draft, counter, tasks, req, holder, answers, served, overlapped>>

\* A card action or a chat command reaches confirm() or cancel().
Start(l, op, d, actor) ==
    /\ req[l] = NoRequest
    /\ served < MaxRequests
    /\ served' = served + 1
    /\ overlapped' = (overlapped \/ \E k \in Loops : req[k] # NoRequest)
    /\ req' = [req EXCEPT ![l] =
                 [pc |-> op, draft |-> d, actor |-> actor, seq |-> 0, after |-> op]]
    /\ UNCHANGED <<draft, stale, counter, tasks, holder, answers>>

\* Mutant of OwnedRow: whatever state the row is in.
OwnedRowOfAnyState(l, live, dead) ==
    /\ Requester[Target(l)] = req[l].actor
    /\ req' = [req EXCEPT ![l].pc = live]
    /\ UNCHANGED <<draft, stale, counter, tasks, holder, answers, served, overlapped>>

\* _owned_row, up to its return: `live` with an active row, `dead` without
\* one; an active row that has expired is cancelled first.
OwnedRow(l, live, dead) ==
    LET d == Target(l)
    IN /\ Requester[d] = req[l].actor
       /\ req' = IF draft[d].state = "ACTIVE" /\ d \in stale
                   THEN [req EXCEPT ![l].pc = "lapse", ![l].after = dead]
                   ELSE [req EXCEPT ![l].pc = IF draft[d].state = "ACTIVE"
                                                THEN live ELSE dead]
       /\ UNCHANGED <<draft, stale, counter, tasks, holder, answers, served, overlapped>>

Peek(l) == At(l, "confirm") /\ OwnedRow(l, "policy", "completed")
ClaimRead(l) == At(l, "claim") /\ OwnedRow(l, "update", "expired")
CancelRead(l) == At(l, "cancel") /\ OwnedRow(l, "discard", "expired")

\* The commit of _owned_row's write, by primary key alone.
CommitLapse(l) ==
    /\ At(l, "lapse")
    /\ Free(l, Target(l))
    /\ draft' = [draft EXCEPT ![Target(l)].state = "CANCELLED"]
    /\ Goto(l, req[l].after)
    /\ UNCHANGED <<stale, counter, tasks, holder, answers, served, overlapped>>

\* DraftAccessError.
Refuse(l) ==
    /\ req[l].pc \in {"confirm", "cancel"}
    /\ Requester[Target(l)] # req[l].actor
    /\ Answer(l, "NOT_DRAFT_REQUESTER", 0)
    /\ UNCHANGED <<draft, stale, counter, tasks, served, overlapped>>

\* Without a live draft confirm() looks for the task it has become.
Completed(l) ==
    LET d == Target(l)
    IN /\ At(l, "completed")
       /\ IF draft[d].state = "CONSUMED" /\ draft[d].task # 0
            THEN Answer(l, "TASK_CREATED", draft[d].task)
            ELSE Answer(l, "DRAFT_EXPIRED", 0)
       /\ UNCHANGED <<draft, stale, counter, tasks, served, overlapped>>

Expired(l) ==
    /\ At(l, "expired")
    /\ Answer(l, "DRAFT_EXPIRED", 0)
    /\ UNCHANGED <<draft, stale, counter, tasks, served, overlapped>>

\* assert_assignee_department_matches and assert_can_assign.
Policy(l) ==
    /\ At(l, "policy")
    /\ \/ Goto(l, "claim") /\ UNCHANGED <<holder, answers>>
       \/ Answer(l, "ASSIGNMENT_DENIED", 0)
    /\ UNCHANGED <<draft, stale, counter, tasks, served, overlapped>>

\* Mutant of ClaimUpdate: an UPDATE by primary key alone.
ClaimByKey(l) ==
    /\ At(l, "update")
    /\ Free(l, Target(l))
    /\ Acquire(l, Target(l))
    /\ Goto(l, "count")
    /\ UNCHANGED <<draft, stale, counter, tasks, answers, served, overlapped>>

\* take_draft_in_session's conditional UPDATE: it waits for whoever has the
\* row and then looks at the state again. CONSUMED is seen at the commit.
ClaimUpdate(l) ==
    LET d == Target(l)
    IN /\ At(l, "update")
       /\ Free(l, d)
       /\ IF draft[d].state = "ACTIVE"
            THEN Acquire(l, d) /\ Goto(l, "count")
            ELSE Goto(l, "expired") /\ UNCHANGED holder
       /\ UNCHANGED <<draft, stale, counter, tasks, answers, served, overlapped>>

\* Mutant of ReadCounter: the number before it is incremented.
ReadCounterAsIs(l) ==
    /\ At(l, "count")
    /\ req' = [req EXCEPT ![l].pc = "number", ![l].seq = counter]
    /\ UNCHANGED <<draft, stale, counter, tasks, holder, answers, served, overlapped>>

\* next_sequence reads the counter and writes the number it worked out.
ReadCounter(l) ==
    /\ At(l, "count")
    /\ req' = [req EXCEPT ![l].pc = "number", ![l].seq = counter + 1]
    /\ UNCHANGED <<draft, stale, counter, tasks, holder, answers, served, overlapped>>

\* Mutant of WriteCounter: the counter is committed on its own.
CommitCounter(l) ==
    /\ At(l, "number")
    /\ Free(l, "counter")
    /\ counter' = req[l].seq
    /\ Goto(l, "insert")
    /\ UNCHANGED <<draft, stale, tasks, holder, answers, served, overlapped>>

WriteCounter(l) ==
    /\ At(l, "number")
    /\ Free(l, "counter")
    /\ Acquire(l, "counter")
    /\ Goto(l, "insert")
    /\ UNCHANGED <<draft, stale, counter, tasks, answers, served, overlapped>>

\* Mutant of CommitTask: without record_draft_task_id.
CommitTaskUnrecorded(l) ==
    LET d == Target(l)
        n == req[l].seq
    IN /\ At(l, "insert")
       /\ \A t \in tasks : t.id # n
       /\ draft' = [draft EXCEPT ![d].state = "CONSUMED"]
       /\ counter' = n
       /\ tasks' = tasks \union {[id |-> n, draft |-> d]}
       /\ Answer(l, "TASK_CREATED", n) \/ Answer(l, "ERROR", 0)
       /\ UNCHANGED <<stale, served, overlapped>>

\* create_from_draft's INSERT, record_draft_task_id and the commit. The task
\* id is a primary key. A push to the replica that fails after the commit is
\* an error to the requester.
CommitTask(l) ==
    LET d == Target(l)
        n == req[l].seq
    IN /\ At(l, "insert")
       /\ \A t \in tasks : t.id # n
       /\ draft' = [draft EXCEPT ![d] = [state |-> "CONSUMED", task |-> n]]
       /\ counter' = n
       /\ tasks' = tasks \union {[id |-> n, draft |-> d]}
       /\ \/ Answer(l, "TASK_CREATED", n)
          \/ Answer(l, "ERROR", 0)
       /\ UNCHANGED <<stale, served, overlapped>>

\* discard_draft writes what it decided on when it read.
CommitDiscard(l) ==
    /\ At(l, "discard")
    /\ Free(l, Target(l))
    /\ draft' = [draft EXCEPT ![Target(l)].state = "CANCELLED"]
    /\ Answer(l, "DRAFT_CANCELLED", 0)
    /\ UNCHANGED <<stale, counter, tasks, served, overlapped>>

\* A duplicate task id, a lock that is not released in time, a lost
\* connection, the process stopping: the open transaction is rolled back.
Fail(l) ==
    /\ req[l] # NoRequest
    /\ Answer(l, "ERROR", 0)
    /\ UNCHANGED <<draft, stale, counter, tasks, served, overlapped>>

DuplicateId(l) == At(l, "insert") /\ (\E t \in tasks : t.id = req[l].seq) /\ Fail(l)

---------------------------------------------------------------------------
Init == /\ draft = [d \in Drafts |-> [state |-> "ABSENT", task |-> 0]]
        /\ stale = {}
        /\ counter = 0
        /\ tasks = {}
        /\ req = [l \in Loops |-> NoRequest]
        /\ holder = [r \in Resources |-> Nobody]
        /\ answers = {}
        /\ served = 0
        /\ overlapped = FALSE

\* What a request does next on its own.
Serve(l) == \/ Peek(l) \/ ClaimRead(l) \/ CancelRead(l) \/ CommitLapse(l)
            \/ Refuse(l) \/ Completed(l) \/ Expired(l) \/ Policy(l)
            \/ ClaimUpdate(l) \/ ReadCounter(l) \/ WriteCounter(l)
            \/ CommitTask(l) \/ DuplicateId(l) \/ CommitDiscard(l)

Next == \/ \E d \in Drafts : Stash(d) \/ Expire(d)
        \/ \E l \in Loops, op \in {"confirm", "cancel"}, d \in Drafts, p \in People :
              Start(l, op, d, p)
        \/ \E l \in Loops : Serve(l) \/ Fail(l)

\* A process that serves a request goes on with it; nobody has to send one.
Spec == Init /\ [][Next]_vars /\ \A l \in Loops : WF_vars(Serve(l))

---------------------------------------------------------------------------
Pcs == {"confirm", "claim", "cancel", "lapse", "completed", "expired", "policy",
        "update", "count", "number", "insert", "discard"}
Requests == [pc : Pcs, draft : Drafts, actor : People, seq : Nat, after : Pcs]

\* Every variable has the values the code can give it, and the locks are held
\* by the transactions that wrote what they protect.
TypeOK ==
    /\ draft \in [Drafts -> [state : States, task : Nat]]
    /\ stale \in SUBSET Drafts
    /\ counter \in Nat
    /\ tasks \in SUBSET [id : Nat \ {0}, draft : Drafts]
    /\ req \in [Loops -> Requests \union {NoRequest}]
    /\ holder \in [Resources -> Loops \union {Nobody}]
    /\ answers \in SUBSET [draft : Drafts, code : Codes, task : Nat]
    /\ served \in 0..MaxRequests
    /\ overlapped \in BOOLEAN

\* A draft becomes at most one task, however often it is confirmed, by
\* however many processes, and no two tasks share a number.
OneTaskPerDraft ==
    \A t, u \in tasks : (t.draft = u.draft \/ t.id = u.id) => t = u

\* A consumed draft names its task and a task's draft names the task, so a
\* repeated confirm always finds it (record_draft_task_id).
DraftNamesItsTask ==
    /\ \A d \in Drafts : draft[d].state = "CONSUMED"
                            => [id |-> draft[d].task, draft |-> d] \in tasks
    /\ \A t \in tasks : draft[t.draft].task = t.id

\* FR-WF-02's sequence has neither gaps nor repetitions, although two
\* processes may read the same counter (next_sequence).
NumbersAreDense == {t.id : t \in tasks} = 1..counter

\* Whoever is told that a task was created can find that task, and as long
\* as no two processes served at once, no task comes of a draft whose
\* requester was told that it is cancelled.
AnswersAreTrue ==
    /\ \A a \in answers : a.code = "TASK_CREATED"
                             => [id |-> a.task, draft |-> a.draft] \in tasks
    /\ \A a \in answers : a.code = "DRAFT_CANCELLED" /\ ~overlapped
                             => \A t \in tasks : t.draft # a.draft

\* What a request waits for, and whom: the locks of others.
Needs(l) == CASE req[l].pc \in {"update", "lapse", "discard"} -> {Target(l)}
              [] req[l].pc = "number" -> {"counter"}
              [] OTHER -> {}
WaitsFor(l, k) == k # l /\ \E r \in Needs(l) : holder[LockOf(r)] = k

\* Nobody waits in a circle: of any processes one waits for none of them.
\* A confirmation locks the draft before the counter, and nothing after it
\* (take_draft_in_session, next_sequence), and every end of a request
\* releases what it holds (session_scope).
NoCircularWait ==
    \A S \in (SUBSET Loops) \ {{}} : \E l \in S : \A k \in S : ~WaitsFor(l, k)

\* The tasks as the list of their drafts, and what is told of tasks.
StateOf == [d \in Drafts |-> draft[d].state]
Made == [n \in 1..counter |-> (CHOOSE t \in tasks : t.id = n).draft]
Told == {a \in answers : a.code \in {"TASK_CREATED", "DRAFT_CANCELLED"}}

\* Whatever the requests of several processes interleave, the rows implement
\* the promise: a task is made in one step of an active draft, with the next
\* number, and nothing takes it back (application/drafts.py).
Promise == INSTANCE DraftPromise WITH state <- StateOf, made <- Made, told <- Told
ImplementsPromise == Promise!Spec

\* Every request is answered: two processes that want the same draft and the
\* same counter do not wait for each other for ever.
EveryRequestAnswered == \A l \in Loops : req[l] # NoRequest ~> req[l] = NoRequest
=============================================================================
