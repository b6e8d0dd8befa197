------------------------- MODULE NotificationOutbox -------------------------
(***************************************************************************)
(* Notifications: the worker threads that deliver what the use cases and   *)
(* the cron routes have to tell (notifications/service.py,                 *)
(* notifications/scheduled_jobs.py), the idempotency keys they consume,    *)
(* the delivery log, and the retry job that reads it.                      *)
(*                                                                         *)
(* A delivery thread is one transaction around its messages to Teams: it   *)
(* consumes a key, sends, logs, and commits at the end of its work, so     *)
(* what it sent and what it recorded can part ways.  A thread of a use     *)
(* case has one notice; a scheduled job consumes a key of its own for the  *)
(* day and then has a notice for each person, whose exceptions it          *)
(* swallows.  The retry job scans the log, sends again, and takes the key  *)
(* of a retry after it has sent.                                           *)
(***************************************************************************)
EXTENDS Naturals, Sequences, FiniteSets

CONSTANTS Threads,    \* delivery threads: post-commit notices, job runs
          Work,       \* [Threads -> Seq(Items)]
          Retriers,   \* runs of the retry job that may overlap
          MaxFailures \* bound: exceptions that come of themselves

\* What a thread has to do: tell somebody of an event in a round (a cycle of
\* a task, a day), or, as a job, see that nobody else does its day.
Events == {"task_assigned", "verify_requested", "task_reopened",
           "task_verified", "daily_summary", "overdue_assignee", "overdue_creator"}
Items == [event : Events \union {"job"}, about : STRING, round : Nat]
IsNotice(item) == item.event \in Events

\* The jobs swallow the exceptions of their notices one by one, but those of
\* the two notices of an overdue task together.
Swallowed == {"daily_summary", "overdue_assignee", "overdue_creator"}

\* The idempotency keys as service.py and scheduled_jobs.py build them: a
\* reopened task's has its updated_at in it and a scheduled one its day; the
\* others have the task alone.
Dated == Swallowed \union {"task_reopened", "job"}
KeyOf(n) == <<n.event, n.about, IF n.event \in Dated THEN n.round ELSE 0>>
RetryKey(k) == <<"retry", k>>

All == UNION {{Work[t][i] : i \in 1..Len(Work[t])} : t \in Threads}
Told == {n \in All : IsNotice(n)}
Keys == {KeyOf(n) : n \in Told}
Gates == {KeyOf(n) : n \in All \ Told}
SendKeys == Keys \union {RetryKey(k) : k \in Keys}

ASSUME OutboxAssumption ==
    /\ IsFiniteSet(Threads) /\ IsFiniteSet(Retriers)
    /\ \A t \in Threads :
          /\ Work[t] \in Seq(Items)
          /\ \A i \in 1..Len(Work[t]) : Work[t][i].event = "overdue_assignee" =>
                i < Len(Work[t]) /\ Work[t][i + 1] = [Work[t][i] EXCEPT !.event = "overdue_creator"]
    /\ MaxFailures \in Nat

VARIABLES keys,      \* committed idempotency keys
          log,       \* committed delivery rows, by key: [notice, reached, retry]
          thread,    \* [pc, todo, mine, rows]: a thread's position and its own writes
          retrier,   \* [pc, todo, mine, rows]: a retry run's
          messages,  \* ghost: messages Teams received for a key
          arrived,   \* ghost: the notices whose own message arrived
          orphaned,  \* ghost: sends for a key whose record was rolled back
          dropped,   \* ghost: the keys committed for a notice that raised
          failures   \* exceptions so far, up to MaxFailures
vars == <<keys, log, thread, retrier, messages, arrived, orphaned, dropped, failures>>

NoRow == [logged |-> FALSE, reached |-> FALSE, retry |-> FALSE]
\* Mutant of Row: only what was delivered counts as logged.
RowOfSuccess(n, reached) ==
    [logged |-> reached, notice |-> n, reached |-> reached, retry |-> ~reached]

Row(n, reached) ==
    [logged |-> TRUE, notice |-> n, reached |-> reached, retry |-> ~reached]
Blank(pc, todo) == [pc |-> pc, todo |-> todo, mine |-> {}, rows |-> {}]

At(t, pc) == thread[t].pc = pc
Item(t) == Head(thread[t].todo)

\* An uncommitted insert of a key makes the others wait for its outcome.
Claimed(k, t) == \E u \in Threads \ {t} : k \in thread[u].mine

\* A message to Teams: it arrives or not, and a message that arrived may
\* still be reported lost (a timeout of the HTTP call).
Outcomes == {[arrived |-> TRUE, ok |-> TRUE], [arrived |-> TRUE, ok |-> FALSE],
             [arrived |-> FALSE, ok |-> FALSE]}

Message(k, notices, outcome) ==
    IF outcome.arrived
      THEN /\ messages' = [messages EXCEPT ![k] = @ + 1]
           /\ arrived' = arrived \union notices
      ELSE UNCHANGED <<messages, arrived>>

Orphan(ks) == orphaned' = [k \in SendKeys |-> orphaned[k] + IF k \in ks THEN 1 ELSE 0]

---------------------------------------------------------------------------
\* Delivery threads.

\* _try_consume_idempotency and _consume_idempotency begin by looking for the
\* key. One that is there skips the notice, or the rest of the job.
Look(t) ==
    LET k == KeyOf(Item(t))
    IN /\ At(t, "next")
       /\ thread[t].todo # <<>>
       /\ thread' =
            IF k \notin keys \union thread[t].mine
              THEN [thread EXCEPT ![t].pc = "insert"]
              ELSE [thread EXCEPT ![t].todo = IF IsNotice(Item(t)) THEN Tail(@) ELSE <<>>]
       /\ UNCHANGED <<keys, log, retrier, messages, arrived, orphaned, dropped, failures>>

\* Mutant of Insert: the insert ignores a key that is there by now.
InsertOrIgnore(t) ==
    LET k == KeyOf(Item(t))
    IN /\ At(t, "insert")
       /\ ~Claimed(k, t)
       /\ thread' = [thread EXCEPT ![t].mine = @ \union {k},
                                   ![t].pc = IF IsNotice(Item(t)) THEN "send" ELSE "next",
                                   ![t].todo = IF IsNotice(Item(t)) THEN @ ELSE Tail(@)]
       /\ UNCHANGED <<keys, log, retrier, messages, arrived, orphaned, dropped, failures>>

\* The flush of the new key.
Insert(t) ==
    LET k == KeyOf(Item(t))
    IN /\ At(t, "insert")
       /\ ~Claimed(k, t)
       /\ k \notin keys
       /\ thread' = IF IsNotice(Item(t))
                      THEN [thread EXCEPT ![t].pc = "send", ![t].mine = @ \union {k}]
                      ELSE [thread EXCEPT ![t].pc = "next", ![t].mine = @ \union {k},
                                          ![t].todo = Tail(@)]
       /\ UNCHANGED <<keys, log, retrier, messages, arrived, orphaned, dropped, failures>>

\* Mutant of Lose: the transaction is never rolled back.
LoseInTransaction(t) ==
    /\ thread' = [thread EXCEPT ![t].pc = "lost", ![t].todo = <<>>, ![t].rows = {}]
    /\ Orphan({r.key : r \in thread[t].rows})
    /\ UNCHANGED <<keys, log, retrier, messages, arrived, dropped>>

\* The transaction is gone, its keys and its rows with it; the messages are
\* not. The use case has returned, and a job has nothing more to commit.
Lose(t) == /\ thread' = [thread EXCEPT ![t] = Blank("lost", <<>>)]
           /\ Orphan({r.key : r \in thread[t].rows})
           /\ UNCHANGED <<keys, log, retrier, messages, arrived, dropped>>

\* IntegrityError: another thread has committed the key since the look. A
\* job swallows it, but its session takes nothing more.
CollideInsert(t) ==
    /\ At(t, "insert")
    /\ KeyOf(Item(t)) \in keys
    /\ Lose(t)
    /\ UNCHANGED failures

\* A failed flush, "database is locked", the process stopping, and any
\* exception that no job swallows: it undoes what was sent before it as it
\* does after Deliver.
Abort(t) ==
    /\ thread[t].pc \in {"next", "insert", "send"}
    /\ failures < MaxFailures
    /\ failures' = failures + 1
    /\ Lose(t)

\* Mutant of Deliver: a failed delivery is not logged.
DeliverUnlogged(t, outcome) ==
    LET n == Item(t)
    IN /\ At(t, "send")
       /\ thread' = [thread EXCEPT
                       ![t].pc = "next", ![t].todo = Tail(@),
                       ![t].rows = IF outcome.ok
                         THEN @ \union {[key |-> KeyOf(n), row |-> Row(n, TRUE)]}
                         ELSE @]
       /\ Message(KeyOf(n), {n}, outcome)
       /\ UNCHANGED <<keys, log, retrier, orphaned, dropped, failures>>

\* _deliver_hybrid's sends, over both channels, and _log_delivery.
Deliver(t, outcome) ==
    LET n == Item(t)
    IN /\ At(t, "send")
       /\ thread' = [thread EXCEPT
                       ![t].pc = "next", ![t].todo = Tail(@),
                       ![t].rows = @ \union {[key |-> KeyOf(n), row |-> Row(n, outcome.ok)]}]
       /\ Message(KeyOf(n), {n}, outcome)
       /\ UNCHANGED <<keys, log, retrier, orphaned, dropped, failures>>

\* A job's notice raises when its key is looked up, and is passed over.
Skip(t) ==
    LET rest == IF Item(t).event = "overdue_assignee" THEN 3 ELSE 2
    IN /\ At(t, "next")
       /\ thread[t].todo # <<>> /\ Item(t).event \in Swallowed
       /\ failures < MaxFailures /\ failures' = failures + 1
       /\ thread' = [thread EXCEPT ![t].todo = SubSeq(@, rest, Len(@))]
       /\ UNCHANGED <<keys, log, retrier, messages, arrived, orphaned, dropped>>

\* A job's notice raises in send_bot_dm, outside its try: when the stored
\* conversation is read or the connector's token is asked for, perhaps after
\* the other channel's message.  The job goes on with the key and no row.
Drop(t, outcome) ==
    LET n == Item(t)
    IN /\ At(t, "send") /\ n.event \in Swallowed \ {"overdue_assignee"}
       /\ failures < MaxFailures /\ failures' = failures + 1
       /\ thread' = [thread EXCEPT
                       ![t].pc = "next", ![t].todo = Tail(@),
                       ![t].rows = @ \union {[key |-> KeyOf(n), row |-> NoRow]}]
       /\ Message(KeyOf(n), {n}, outcome)
       /\ UNCHANGED <<keys, log, retrier, orphaned, dropped>>

\* The commit.
Finish(t) ==
    /\ At(t, "next")
    /\ thread[t].todo = <<>>
    /\ keys' = keys \union thread[t].mine
    /\ log' = [k \in Keys |-> IF \E r \in thread[t].rows : r.key = k
                                THEN (CHOOSE r \in thread[t].rows : r.key = k).row
                                ELSE log[k]]
    /\ dropped' = dropped \union {k \in Keys : [key |-> k, row |-> NoRow] \in thread[t].rows}
    /\ thread' = [thread EXCEPT ![t] = Blank("done", <<>>)]
    /\ UNCHANGED <<retrier, messages, arrived, orphaned, failures>>

---------------------------------------------------------------------------
\* The retry job. It takes no lock before it writes.

\* Mutant of Scan: the SELECT without its WHERE.
ScanAll(r) ==
    LET logged == {k \in Keys : log[k].logged}
    IN /\ retrier[r].pc = "idle"
       /\ logged # {}
       /\ retrier' = [retrier EXCEPT ![r] = Blank("loop", logged)]
       /\ UNCHANGED <<keys, log, thread, messages, arrived, orphaned, dropped, failures>>

\* The SELECT of the rows that need it; `limit` is above their number.
Scan(r) ==
    LET failing == {k \in Keys : log[k].logged /\ log[k].retry}
    IN /\ retrier[r].pc = "idle"
       /\ failing # {}
       /\ retrier' = [retrier EXCEPT ![r] = Blank("loop", failing)]
       /\ UNCHANGED <<keys, log, thread, messages, arrived, orphaned, dropped, failures>>

\* Mutant of GiveUp: a spent retry is skipped and its row left as it is.
SkipSpent(r, k) ==
    /\ retrier[r].pc = "loop"
    /\ k \in retrier[r].todo
    /\ RetryKey(k) \in keys
    /\ retrier' = [retrier EXCEPT ![r].todo = @ \ {k}]
    /\ UNCHANGED <<keys, log, thread, messages, arrived, orphaned, dropped, failures>>

\* A row whose one retry has been spent is given up on.
GiveUp(r, k) ==
    /\ retrier[r].pc = "loop"
    /\ k \in retrier[r].todo
    /\ RetryKey(k) \in keys
    /\ retrier' = [retrier EXCEPT ![r].todo = @ \ {k},
                                  ![r].rows = @ \union {[key |-> k, retry |-> FALSE]}]
    /\ UNCHANGED <<keys, log, thread, messages, arrived, orphaned, dropped, failures>>

Remind(r, k, outcome) ==
    /\ retrier[r].pc = "loop"
    /\ k \in retrier[r].todo
    /\ RetryKey(k) \notin keys
    /\ retrier' = [retrier EXCEPT ![r].todo = @ \ {k},
                                  ![r].mine = @ \union {RetryKey(k)},
                                  ![r].rows = @ \union {[key |-> k, retry |-> ~outcome.ok]}]
    /\ Message(RetryKey(k), {}, outcome)
    /\ UNCHANGED <<keys, log, thread, orphaned, dropped, failures>>

\* Mutant of FinishRetry: the retry keys are not unique.
FinishRetryAnyway(r) ==
    /\ retrier[r].pc = "loop"
    /\ retrier[r].todo = {}
    /\ keys' = keys \union retrier[r].mine
    /\ log' = [k \in Keys |->
                 IF \E w \in retrier[r].rows : w.key = k
                   THEN [log[k] EXCEPT !.retry =
                           (CHOOSE w \in retrier[r].rows : w.key = k).retry]
                   ELSE log[k]]
    /\ retrier' = [retrier EXCEPT ![r] = Blank("idle", {})]
    /\ UNCHANGED <<thread, messages, arrived, orphaned, dropped, failures>>

\* The flush and the commit: two runs that spent the same retry collide here.
FinishRetry(r) ==
    /\ retrier[r].pc = "loop"
    /\ retrier[r].todo = {}
    /\ retrier[r].mine \intersect keys = {}
    /\ keys' = keys \union retrier[r].mine
    /\ log' = [k \in Keys |->
                 IF \E w \in retrier[r].rows : w.key = k
                   THEN [log[k] EXCEPT !.retry =
                           (CHOOSE w \in retrier[r].rows : w.key = k).retry]
                   ELSE log[k]]
    /\ retrier' = [retrier EXCEPT ![r] = Blank("idle", {})]
    /\ UNCHANGED <<thread, messages, arrived, orphaned, dropped, failures>>

RollBack(r) == /\ retrier' = [retrier EXCEPT ![r] = Blank("idle", {})]
               /\ Orphan(retrier[r].mine)
               /\ UNCHANGED <<keys, log, thread, messages, arrived, dropped>>

\* IntegrityError on a key another run has committed.
Collide(r) ==
    /\ retrier[r].pc = "loop"
    /\ retrier[r].todo = {}
    /\ retrier[r].mine \intersect keys # {}
    /\ RollBack(r)
    /\ UNCHANGED failures

\* An exception, of a send as well: no row of a run swallows its own.
AbortRetry(r) ==
    /\ retrier[r].pc = "loop"
    /\ failures < MaxFailures
    /\ failures' = failures + 1
    /\ RollBack(r)

---------------------------------------------------------------------------
Init == /\ keys = {}
        /\ log = [k \in Keys |-> NoRow]
        /\ thread = [t \in Threads |-> Blank("next", Work[t])]
        /\ retrier = [r \in Retriers |-> Blank("idle", {})]
        /\ messages = [k \in SendKeys |-> 0]
        /\ arrived = {}
        /\ orphaned = [k \in SendKeys |-> 0]
        /\ dropped = {}
        /\ failures = 0

Run(t) == \/ Look(t) \/ Insert(t) \/ CollideInsert(t) \/ Finish(t)
          \/ \E outcome \in Outcomes : Deliver(t, outcome)

Retry(r) == \/ Scan(r) \/ FinishRetry(r) \/ Collide(r)
            \/ \E k \in Keys : GiveUp(r, k)
            \/ \E k \in Keys, outcome \in Outcomes : Remind(r, k, outcome)

Fail(t) == Abort(t) \/ Skip(t) \/ \E outcome \in Outcomes : Drop(t, outcome)

Next == \/ \E t \in Threads : Run(t) \/ Fail(t)
        \/ \E r \in Retriers : Retry(r) \/ AbortRetry(r)

\* Threads run; the scheduler keeps calling the retry route.
Spec == /\ Init /\ [][Next]_vars
        /\ \A t \in Threads : WF_vars(Run(t))
        /\ \A r \in Retriers : WF_vars(Retry(r))

---------------------------------------------------------------------------
\* Every variable has the values the code can give it.
TypeOK ==
    /\ keys \subseteq SendKeys \union Gates
    /\ \A k \in Keys : log[k] = NoRow \/
          /\ log[k].logged /\ log[k].notice \in Told /\ KeyOf(log[k].notice) = k
          /\ log[k].reached \in BOOLEAN /\ log[k].retry \in BOOLEAN
    /\ \A t \in Threads : /\ thread[t].pc \in {"next", "insert", "send", "done", "lost"}
                          /\ thread[t].mine \subseteq Keys \union Gates
    /\ \A r \in Retriers : /\ retrier[r].pc \in {"idle", "loop"}
                           /\ retrier[r].todo \subseteq Keys
                           /\ retrier[r].mine \subseteq SendKeys
    /\ arrived \subseteq Told /\ dropped \subseteq Keys
    /\ failures \in 0..MaxFailures

\* Every message sent under a key is paid for by the key's one committed
\* use, by a transaction that is still open, or by one that was rolled back:
\* nothing else sends twice (idempotency keys of service.py, scheduled_jobs.py).
InFlight(k) ==
    Cardinality({t \in Threads : \E r \in thread[t].rows : r.key = k})
    + Cardinality({r \in Retriers : k \in retrier[r].mine})
EveryMessageIsAccountedFor ==
    \A k \in SendKeys :
       messages[k] <= (IF k \in keys THEN 1 ELSE 0) + orphaned[k] + InFlight(k)

\* A consumed key has its delivery row and a row its key: what was sent and
\* not rolled back is in the log for the retry job to see (_log_delivery in
\* the transaction that consumed the key).  Only a notice that raised in a
\* job has used up its key of the day and has no row, and never gets one.
ConsumedIsLoggedOrDropped ==
    \A k \in Keys : /\ k \in keys <=> log[k].logged \/ k \in dropped
                    /\ log[k].logged => k \notin dropped

\* Nobody is reminded of what the log has as delivered by a channel.
RemindersFollowFailures ==
    \A k \in Keys : messages[RetryKey(k)] > 0 => log[k].logged /\ ~log[k].reached

\* A delivery that failed on every channel is retried and then settled, one
\* way or the other: the retry job does not go on about it for ever.
FailuresSettle == \A k \in Keys :
    log[k].retry ~> ~log[k].retry

\* Every thread ends: two jobs do not wait for each other's keys.
ThreadsEnd == \A t \in Threads : <>(thread[t].pc \in {"done", "lost"})

---------------------------------------------------------------------------
\* DM-04 of LTA_TECHNICAL_REQUIREMENTS.md: a timer job that runs twice sends
\* no second reminder.
OneReminder == \A k \in Keys : messages[RetryKey(k)] <= 1

\* LTM_SYSTEM_SPEC.md's close: each time work is handed in, the verifier is
\* asked. A thread that ended well has told what it had to tell, or the log
\* has the failure.
EveryClosureIsAnnounced ==
    \A t \in Threads : thread[t].pc = "done" =>
       \A i \in 1..Len(Work[t]) : IsNotice(Work[t][i]) =>
          \/ Work[t][i] \in arrived
          \/ LET k == KeyOf(Work[t][i])
             IN log[k].logged /\ log[k].notice = Work[t][i]
=============================================================================
