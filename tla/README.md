# Lantern Task Manager: specification and proofs

The Lantern Task Manager is a Teams bot: people describe tasks in chat, confirm
them on a card, acknowledge, close, verify or reject them on cards or in chat,
and are notified. One Python process runs the bot's event loop (`src/app.py`),
its worker threads and the cron routes; a restart or a rollout has two processes
up for a while. They share one SQL database, which is single-writer on SQLite and
libSQL and multi-writer (READ COMMITTED) on SQL Server.

Paths below are under `src/ltm/`, but for `src/app.py` and the documents, which
are under `docs/`.

## Inventory

| Component | State it keeps | Operations | What makes it correct |
|---|---|---|---|
| Task status machine (`domain/state_machine.py`, `domain/enums.py`) | none | `can_transition` | the edges of the lifecycle |
| Tasks (`storage/repository.py`, `application/tasks.py`) | a task row with its status, notes, overdue flag and audit trail in one column | acknowledge, resume, close, close-and-verify-self, verify, reject, append NOTIFIED, refresh overdue | the status is what the trail says; each entry is a legal step of a person entitled to it; the trail only grows; no ended task is flagged |
| Drafts (`bot/drafts.py`, `application/drafts.py`) | draft rows ACTIVE / CONSUMED / CANCELLED for thirty minutes, a sequence counter | stash, confirm, cancel, discard | one task for a draft, numbers without gaps, true answers, nobody waiting in a circle |
| Notifications (`notifications/*`) | idempotency keys, a delivery log with its retry flag | the post-commit notices, the daily summary, the overdue notices, the retry job | nobody is told twice beyond what a rollback forgets; what was sent is in the log; what failed is retried once and settled |
| Conversations (`src/app.py`, `interaction/store.py`, `bot/tools.py`, `bot/pending_mentions.py`) | a session row: revision, pending operation, its reference and expiry | begin an event, set, read and clear the pending operation; the handlers of a message, the assistant's tools | a late turn changes nothing and does not begin to speak; an answer goes where it was asked for; a revised draft is dead |
| Card receipts (`interaction/coordinator.py`) | a receipt for each card action: in progress or its code and text | claim, take over after five minutes, complete, replay | a receipt tells what became of the action |
| LLM gateway (`ai/gateway.py`, `governor.py`, `circuit_breaker.py`, `storage/llm_usage.py`) | breaker state and failure count, two token buckets, time of the last request, daily usage rows | acquire, call with retries and fallback, record success, failure and usage | the breaker opens on failures of turns alone and rests after each; caps and intervals hold within a known excess; every turn ends |
| Assignment policy (`policy/*`) | directory and policy files, read once | `can_assign`, asked at `create_task` and at the confirmation | a task is allowed by what is in force when it is made |
| Mentions (`bot/mentions.py`, `mention_scoring.py`, `pending_mentions.py`) | the overrides of a conversation, in memory | rank, pick or declare ambiguous; ask on a card; set, read and clear overrides | nobody is guessed; the pick does not depend on the order of a search; a pick reaches its turn |
| Conversation memory (`ai/memory_trim.py`) | the message list of a conversation | trim | the newest turns that fit are kept, the newest always, none of them cut; repeated trimming settles |
| Transactions (`storage/db.py`, `engine_config.py`, `turso_sync.py`) | – | commit, roll back, push the replica | – |
| Tokens, Graph, Dynamics 365, cards, texts, settings, migrations | caches, files | I/O and presentation | – |

How they interact:

- A message or card action is a coroutine on the event loop. It opens short
  transactions and awaits only HTTP: the Graph lookups, the model, its own sends
  and, through a thread, the notices. Turns of one conversation interleave at
  these awaits.
- A use case commits, then starts a thread that delivers the notice. That thread
  keeps one transaction open around its sends, and on a single-writer database
  the write lock with it. The cron routes run their jobs in threads in the same way.
- What survives a crash is the database: task, draft, session, receipt, key and
  log rows. What does not: turns, threads, the breaker, buckets, conversation
  memory, mention overrides.

What is hard: read-modify-write of whole columns by threads beside the loop;
commits after sends; two processes with one database; turns of the model that
take seconds while the person goes on; receipts, sessions and drafts that expire;
clicks that are repeated. `PROJECT.json` lists each such place under `hazards`
with the properties that cover it.

## Modules

| Module | Models | State in the code |
|---|---|---|
| `TaskStatus` | the statuses, events and `can_transition` | `domain/enums.py`, `domain/state_machine.py` |
| `TaskPromise` | abstract: a task's lifecycle trail grows by legal steps of the people entitled to them | – |
| `TaskLifecycle` | one task row: the use cases, the notification thread, the overdue job | `row` the committed row, `txn[l]` the use case in its transaction on a loop, `notifier` and `cron` the threads, `lock` the write lock |
| `TaskLifecycle_proofs`, `TaskPromise_proofs` | the theorems about it, that it implements `TaskPromise`, and what follows from that | |
| `DraftPromise` | abstract: a list of tasks that only grows, each made in one step of an active draft, and true answers | – |
| `DraftConfirmation` | drafts to numbered tasks, in two processes | `draft`, `counter`, `tasks` committed rows; `req[l]` the request of a process; `holder` the row or database locks |
| `DraftConfirmation_proofs` | the theorems about it, and that it implements `DraftPromise` | |
| `NotificationOutbox` | keys, delivery threads, log, retry job | `keys`, `log` committed rows; `thread[t]`, `retrier[r]` the open transactions |
| `NotificationOutbox_proofs` | the theorems about it | |
| `InteractionTurns` | a conversation: messages, the assistant's turns, card actions | `session`, `draft`, `receipt` committed rows; `turn[t]` the coroutines; `running` the one on the loop |
| `InteractionTurns_proofs` | the theorems about it | |
| `LlmGateway` | the calls of the model | `turn[t]` where `generate_text` of a turn is; `breaker`, `rpm`, `tpm`, `spacing` the process's singletons; `usage` committed rows; `record` the threads that write them |
| `LlmGateway_proofs` | the theorems about it | |
| `AssignmentPolicy` | pure: `can_assign` and the two assertions | – |
| `MentionRanking` | pure: `score_candidate`, `rank_and_pick` | – |
| `MemoryTrim` | pure: `trim_messages` | – |
| `ChoiceAlgorithms_proofs` | the theorems about `MentionRanking` and `MemoryTrim` | |
| `AssigneeChoice` | composes the three: names, pick cards, overrides, `create_task` and confirmation in a group conversation | `turn[t]` the coroutines; `pending`, `draft` committed; `overrides`, `artefacts` in the process |
| `AssigneeChoice_proofs` | the theorems about it | |
| `MC…` | the small instances | |

Shared conventions: an action is a transaction, or the part of one between two
points where another actor may run; its name is the name of the function where it
has one. Ghost variables, which record history for the properties and guard
nothing, are marked in the declarations. An operator whose comment begins
with "Mutant of" is a plausible slip in the operator after it. Nothing uses it; it is
there to show that a property notices such a slip.

Choices of the models that a reader of the code may ask about:

- **TaskLifecycle.** `Commit` writes the columns SQLAlchemy found changed, whole
  (`Flushed`). A use case holds no lock while it reads. `VerifiersFor`
  is the set of people a verifier lookup may name: the manager of the map or
  of Graph, or the creator when the lookup fails or names nobody. A refused closure
  returns from inside `session_scope`, so its notes are committed.
- **DraftConfirmation.** With `WriteLock` FALSE each row has its own lock, held
  from the first write to the commit, and reads see what is committed. A commit
  whose replica push fails commits and answers ERROR. In `DraftPromise`, `overlapped`
  tells whether a second process has ever served: from then on a cancellation that read
  the draft active may write CANCELLED over CONSUMED, and the promise says so.
- **NotificationOutbox.** A send can arrive and be reported as arrived, arrive and
  be reported lost, or be lost (`Outcomes`). The scheduled jobs consume a key of the
  day before they start; `about` and `round` stand for the rest of a key. An exception
  in the thread of a use case or in a retry run rolls the whole transaction back
  (`Abort`, `AbortRetry`). The jobs swallow those of their notices
  (`scheduled_jobs.py:66-71`, `114-127`) and go on: a notice that fails at the look-up of
  its key is passed over (`Skip`, an overdue task's second notice with the first), and one
  that fails in `send_bot_dm` outside its `try` (`bot_delivery.py:48`, `:100`) leaves its
  flushed key to be committed without a row (`Drop`, counted in the ghost `dropped`). The
  assignee's overdue notice goes to the activity feed only, which never raises. A failed
  flush leaves a session that takes nothing more, so it is an `Abort` in a job too.
- **InteractionTurns.** One process, so that a turn is alone between its awaits;
  each step is a transaction and a crash may follow any of them (`Breaks`). The
  answer of a turn asks `is_current` once (`Answers`) and then awaits a send for each of
  its cards (`Send`), with other turns in between. Texts
  become choices: whether an answer completes a task, revises a draft or is
  ambiguous, and which tools the model calls. The coordinator is enabled. Verbs
  that only call a use case of TaskLifecycle and the in-memory fallback without the
  coordinator are left out; the mention overrides are AssigneeChoice's.
- **LlmGateway.** Time is in flags: `cooled` and `rested` tell whether
  `open_seconds` have passed, `spacing` whether the interval since the last request
  runs, and a bucket is refilled a token at a time. Any wait may run into its limit
  (`Refuse`, `TimedOut`). What an error is worth is a choice between `Retry` and
  `Fail`. A request is one call of the hooked client method (`orig_create`); the client
  is built with its own retries on (`gateway.py:106`), and what it sends again within a call
  passes no governor and is left out. The ghosts `streak` and `rested` count failed turns and remember the pause;
  `paced` and `late` in a turn remember its requests.
- **AssigneeChoice.** A name, a search result and a domain are abstract; `Searches`
  holds what Graph may return for a name, an empty list when it fails. A stale turn is
  one whose person has begun a later event; the revision that tells so is
  `InteractionTurns`' subject, and so is the review of a draft, which here is nothing
  pending; of its revisions only "assign to me" changes whom the draft is for
  (`ReviseForMe`), without asking the policy. `disturbed` marks a pick whose override another pick has overwritten
  or cleared. The message list is not in the state: the memory
  of a turn is trimmed before the model is asked, and `MemoryTrim` is checked by itself. There
  a message is its kind and its length; the note that takes the place of what was
  left out of a tool result is as long as its text, digits included (`Note`), for contents
  below 10^9 characters.

## Runs

| Run | Asks | Shows |
|---|---|---|
| `task_lifecycle` | Do status, trail and actors stay those of the promise? | `TaskLifecycle` implements `TaskPromise` (`ImplementsPromise`); the status is explained by the last lifecycle entry; decisions are made on the status the row still has; every entry of the trail names somebody entitled to it (`EntriesAreEntitled`); what a thread read under the lock is still there; no ended task gets flagged |
| `draft_confirmation` | Do two processes make one task of a draft? | `DraftConfirmation` implements `DraftPromise` (`ImplementsPromise`); one task and one number for each draft, no gaps after rollbacks, a repeated confirmation finds the task, answers are true; nobody waits in a circle for drafts and counter (`NoCircularWait`), and every request is answered |
| `notification_outbox` | Who may be told twice? | every message is paid for by a committed key, an open transaction or a rollback; a committed key has its log row, but for a notice whose exception a job has swallowed (`ConsumedIsLoggedOrDropped`); reminders are sent only of what the log has as delivered by no channel; threads end |
| `retry_overlap` | Do overlapping retry runs settle the failures of the overdue job? | one of them collides on the retry key and rolls back; the row leaves the retry job's list in the end |
| `interaction_turns` | What can a late turn do? | the assistant's late turns change no pending operation and no older draft, and one that is late before it speaks shows no card (`StaleTurnsBeginNoAnswer`); a person who sees a revision cannot confirm what it replaced, even after a crash half-way; a message closes a task only in answer to the newest prompt, once; receipts are true even after a take-over |
| `llm_gateway` | Do our own limits and the provider's failures stay apart? | the breaker counts exactly the failed turns in a row; none begins before `open_seconds` have passed since the last failure, a probe's too; a turn never sends twice within the interval and sends once at most after the day's limit is reached; every turn ends |
| `assignee_choice` | Can a task go to somebody nobody meant, or may not have it? | a person is given to the model only for a mention, a pick not yet done with, or a clear winner; a pick reaches its turn through the directory's delay; a task is allowed by the directory and policy in force when it is made. Over bounded inputs: `PickIgnoresOrder`, and `TrimKeepsTheNewest` with the trimming repeated |
| `audit_lost` | Is the audit trail append-only? | No: a use case that read before the notifier appended NOTIFIED writes the column back without it (DM-01 says it is) |
| `refused_close` | Does a refused request leave no trace? | No: the notes of a closure of a verified task are committed although it is refused (NFR-REL-01) |
| `retry_twice` | Do overlapping timer jobs send once? | No: both runs of the retry job send before either takes the key (DM-04) |
| `second_closure` | Is the verifier asked at every closure? | No: the key of the request has no round, so nobody is asked after a rejection (LTM_SYSTEM_SPEC.md) |
| `next_message` | Is the next message after a prompt taken for the notes? | No: a repeated click replays the stored prompt although its pending operation is gone or another task's (LOW_FRICTION_ROLLOUT.md) |

The five violations are listed under `findings` with the lines of code and of the
documents. Two limits of the passing runs follow from them: `ImplementsPromise`
compares lifecycle entries and not NOTIFIED, and the promise lets a waiting
task be handed in again, as the code does.

Weaknesses without a run of their own:

- Two `clear` calls, after the name lookup of a completed answer
  (`src/app.py:477`) and after the notice of a confirmed draft (`src/app.py:743`),
  ignore the revision and can erase what a newer event stored.
  `StaleTurnsChangeNothing` is therefore about the assistant's turns and the
  preparation of drafts, whose pcs `StepOfStale` lists, and does not hold with
  `resolve` and `settle` added to them.
- The cards of an answer go out one awaited send after another once `is_current` has been
  asked (`src/app.py:271-290`), and so does the text after them. A newer event, even
  "cancel", that comes during the first send does not stop the second: its card is shown
  late. `StaleTurnsBeginNoAnswer` is therefore about turns that were superseded before
  they spoke, and `RevisedCardIsDead` holds of the late cards too.
- `send_bot_dm` says that it never raises, but reads the stored conversation and asks
  for the connector's token outside its `try`. In a scheduled job the key of such a
  notice is used up for the day and has no log row, so that neither the retry job nor a
  second call of the job sends it; on the first channel it may have arrived.
- The governor's waits count against the time limit of an attempt
  (`ai/gateway.py:308`), so a long wait for our own buckets is retried and may be
  recorded as a failure of the provider. A retry runs from the first round, tools
  included.
- A failed turn is recorded as one request whatever it sent (`ai/gateway.py:240`),
  and a refused one as none, although TOKEN_OPTIMIZATION_ROLLOUT.md says that daily
  counts include tool-result requests. The threads that record overwrite each other
  (`storage/llm_usage.py:94`). The daily limit therefore holds of what is stored.
- Turns that sleep for the same interval send together (`ai/governor.py:96`);
  `OncePerInterval` is about a single turn's requests.
- Overrides belong to the conversation. Two people who pick the same name at the
  same time share the later pick, and the end of one pick clears the other's
  (`disturbed` in `PickIsHonoured`); a handler that raises leaves them behind. While
  there is any, no other name of a text is looked up, so a second ambiguous name of a
  message is never asked for.
- `trim_messages` returns early without looking at the limit of tool results when
  the other two limits are off, and its note makes a result that is barely too
  long longer. The next trimming shortens the shortened result again, since the
  note makes it too long: "3 chars" becomes "23 chars", a character more, which can
  exceed `max_chars` and drop a turn of a conversation that fitted. It happens once:
  every note of a note has two digits (`NotesAre`).

### Bounds

- `task_lifecycle`: three people, one with a manager; one loop; `MaxAudit = 8`
  lets a rejection and a second closure follow the first, with NOTIFIED between any
  of them. A longer trail repeats these; the theorems are for any `MaxAudit`.
- `draft_confirmation`: two drafts, so that two confirmations compete for the
  counter as well as for a draft; two processes; `MaxRequests = 3`, a race and then a
  repetition of what it left.
- `notification_outbox`: two calls of one day's job for two people and a targeted
  summary for one of them, which shares one key with each; one retry run beside them;
  `MaxFailures = 1`, an exception anywhere, rolled back or swallowed; without
  `ThreadsEnd`, two fit as well. `retry_overlap` has the overdue job of a task, with its two keys
  of the day and two notices, and two retry runs.
- `interaction_turns`: two turns at a time, the old one and the new; four events,
  enough for a draft, a revision, a confirmation and its repetition; two drafts,
  two tool calls in a turn, one expiry of anything (`MaxWaits`). The two turns are
  symmetric; no liveness is checked under symmetry.
- `llm_gateway`: three turns, two of them at a time, so that a late verdict meets an
  open breaker and a third turn meets its outcome; two rounds, so that a turn asks
  for a second request; a primary attempt and the fallback; a threshold, a daily limit and
  buckets of one, each reached at once and then exceeded by whoever is in flight.
- `assignee_choice`: two people in two turns at a time, a text with a name
  that is clear for one of them and ambiguous for the other, and one that nobody has,
  and a text with a mention; two versions of directory and policy
  with a move, a new manager, a returned person, a deny edge and an edge that is gone;
  one draft at a time. The turns are symmetric. Candidate lists up to three with every
  reason for and against and three orders of names; message lists up to four, of lengths
  and limits at which a note makes a turn fit once and not a second time.
- `CHECK_DEADLOCK FALSE` stands where the bounds leave nothing to do in the end:
  all requests answered, all events used, all threads done.

### Fairness

`WF(Serve(l))`: a process goes on with the request it has begun, there is no await
in it. `WF(Run(t))`: a started thread runs. `WF(Retry(r))`: the scheduler calls the
retry route again and again and a call runs to its end. `WF(Proceed(t))` and
`WF(IntervalEnds)` in `LlmGateway`: a turn's waits have limits (`max_wait`, the
interval), an attempt with the primary model has `wait_for`, and the fallback's request
has the time limit of the provider's client; time passes. None of them makes a
failure or a person's step happen, and nothing is assumed of the conversations.

## Proofs

Every safety property of the passing runs, the two refinements among them, is a
theorem for all values of the constants. The runs show that
the properties can fail: each has a mutant of the code that breaks it. Each component's
proof has an inductive invariant `IInv`, which TLC checked on the instance of the run
before it was proved; one lemma per action shows that it is kept. Where a property needs
something weaker that holds more widely, it has an invariant of its own (`Locked`,
`EInv`, `HoldersClaim`).

The assumptions are the modules' own, named there (`LifecycleAssumption`,
`DraftAssumption`, ...): `Nobody` is nobody, limits are numbers, rows of a directory
have a department (`_parse_profile` refuses one without). TLC evaluates them for
the constants of the runs. Two more are hypotheses of theorems and are needed
there: `WriteLock` and `SingleLoop`, in `TaskLifecycle_proofs` and `TaskPromise_proofs`.

### Tasks

`TaskLifecycle_proofs`, for any people, notes, managers, verifier mode and length of
the trail:

- `TypeCorrect`: `Spec => []TypeOK`, for any number of processes and either kind of
  database.
- `LockedReadsAlwaysFresh` and `EndedTasksAreNeverFlagged`, for any number of processes on
  a single-writer database (`WriteLock`): whoever serves requests waits for the lock of
  a worker thread, so what that thread read is still the row when it commits, and
  no use case touches the flag.
- `EntriesAlwaysEntitled`, for any number of processes and either kind of database: every
  entry of the trail names somebody who may sign it. Without the lock a commit may write
  back a trail that is out of date, and entries of others are lost (`audit_lost`); the
  invariant `EInv` therefore asks of *every* copy of the row that a use case or a
  thread holds, that it has the row's people and an upright trail (`Upholds`). It is
  kept because no method changes the people, and each appends an entry of whom its guard
  let through (`StartUpholds`, `CloseUpholds`, `DecisionUpholds`, `WorkerUpholds`).
- `Invariant`: `Spec => []IInv`, for a single-writer database and one process
  (`SingleLoop`). `AuditAlwaysExplainsStatus` and `DecisionsAlwaysFresh` follow from it.

`AuditExplainsStatus` is not inductive: a commit writes what its transaction made
of the row *it read*, so that row must still have the committed status and an
explained trail (`DecisionsAreFresh`), although a thread may have appended
NOTIFIED meanwhile; and what a thread is about to write must be made from the
committed row (`LockedReadsAreFresh`). `IInv` is the conjunction of these with
`TypeOK`. The lemmas show first that each repository method returns a row whose trail
explains its status (`StepRecords`, `StartRecords`, `CloseRecords`,
`DecisionRecords`), then that each actor's steps keep `IInv` (`UseCaseInv`,
`NotifierInv`, `CronInv`). Two processes can both pass a status check, and without the
write lock a thread's row is stale when it commits: hence the two hypotheses.

`TaskPromise_proofs` proves the refinement, `PromiseIsKept`: `Spec => ImplementsPromise`
under the same hypotheses. Each commit of a use case is a step of the promise or
none; everything else is a stutter. The mapping needs a second invariant beside
`IInv`, `TrailsFit`: what a transaction read has the *abstract* trail of the committed
row, though not its NOTIFIED entries. The abstract trail is the list of the
lifecycle entries in their order. It is defined by their places (`Kept`, `Nth`): the
n-th entry is the one with n of them up to it. `SelectSeq` is the same list but
recursive, and nothing follows from it here. The lemmas `KeptGrows` and
`AddsTwice` say what appending an entry or two does to it, and one lemma per
repository method which entries it appends.

Two results follow from the promise. Its own inductive invariant (`Lawful`) says that the
status is that of the last entry and that closures are the assignee's, so
`DecisionsAlwaysFollowClosures`: the entry before every decision is the assignee's
closure. And no step of the promise starts at a verified task, so
`VerifiedTasksStayVerified`: nothing that was read before a task was verified changes its
status or its lifecycle trail afterwards.

### Drafts

`DraftConfirmation_proofs`, for any drafts, people, requests and processes, and for
*both* kinds of database: `OneTaskOfADraft`, `DraftsNameTheirTasks`,
`NumbersAlwaysDense`, `AnswersAlwaysTrue`, with `TypeCorrect` and `Invariant`. The four
properties are inductive only together and with what a request holds between its
steps: the lock of an active draft from the claim to the commit (`ClaimsHold`), a number
that another process may have taken but that is not beyond the next one
(`NumbersFit`), and, where only one process served at a time, a draft that is as the
cancellation read it (`DiscardsAreFresh`, `CancelledForGood`). The key is
`ClaimsExclude`: whoever has claimed a draft shuts out the others until it ends, whether
the lock is the database's or the row's.

`NobodyWaitsInACircle` is `NoCircularWait` for any number of processes: of any set of them,
somebody waits for nobody in the set. Its invariant `HoldersClaim` says that a lock is
held only by a request that has claimed what it locks. A row-locking request takes
its draft first and the counter second, so whoever has got furthest in the set
(`FurthestGoesOn`) waits for none of the others; with `WriteLock` there is one lock,
and its holder waits for none.

`PromiseIsKept` is `Spec => ImplementsPromise`, under `DraftAssumption` alone. Claims, numbers,
rollbacks and clocks are stutters; a commit of a task is `Make`, whether the
requester is told of it or the push fails; a second confirmation is `Repeat`. The list `made` of the
promise is read off the set of tasks by their numbers (`Made`), which is a list because the
numbers are dense (`MadeFits`), and it grows at its end (`MadeGrows`). A cancellation needs
a further invariant, `CancelsFit`: the draft it is about to write is still ACTIVE, or is
CONSUMED or CANCELLED and a second process has served.

### Notifications

`NotificationOutbox_proofs`, for any finite numbers of threads and retry runs with any
work and any number of rollbacks and swallowed exceptions:
`ConsumedAlwaysLoggedOrDropped`, `RemindersAlwaysFollowFailures`,
`MessagesAlwaysAccountedFor`, with `TypeCorrect` and `Invariant`. A message is
counted against the open transaction that paid for it, so the invariant says that no key is
in two open transactions or in one and in the database (`ClaimsExclude`), and that a
thread has a row, or the mark of a dropped notice, for each key of a notice it took
except for the one it is about to send (`DeskFits`). `RunFits` says that the keys of a retry run are still those of failed
deliveries when it comes to them.

### Conversations

`InteractionTurns_proofs`, for any turns, events, drafts, tools and delays:
`RevisedCardsAreDead`, `AnswersAlwaysAskedFor`, `ReceiptsAlwaysTrue`,
`SupersededTurnsChangeNothing`, `SupersededTurnsBeginNoAnswer`, with `TypeCorrect` and
`Invariant`. What a turn knows is in two parts. What outlasts an await (`Informed`): the
drafts it refers to exist, the cards it collected replace dead drafts only, the
code it will record is true. What holds only until it awaits again
(`UpToDate`): it has the session's revision when it shows the card of a revision or begins to speak, and its answer is owed
when it performs it; these hold of `running` alone. The first part is kept by other
actors because drafts only go forward (`Evolves`), the second because no other
turn runs in between. The two action properties use it through `StaleStep`.

### LLM gateway

`LlmGateway_proofs`, for any number of turns, rounds and attempts, any threshold,
capacities, interval and daily limit: `BreakerAlwaysCounts`, `BreakerRests`,
`TurnsArePaced`, `LimitsStopTurns`, with `TypeCorrect` and `Invariant`. Three of the
four are about a step; their invariants are `ClockRests` (a breaker that is cooled
or half open has rested since its last failure), `PacedWaits` (a turn that has sent
finds the time of the last request set and is not among the sleepers) and
`LateIsBlind` (a turn that has sent since the limit gets past the check only if the
store cannot be asked). `FailuresAreOfTurns` bounds the streak by the turns that are
over.

### Assignees

`ChoiceAlgorithms_proofs` is about the pure algorithms, for lists of any length:

- `TheClearWinnerIsPicked`: for a list of candidates without repetitions,
  `rank_and_pick` picks the clear winner, and nobody where there is none.
- `TheNewestAreKept`: `trim_messages` keeps the newest turns that fit, always the newest, and
  what it leaves after a second time it leaves as it is (`TrimmingSettles`): the note of a note is
  24 characters long, so the third shortening of a result is its second (`TruncatedIs`).

`PicksAlwaysIgnoreOrder` and `TrimmingAlwaysKeepsTheNewest` in `AssigneeChoice_proofs` state them of
the properties that the run checks, for any kinds, numbers and names of candidates
(`Kinds`, `MaxFound`, `NameOrders`), any messages (`Conversations`) and any `Limits`.

Neither needs induction: the first of a ranking and the first turn that fits exist
because a set of numbers has a least element. `Chars`, a fold, is only used as some
function of the list: what it adds up to for a given list is induction over data.

`AssigneeChoice_proofs`, for any people, names, messages, search results, directories and
policies and any number of turns: `PicksAlwaysHonoured`, `NobodyIsEverGuessed`,
`TasksAlwaysAllowed`, with `TypeCorrect` and `Invariant`. Its invariant follows a pick from
the click to the model (`Honoured`): in force until its turn reads the overrides, then
among what the turn read, then given to the model; and it says that every override was
picked and not forgotten since (`WerePicked`). `TasksAlwaysAllowed` needs no invariant:
`can_assign` is asked again at the confirmation.

### Only model-checked

- Liveness under fairness (`EveryRequestAnswered`, `ThreadsEnd`, `FailuresSettle`,
  `TurnsEnd`): it needs ENABLED, which the prover does not handle.
- The five violations: they are counterexamples of small instances.
- What the recursive definitions compute for a given list (`Chars`).

## Plan

Done: the modules and the proofs above. What is left:

1. `InteractionTurns`: the verbs that only call a use case, and two processes; then its
   invariant again.
2. The builders of cards and the turn payload, as far as a property tells their cases
   apart.

## Not modelled

The Dynamics 365 facade (read-only lookups with retries), cards, texts and commands, the
form of the turn payload, the model adapters, the choice of tools and the normalisation
of texts (presentation and parsing), `can_view_task` (changes nothing), token
caches and HTTP clients (I/O; their failures are outcomes in the models),
the message list that the SDK appends to and concurrent turns share,
migrations and deployment. `revise_draft`, `take_draft` and the `request_cancel`
branch of the state machine have no caller. The forced summary for a single person skips
the keys on purpose.
