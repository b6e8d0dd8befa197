-------------------------- MODULE InteractionTurns --------------------------
(***************************************************************************)
(* One person's conversation with the bot: the handlers of app.py, the     *)
(* session row they share (interaction/store.py), the drafts they prepare  *)
(* (bot/tools.py, bot/drafts.py) and the receipts of card actions          *)
(* (interaction/coordinator.py), with the coordinator enabled.             *)
(*                                                                         *)
(* Every message and every card action starts a turn.  The turns of a      *)
(* process share its event loop: one runs until it awaits (running), and   *)
(* every step below is one transaction of it, after which the process may  *)
(* stop.  At an await another turn may run, and be the newer one.          *)
(***************************************************************************)
EXTENDS Naturals, FiniteSets

CONSTANTS Turns,      \* turns that may be under way at a time
          Nobody,     \* no turn is on the event loop
          Asks,       \* the task cards at hand: <<"close" or "reopen", task>>
          MaxDrafts,  \* bound: drafts stashed
          MaxEvents,  \* bound: messages and card actions accepted
          MaxCalls,   \* bound: tools called in a turn
          MaxWaits    \* bound: times that something grows old

ASSUME TurnsAssumption ==
    /\ Nobody \notin Turns
    /\ Asks \subseteq {"close", "reopen"} \X (Nat \ {0})
    /\ MaxDrafts \in Nat /\ MaxEvents \in Nat /\ MaxCalls \in Nat /\ MaxWaits \in Nat

Drafts == 1..MaxDrafts
\* A button of a card and what it refers to; a pick is named by the revision
\* of the turn that offered it.
Keys == Asks \union ({"confirm", "cancel"} \X Drafts) \union ({"pick"} \X (1..MaxEvents))
NoKey == <<"none", 0>>

VARIABLES session,  \* committed: [rev, op, ref, aged] of the conversation
          draft,    \* committed: state of each draft; LAPSED is ACTIVE too late
          receipt,  \* committed: state or code of each card action
          turn,     \* the turns under way
          running,  \* the turn on the event loop
          offered,  \* ghost: the buttons the person has on screen
          replaced, \* ghost: the draft each draft was to replace, or 0
          owed,     \* ghost: the newest prompt for notes not yet answered
          told,     \* ghost: the prompt the person has read last
          waits     \* times that something grew old, up to MaxWaits
vars == <<session, draft, receipt, turn, running, offered, replaced, owed, told, waits>>

Codes == {"TASK_CREATED", "DRAFT_EXPIRED", "DRAFT_CANCELLED", "ASSIGNMENT_DENIED",
          "pending_details", "stale_action", "expired", "ambiguous", "continued"}
Idle == [pc |-> "idle", rev |-> 0, key |-> NoKey, code |-> "", new |-> 0, old |-> 0,
         stored |-> FALSE, after |-> "idle", cards |-> {}, calls |-> 0]

At(t, pc) == turn[t].pc = pc /\ running \in {Nobody, t}
\* The turn goes on as r, on the loop or from an await, or is over.
GoesOn(t, r) == turn' = [turn EXCEPT ![t] = r] /\ running' = t
Awaits(t, r) == turn' = [turn EXCEPT ![t] = r] /\ running' = Nobody
Ends(t) == Awaits(t, Idle)
Moved(t, pc) == [turn[t] EXCEPT !.pc = pc]

---------------------------------------------------------------------------
(* The session row.                                                        *)

\* Mutant of Cleared: _clear_row forgets expires_at.
ClearedButForTheClock == [session EXCEPT !.op = "none", !.ref = 0]
Cleared == [session EXCEPT !.op = "none", !.ref = 0, !.aged = FALSE]

\* get: an expired row is cleared.
Got == IF session.aged THEN Cleared ELSE session

\* is_current, of the row as get left it: None is not current.
IsCurrent(t) == turn[t].rev = session.rev /\ ~session.aged

\* set_pending with the turn's revision: a row count of one, and the row.
Stores(t) == turn[t].rev = session.rev
\* Mutant of SetPending: whatever the revision.
SetPendingAnyway(t, op, ref) == [session EXCEPT !.op = op, !.ref = ref, !.aged = FALSE]
SetPending(t, op, ref) ==
    IF Stores(t) THEN [session EXCEPT !.op = op, !.ref = ref, !.aged = FALSE]
    ELSE session

BeginEvent(s) == [s EXCEPT !.rev = @ + 1]

\* discard_draft and the lapse of _owned_row, by primary key.
Discarded(d) ==
    [draft EXCEPT ![d] = IF @ \in {"ACTIVE", "LAPSED"} THEN "CANCELLED" ELSE @]
DiscardedIfReview ==
    IF Got.op = "review" THEN Discarded(Got.ref) ELSE draft

---------------------------------------------------------------------------
(* Messages.                                                               *)

\* begin_event of handle_stateful_conversation.
Hear(t, kind) ==
    /\ turn[t] = Idle /\ running = Nobody
    /\ session.rev < MaxEvents
    /\ session' = BeginEvent(session)
    /\ GoesOn(t, [Idle EXCEPT !.pc = kind, !.rev = session.rev + 1])
    /\ told' = NoKey
    /\ UNCHANGED <<draft, receipt, offered, replaced, owed, waits>>

\* "cancel": the draft under review and the pending operation go.
CancelWord(t) ==
    /\ At(t, "stop")
    /\ draft' = DiscardedIfReview
    /\ session' = Cleared
    /\ Ends(t)
    /\ owed' = {}
    /\ UNCHANGED <<receipt, offered, replaced, told, waits>>

\* An explicit new command gives up the pending operation and is then
\* answered like a message with nothing pending; a list or the help text
\* goes no further (Breaks).
Command(t) ==
    /\ At(t, "command")
    /\ draft' = DiscardedIfReview
    /\ session' = Cleared
    /\ Awaits(t, Moved(t, "names"))
    /\ owed' = {}
    /\ UNCHANGED <<receipt, offered, replaced, told, waits>>

\* Nothing is pending: on to the mentions.
ReadNothing(t) ==
    /\ At(t, "message")
    /\ Got.op = "none"
    /\ session' = Got
    /\ Awaits(t, Moved(t, "names"))
    /\ UNCHANGED <<draft, receipt, offered, replaced, owed, told, waits>>

\* Mutant of ReadNotes: the pending operation is left in place.
ReadNotesAndKeep(t) ==
    /\ At(t, "message")
    /\ <<Got.op, Got.ref>> \in Asks
    /\ session' = Got
    /\ GoesOn(t, [Moved(t, "perform") EXCEPT !.key = <<Got.op, Got.ref>>])
    /\ UNCHANGED <<draft, receipt, offered, replaced, owed, told, waits>>

\* The message is the notes of a closure or the reason of a rejection ...
ReadNotes(t) ==
    /\ At(t, "message")
    /\ <<Got.op, Got.ref>> \in Asks
    /\ session' = Cleared
    /\ GoesOn(t, [Moved(t, "perform") EXCEPT !.key = <<Got.op, Got.ref>>])
    /\ UNCHANGED <<draft, receipt, offered, replaced, owed, told, waits>>

\* ... which the use case is called with.
Perform(t) ==
    /\ At(t, "perform")
    /\ owed' = owed \ {turn[t].key}
    /\ Ends(t)
    /\ UNCHANGED <<session, draft, receipt, offered, replaced, told, waits>>

\* An assignee is to be picked from the card: a reminder.
ReadPick(t) ==
    /\ At(t, "message")
    /\ Got.op = "pick"
    /\ session' = Got
    /\ Ends(t)
    /\ UNCHANGED <<draft, receipt, offered, replaced, owed, told, waits>>

\* A task lacks something: the names in the answer are looked up.
ReadCreate(t) ==
    /\ At(t, "message")
    /\ Got.op = "create"
    /\ session' = Got
    /\ Awaits(t, Moved(t, "resolve"))
    /\ UNCHANGED <<draft, receipt, offered, replaced, owed, told, waits>>

\* A draft is under review and no longer active.
ReadDeadReview(t) ==
    /\ At(t, "message")
    /\ Got.op = "review"
    /\ draft[Got.ref] # "ACTIVE"
    /\ draft' = Discarded(Got.ref)
    /\ session' = Cleared
    /\ Awaits(t, Moved(t, "names"))
    /\ UNCHANGED <<receipt, offered, replaced, owed, told, waits>>

\* A draft is under review: the message revises it, or says something else.
ReadReview(t) ==
    /\ At(t, "message")
    /\ Got.op = "review"
    /\ draft[Got.ref] = "ACTIVE"
    /\ session' = Got
    /\ \/ GoesOn(t, [Moved(t, "stash") EXCEPT !.old = Got.ref, !.after = "show"])
       \/ Awaits(t, Moved(t, "names"))
    /\ UNCHANGED <<draft, receipt, offered, replaced, owed, told, waits>>

\* Something is still missing from the answer.
StillMissing(t) ==
    /\ At(t, "resolve")
    /\ session' = SetPending(t, "create", 0)
    /\ Ends(t)
    /\ UNCHANGED <<draft, receipt, offered, replaced, owed, told, waits>>

\* The answer is complete: clear, without the revision, and then
\* create_task, which the policy may deny.
Answered(t) ==
    /\ At(t, "resolve")
    /\ session' = Cleared
    /\ \/ GoesOn(t, [Moved(t, "stash") EXCEPT !.after = "show"])
       \/ Ends(t)
    /\ UNCHANGED <<draft, receipt, offered, replaced, owed, told, waits>>

---------------------------------------------------------------------------
(* create_task_handler and the revision of a draft: stash the new draft,   *)
(* make it the one under review, discard the one it replaces.              *)

Stash(t) ==
    /\ At(t, "stash")
    /\ \E d \in Drafts :
          /\ d = Cardinality({e \in Drafts : draft[e] # "absent"}) + 1
          /\ draft' = [draft EXCEPT ![d] = "ACTIVE"]
          /\ replaced' = [replaced EXCEPT ![d] = turn[t].old]
          /\ GoesOn(t, [Moved(t, "store") EXCEPT !.new = d])
    /\ UNCHANGED <<session, receipt, offered, owed, told, waits>>

StoreReview(t) ==
    /\ At(t, "store")
    /\ session' = SetPending(t, "review", turn[t].new)
    /\ GoesOn(t, [Moved(t, "discard") EXCEPT !.stored = Stores(t)])
    /\ UNCHANGED <<draft, receipt, offered, replaced, owed, told, waits>>

\* Mutant of DiscardOne: the previous draft is left alone.
DiscardOnlyTheNew(t) == IF turn[t].stored THEN draft ELSE Discarded(turn[t].new)

\* The new draft if the session had moved on, else the one it replaces.
DiscardOne(t) ==
    IF ~turn[t].stored THEN Discarded(turn[t].new)
    ELSE IF turn[t].old # 0 THEN Discarded(turn[t].old) ELSE draft

Discard(t) ==
    LET ready == IF turn[t].stored THEN {turn[t].new} ELSE {}
        next == [Moved(t, turn[t].after) EXCEPT
                   !.new = 0, !.old = 0, !.stored = FALSE, !.after = "idle",
                   !.cards = @ \union ready]
    IN /\ At(t, "discard")
       /\ draft' = DiscardOne(t)
       /\ IF next.pc = "model" THEN Awaits(t, next) ELSE GoesOn(t, next)
       /\ UNCHANGED <<session, receipt, offered, replaced, owed, told, waits>>

Buttons(ds) == {"confirm", "cancel"} \X ds

Show(t) ==
    /\ At(t, "show")
    /\ offered' = offered \union Buttons(turn[t].cards)
    /\ Ends(t)
    /\ UNCHANGED <<session, draft, receipt, replaced, owed, told, waits>>

---------------------------------------------------------------------------
(* The assistant's turn.                                                   *)

\* The mentions are resolved.
Named(t) ==
    /\ At(t, "names")
    /\ Awaits(t, Moved(t, "model"))
    /\ UNCHANGED <<session, draft, receipt, offered, replaced, owed, told, waits>>

\* A name is ambiguous: the pick is stashed, and offered if it was stored.
Ambiguous(t) ==
    /\ At(t, "names")
    /\ session' = SetPending(t, "pick", turn[t].rev)
    /\ offered' = offered \union (IF Stores(t) THEN {<<"pick", turn[t].rev>>} ELSE {})
    /\ IF turn[t].key = NoKey
         THEN Ends(t)
         ELSE Awaits(t, [Moved(t, "complete") EXCEPT !.code = "ambiguous"])
    /\ UNCHANGED <<draft, receipt, replaced, owed, told, waits>>

\* The model calls a tool.
Calls(t) == At(t, "model") /\ turn[t].calls < MaxCalls
Called(t) == [turn[t] EXCEPT !.calls = @ + 1]

\* create_task without an assignee or a date.
CallCreateMissing(t) ==
    /\ Calls(t)
    /\ session' = SetPending(t, "create", 0)
    /\ Awaits(t, Called(t))
    /\ UNCHANGED <<draft, receipt, offered, replaced, owed, told, waits>>

\* create_task with both, which reads the pending operation.
CallCreate(t) ==
    /\ Calls(t)
    /\ session' = Got
    /\ GoesOn(t, [Called(t) EXCEPT !.pc = "stash", !.after = "model",
                    !.old = IF Got.op = "review" THEN Got.ref ELSE 0])
    /\ UNCHANGED <<draft, receipt, offered, replaced, owed, told, waits>>

\* Mutant of Confirmations: completed_draft_task_id is not asked.
ConfirmationsOfActive ==
    {<<"ACTIVE", "CONSUMED", "TASK_CREATED">>, <<"ACTIVE", "ACTIVE", "ASSIGNMENT_DENIED">>}
      \union ({"LAPSED", "CANCELLED"} \X {"CANCELLED"} \X {"DRAFT_EXPIRED"})
      \union {<<"CONSUMED", "CONSUMED", "DRAFT_EXPIRED">>}

\* DraftUseCases.confirm: the state it finds, the one it leaves, its code.
Confirmations ==
    {<<"ACTIVE", "CONSUMED", "TASK_CREATED">>, <<"ACTIVE", "ACTIVE", "ASSIGNMENT_DENIED">>}
      \union ({"LAPSED", "CANCELLED"} \X {"CANCELLED"} \X {"DRAFT_EXPIRED"})
      \union {<<"CONSUMED", "CONSUMED", "TASK_CREATED">>}

\* DraftUseCases.cancel.
Cancellations ==
    {<<"ACTIVE", "CANCELLED", "DRAFT_CANCELLED">>}
      \union {<<"LAPSED", "CANCELLED", "DRAFT_EXPIRED">>}
      \union {<<s, s, "DRAFT_EXPIRED">> : s \in {"CANCELLED", "CONSUMED"}}

\* confirm_task_draft and cancel_task_draft, unless the turn is superseded.
CallDraftTool(t, d) ==
    /\ Calls(t)
    /\ session' = Got
    /\ \/ /\ IsCurrent(t)
          /\ \E o \in Confirmations \union Cancellations :
                draft[d] = o[1] /\ draft' = [draft EXCEPT ![d] = o[2]]
       \/ ~IsCurrent(t) /\ UNCHANGED draft
    /\ Awaits(t, Called(t))
    /\ UNCHANGED <<receipt, offered, replaced, owed, told, waits>>

\* Mutant of Speaks: the answer is sent whatever came meanwhile.
SpeaksAnyway(t) == TRUE

\* run_ai_turn sends its cards if its revision is still the session's.
Speaks(t) == IsCurrent(t)

\* The turn is over, or was that of a pick, whose receipt is completed.
Spoke(t) == IF turn[t].key = NoKey THEN Idle
            ELSE [Moved(t, "complete") EXCEPT !.code = "continued", !.cards = {}]

\* The model has answered. is_current is asked once, for all the cards.
Answers(t) ==
    /\ At(t, "model")
    /\ session' = Got
    /\ IF Speaks(t) /\ turn[t].cards # {}
         THEN GoesOn(t, Moved(t, "send")) ELSE Awaits(t, Spoke(t))
    /\ UNCHANGED <<draft, receipt, offered, replaced, owed, told, waits>>

\* The model has failed: its cards stay where they are.
Fails(t) ==
    /\ At(t, "model")
    /\ Awaits(t, Spoke(t))
    /\ UNCHANGED <<session, draft, receipt, offered, replaced, owed, told, waits>>

\* The cards are sent one after another, in the order of the drafts; each
\* send is awaited before the next begins.
Send(t) ==
    /\ At(t, "send")
    /\ \E d \in turn[t].cards :
          LET rest == turn[t].cards \ {d}
          IN /\ \A e \in rest : d < e
             /\ offered' = offered \union Buttons({d})
             /\ Awaits(t, IF rest = {} THEN Spoke(t) ELSE [turn[t] EXCEPT !.cards = rest])
    /\ UNCHANGED <<session, draft, receipt, replaced, owed, told, waits>>

---------------------------------------------------------------------------
(* Card actions.                                                           *)

\* The receipt is claimed, anew or five minutes after the last claim, and
\* the event begun.
Click(t, key) ==
    /\ turn[t] = Idle /\ running = Nobody
    /\ key \in offered
    /\ receipt[key] \in {"absent", "AGED"}
    /\ session.rev < MaxEvents
    /\ receipt' = [receipt EXCEPT ![key] = "IN_PROGRESS"]
    /\ session' = BeginEvent(session)
    /\ GoesOn(t, [Idle EXCEPT !.pc = key[1], !.rev = session.rev + 1, !.key = key])
    /\ told' = NoKey
    /\ UNCHANGED <<draft, offered, replaced, owed, waits>>

\* The receipt is there: its text is the answer, and nothing else happens.
Replay(key) ==
    /\ running = Nobody
    /\ receipt[key] \in Codes \union {"IN_PROGRESS"}
    /\ told' = IF receipt[key] = "pending_details" THEN key ELSE NoKey
    /\ UNCHANGED <<session, draft, receipt, turn, running, offered, replaced, owed, waits>>

\* task.close and task.reject ask for the notes or the reason.
Ask(t) ==
    /\ turn[t].key \in Asks /\ At(t, turn[t].key[1])
    /\ session' = SetPending(t, turn[t].key[1], turn[t].key[2])
    /\ owed' = IF Stores(t) THEN {turn[t].key} ELSE owed
    /\ GoesOn(t, [Moved(t, "complete") EXCEPT
                    !.code = IF Stores(t) THEN "pending_details" ELSE "stale_action"])
    /\ UNCHANGED <<draft, receipt, offered, replaced, told, waits>>

\* draft.confirm: a task just created is announced first, in a thread.
Confirm(t) ==
    LET d == turn[t].key[2]
    IN /\ At(t, "confirm")
       /\ \E o \in Confirmations :
             /\ o[1] = draft[d]
             /\ draft' = [draft EXCEPT ![d] = o[2]]
             /\ LET next == [Moved(t, "settle") EXCEPT !.code = o[3]]
                IN IF o[1] # o[2] /\ o[2] = "CONSUMED"
                     THEN Awaits(t, next) ELSE GoesOn(t, next)
       /\ UNCHANGED <<session, receipt, offered, replaced, owed, told, waits>>

\* draft.cancel
CancelDraft(t) ==
    LET d == turn[t].key[2]
    IN /\ At(t, "cancel")
       /\ \E o \in Cancellations :
             /\ o[1] = draft[d]
             /\ draft' = [draft EXCEPT ![d] = o[2]]
             /\ GoesOn(t, [Moved(t, "settle") EXCEPT !.code = o[3]])
       /\ UNCHANGED <<session, receipt, offered, replaced, owed, told, waits>>

\* What was confirmed or cancelled is no longer pending, whatever is.
Settle(t) ==
    /\ At(t, "settle")
    /\ session' = IF turn[t].code \in {"TASK_CREATED", "DRAFT_CANCELLED"}
                    THEN Cleared ELSE session
    /\ GoesOn(t, Moved(t, "complete"))
    /\ UNCHANGED <<draft, receipt, offered, replaced, owed, told, waits>>

\* pick_assignee: take_pending_disambiguation, and on with the message that
\* was put aside.
TakePick(t) ==
    /\ At(t, "pick")
    /\ IF <<Got.op, Got.ref>> = turn[t].key
         THEN session' = Cleared /\ Awaits(t, Moved(t, "names"))
         ELSE session' = Got /\ GoesOn(t, [Moved(t, "complete") EXCEPT !.code = "expired"])
    /\ UNCHANGED <<draft, receipt, offered, replaced, owed, told, waits>>

\* The response is recorded and sent.
Complete(t) ==
    /\ At(t, "complete")
    /\ receipt' = [receipt EXCEPT ![turn[t].key] = turn[t].code]
    /\ told' = IF turn[t].code = "pending_details" THEN turn[t].key ELSE told
    /\ Ends(t)
    /\ UNCHANGED <<session, draft, offered, replaced, owed, waits>>

---------------------------------------------------------------------------
(* Time and failures.                                                      *)

Waits == running = Nobody /\ waits < MaxWaits /\ waits' = waits + 1

\* expires_at of the session passes.
SessionAges ==
    /\ Waits
    /\ session.op # "none" /\ ~session.aged
    /\ session' = [session EXCEPT !.aged = TRUE]
    /\ owed' = {} /\ told' = NoKey
    /\ UNCHANGED <<draft, receipt, turn, running, offered, replaced>>

\* expires_at of a draft passes.
DraftLapses(d) ==
    /\ Waits
    /\ draft[d] = "ACTIVE"
    /\ draft' = [draft EXCEPT ![d] = "LAPSED"]
    /\ UNCHANGED <<session, receipt, turn, running, offered, replaced, owed, told>>

\* A claim is five minutes old.
ClaimAges(key) ==
    /\ Waits
    /\ receipt[key] = "IN_PROGRESS"
    /\ receipt' = [receipt EXCEPT ![key] = "AGED"]
    /\ UNCHANGED <<session, draft, turn, running, offered, replaced, owed, told>>

\* A turn fails, its send times out, or its process stops.
Breaks(t) ==
    /\ turn[t] # Idle /\ running \in {Nobody, t}
    /\ Ends(t)
    /\ UNCHANGED <<session, draft, receipt, offered, replaced, owed, told, waits>>

---------------------------------------------------------------------------
Init ==
    /\ session = [rev |-> 0, op |-> "none", ref |-> 0, aged |-> FALSE]
    /\ draft = [d \in Drafts |-> "absent"]
    /\ receipt = [k \in Keys |-> "absent"]
    /\ turn = [t \in Turns |-> Idle]
    /\ running = Nobody
    /\ offered = Asks
    /\ replaced = [d \in Drafts |-> 0]
    /\ owed = {}
    /\ told = NoKey
    /\ waits = 0

Message(t) ==
    \/ \E kind \in {"stop", "command", "message"} : Hear(t, kind)
    \/ CancelWord(t) \/ Command(t)
    \/ ReadNothing(t) \/ ReadNotes(t) \/ Perform(t) \/ ReadPick(t)
    \/ ReadCreate(t) \/ ReadDeadReview(t) \/ ReadReview(t)
    \/ StillMissing(t) \/ Answered(t)

Prepare(t) == Stash(t) \/ StoreReview(t) \/ Discard(t) \/ Show(t)

Assist(t) ==
    \/ Named(t) \/ Ambiguous(t)
    \/ CallCreateMissing(t) \/ CallCreate(t)
    \/ \E d \in Drafts : CallDraftTool(t, d)
    \/ Answers(t) \/ Fails(t) \/ Send(t)

CardAction(t) ==
    \/ \E key \in Keys : Click(t, key)
    \/ Ask(t) \/ Confirm(t) \/ CancelDraft(t) \/ Settle(t) \/ TakePick(t) \/ Complete(t)

Next ==
    \/ \E t \in Turns : Message(t) \/ Prepare(t) \/ Assist(t) \/ CardAction(t) \/ Breaks(t)
    \/ \E key \in Keys : Replay(key) \/ ClaimAges(key)
    \/ \E d \in Drafts : DraftLapses(d)
    \/ SessionAges

Spec == Init /\ [][Next]_vars

---------------------------------------------------------------------------
Ops == {"none", "create", "review", "pick", "close", "reopen"}
States == {"absent", "ACTIVE", "LAPSED", "CANCELLED", "CONSUMED"}

TypeOK ==
    /\ session \in [rev : 0..MaxEvents, op : Ops, ref : Nat, aged : BOOLEAN]
    /\ session.op = "none" => session.ref = 0 /\ ~session.aged
    /\ session.op = "review" => session.ref \in Drafts
    /\ draft \in [Drafts -> States]
    /\ receipt \in [Keys -> Codes \union {"absent", "IN_PROGRESS", "AGED"}]
    /\ \A t \in Turns : /\ turn[t].key \in Keys \union {NoKey}
                       /\ turn[t].cards \subseteq Drafts
                       /\ turn[t].rev <= session.rev
    /\ running \in Turns \union {Nobody}
    /\ offered \subseteq Keys

Pending == <<Got.op, Got.ref>>
\* An assistant's turn, or the preparation of a draft, that a newer event
\* has superseded, makes a step.
StepOfStale(t) ==
    /\ turn'[t] # turn[t]
    /\ turn[t].pc \in {"names", "model", "stash", "store", "discard", "show"}
    /\ turn[t].rev # session.rev

\* A superseded turn leaves the pending operation as the newer events left
\* it and touches no draft but its own new one: set_pending's expected
\* revision, _turn_superseded, and the discarding of the new draft.
StaleTurnsChangeNothing ==
    [][\A t \in Turns : StepOfStale(t) =>
          /\ Pending' = Pending
          /\ \A d \in Drafts : draft'[d] # draft[d] =>
                draft[d] = "absent" \/ (d = turn[t].new /\ draft'[d] = "CANCELLED")]_vars

\* A turn that was superseded before it spoke shows no card and does not
\* begin to: run_ai_turn's is_current and the early returns on a revision
\* that was not stored. One that is superseded between two cards goes on.
StaleTurnsBeginNoAnswer ==
    [][\A t \in Turns : StepOfStale(t) => offered' = offered /\ turn'[t].pc # "send"]_vars

\* Whoever sees the card of a revised draft can no longer confirm the draft
\* it replaced, even if the process stopped half-way through the revision,
\* or the card came late because it was one of several.
RevisedCardIsDead ==
    \A d \in Drafts : <<"confirm", d>> \in offered /\ replaced[d] # 0 =>
        draft[replaced[d]] \in {"CANCELLED", "CONSUMED"}

\* A task is closed or reopened on a message only if that message answers
\* the newest prompt, which was not answered, given up or outlived before.
AnswersWereAskedFor ==
    \A t \in Turns : turn[t].pc = "perform" => turn[t].key \in owed

\* What the receipt of a card action tells, now and at every replay, is what
\* became of the draft, even after a take-over of an unfinished claim.
ReceiptsTellTheTruth ==
    \A d \in Drafts :
       /\ receipt[<<"confirm", d>>] = "TASK_CREATED" => draft[d] = "CONSUMED"
       /\ receipt[<<"confirm", d>>] = "DRAFT_EXPIRED" => draft[d] = "CANCELLED"
       /\ receipt[<<"cancel", d>>] = "DRAFT_CANCELLED" => draft[d] = "CANCELLED"

\* "Tell me the completion notes in your next message": as long as that is
\* the last thing the person has read, the next message is taken for them.
NextMessageIsTheAnswer ==
    told # NoKey => <<session.op, session.ref>> = told
=============================================================================
