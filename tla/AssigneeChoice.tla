--------------------------- MODULE AssigneeChoice ---------------------------
(***************************************************************************)
(* Who a task of a group conversation is for: the names in a message       *)
(* (bot/mentions.py), the card on which an ambiguous name is picked and    *)
(* the overrides a pick leaves in the conversation (bot/pending_mentions), *)
(* the turn of the model that is given the result (run_ai_turn) and may    *)
(* call create_task, and the confirmation of the draft, with the policy    *)
(* asked at both.                                                          *)
(*                                                                         *)
(* A turn is a handler of app.py.  The turns share the event loop, and a   *)
(* step below is what one does between two awaits: of the directory while  *)
(* it looks up the person who speaks (actor), then of the names (names),   *)
(* then of the model (model).  What pends and the draft are stored; the    *)
(* overrides of the conversation live in the process.  The session row and *)
(* its revision are the subject of InteractionTurns; here a turn is stale  *)
(* once a later event of the same person has begun.  Due dates are left    *)
(* out: a request is complete once it is known whom it is for.             *)
(***************************************************************************)
EXTENDS AssignmentPolicy, MentionRanking, MemoryTrim

CONSTANTS People,     \* the people of the directory
          Actors,     \* those who speak in the conversation
          Turns,      \* bound: turns that may be under way at a time
          Names,      \* the names that messages hold
          Messages,   \* [names, mentions]: plain names in order, Teams mentions
          Searches,   \* external: for each name, the lists a search may return
          Exact,      \* external: the <<name, person>> that are exact identities
          Mail,       \* external: the domain of each person's addresses
          GraphDept,  \* external: each person's department
          Artefacts,  \* the [profiles, rules] that may be in force, one after another
          Nobody

ASSUME ChoiceAssumption ==
    /\ Actors \subseteq People /\ Nobody \notin People
    /\ Messages \subseteq [names : Seq(Names), mentions : SUBSET (Names \X People)]
    /\ \A n \in Names : \A list \in Searches[n] :
          list \in Seq(People) /\ \A i, j \in DOMAIN list : list[i] = list[j] => i = j
    /\ \A a \in Artefacts : \A p \in People : a.profiles[p].listed => a.profiles[p].dept # NoDept

VARIABLES turn,       \* the turns under way
          pending,    \* stored: for whom or which of several each person is asked, if so
          overrides,  \* the person picked for a name and not cleared, or Nobody
          draft,      \* stored: the draft, until it is a task
          artefacts,  \* the assignment directory and policy, as the process has read them
          picks       \* ghost: every <<name, person>> picked since the last clearing
vars == <<turn, pending, overrides, draft, artefacts, picks>>
profiles == artefacts.profiles
rules == artefacts.rules

NoOverrides == [n \in Names |-> Nobody]
NoMessage == [names |-> << >>, mentions |-> {}]
NoPick == <<Nobody, Nobody>>
\* Ghosts: pick, what this turn picked; disturbed, another pick has since set
\* the same name or cleared the overrides.
Idle == [pc |-> "idle", who |-> Nobody, kind |-> "message", msg |-> NoMessage,
         overrides |-> NoOverrides, dept |-> NoDept, given |-> {}, stale |-> FALSE,
         pick |-> NoPick, disturbed |-> FALSE]
Nothing == [op |-> "none", name |-> Nobody, candidates |-> {}, msg |-> NoMessage]
NoDraft == [state |-> "none", by |-> Nobody, for |-> Nobody, dept |-> NoDept]
Task == [NoDraft EXCEPT !.state = "task"]

At(t, pc) == turn[t].pc = pc
GoesOn(t, r) == turn' = [turn EXCEPT ![t] = r]
Ends(t) == GoesOn(t, Idle)

\* A new event of a person makes the earlier turns of that person stale.
Begins(t, a, r) ==
    turn' = [s \in Turns |-> IF s = t THEN r
                             ELSE [turn[s] EXCEPT !.stale = @ \/ turn[s].who = a]]

Overtakes(a) ==
    turn' = [s \in Turns |-> [turn[s] EXCEPT !.stale = @ \/ turn[s].who = a]]

---------------------------------------------------------------------------
(* The names of a message.                                                 *)

\* The candidates of a search, whose managers come from the directory of
\* assignments (_candidate_manager_entra_id).
Boss(p) == IF Listed(profiles, p) THEN profiles[p].manager ELSE Nobody
Candidate(n, p) ==
    [id |-> p, exact |-> <<n, p>> \in Exact, mail |-> Mail[p], dept |-> GraphDept[p],
     boss |-> Boss(p), name |-> 0]
Candidates(n, list) == [i \in DOMAIN list |-> Candidate(n, list[i])]
Requester(t) == [id |-> turn[t].who, dept |-> turn[t].dept]

\* What a search of each name returns, all of them in one step: nothing that
\* the turn reads later changes in between.
Lists == {f \in [Names -> UNION {Searches[n] : n \in Names}] :
             \A n \in Names : f[n] \in Searches[n]}

\* _pick_from_candidates.
Picked(t, n, list) == RankAndPick(Candidates(n, list), Requester(t))

\* resolve_mentions_structured.  Overrides and Teams mentions leave no name of
\* the text to be looked up; all overrides count, whatever the text says.
ByOverride(t) == {n \in Names : turn[t].overrides[n] # Nobody}
LooksUp(t) == ByOverride(t) = {} /\ turn[t].msg.mentions = {}
Resolved(t, found) ==
    LET msg == turn[t].msg
    IN  {turn[t].overrides[n] : n \in ByOverride(t)}
        \union {m[2] : m \in {m \in msg.mentions : m[1] \notin ByOverride(t)}}
        \union IF LooksUp(t) THEN UNION {Picked(t, n, found[n]) : n \in ToSet(msg.names)} ELSE {}
\* Which of the names are ambiguous, by their places in the message.
Ambiguous(t, found) ==
    LET names == turn[t].msg.names
    IN  {i \in DOMAIN names : /\ LooksUp(t) /\ found[names[i]] # << >>
                              /\ Picked(t, names[i], found[names[i]]) = {}}

\* Mutant of ReadsOverrides: a pick sees what its click saw.
ReadsOverridesAtTheClick(t) == turn[t].overrides

\* The overrides a turn goes on with after the first await: a message has read
\* them before it, a pick reads them after.
ReadsOverrides(t) == IF turn[t].kind = "pick" THEN overrides ELSE turn[t].overrides

---------------------------------------------------------------------------
(* Messages and picks.                                                     *)

\* A message, or the answer to the question for an assignee, which looks at
\* no overrides.  With a card to pick from, a message only gets a reminder.
Hear(t, a, m) ==
    /\ At(t, "idle")
    /\ pending[a].op # "pick"
    /\ LET answers == pending[a].op = "create"
       IN  Begins(t, a, [Idle EXCEPT !.pc = "actor", !.who = a, !.msg = m,
                             !.kind = IF answers THEN "answer" ELSE "message",
                             !.overrides = IF answers THEN NoOverrides ELSE overrides])
    /\ UNCHANGED <<pending, overrides, draft, picks, artefacts>>

\* Any other event of the person: a reminder, a card action.  "cancel" and an
\* explicit new command give up what pends.
OtherEvent(a) ==
    /\ Overtakes(a)
    /\ pending' \in {pending, [pending EXCEPT ![a] = Nothing]}
    /\ UNCHANGED <<overrides, draft, picks, artefacts>>

\* take_pending_disambiguation and set_mention_override: a click on the card
\* last shown to the person; a click on another finds nothing (OtherEvent).
Pick(t, a, p) ==
    LET ask == pending[a]
    IN  /\ At(t, "idle")
        /\ ask.op = "pick" /\ p \in ask.candidates
        /\ turn' = [s \in Turns |->
              IF s = t THEN [Idle EXCEPT !.pc = "actor", !.who = a, !.kind = "pick",
                                 !.msg = ask.msg, !.pick = <<ask.name, p>>]
              ELSE [turn[s] EXCEPT !.stale = @ \/ turn[s].who = a,
                                   !.disturbed = @ \/ turn[s].pick[1] = ask.name]]
        /\ pending' = [pending EXCEPT ![a] = Nothing]
        /\ overrides' = [overrides EXCEPT ![ask.name] = p]
        /\ picks' = picks \union {<<ask.name, p>>}
        /\ UNCHANGED <<draft, artefacts>>

\* enrich_actor: the speaker's own entry in the directory is found, or not.
ActorFound(t) ==
    /\ At(t, "actor")
    /\ \E dept \in {NoDept, GraphDept[turn[t].who]} :
          GoesOn(t, [turn[t] EXCEPT !.pc = "names", !.dept = dept,
                         !.overrides = ReadsOverrides(t)])
    /\ UNCHANGED <<pending, overrides, draft, picks, artefacts>>

\* _send_disambiguation_intercept, for the first ambiguous name; the row is
\* written with the turn's revision.
Intercept(t) ==
    /\ At(t, "names") /\ turn[t].kind # "answer"
    /\ \E found \in Lists : \E i \in Ambiguous(t, found) :
          LET name == turn[t].msg.names[i]
          IN  /\ \A j \in Ambiguous(t, found) : i <= j
              /\ pending' = IF turn[t].stale THEN pending
                            ELSE [pending EXCEPT ![turn[t].who] =
                                    [op |-> "pick", name |-> name,
                                     candidates |-> ToSet(found[name]), msg |-> turn[t].msg]]
    /\ Ends(t)
    /\ UNCHANGED <<overrides, draft, picks, artefacts>>

\* run_ai_turn, up to the model; what the names were resolved with is not
\* read again.
AskModel(t) ==
    /\ At(t, "names") /\ turn[t].kind # "answer"
    /\ \E found \in Lists :
          /\ Ambiguous(t, found) = {}
          /\ GoesOn(t, [turn[t] EXCEPT !.pc = "model", !.given = Resolved(t, found),
                             !.msg = NoMessage, !.overrides = NoOverrides, !.dept = NoDept])
    /\ UNCHANGED <<pending, overrides, draft, picks, artefacts>>

---------------------------------------------------------------------------
(* The draft and the task.                                                 *)

\* Mutant of DraftOf: the department of the Graph directory.
DraftOfGraph(a, p) == [state |-> "active", by |-> a, for |-> p, dept |-> GraphDept[p]]

\* create_task_handler, past the policy: the department is the assignment
\* directory's.
DraftOf(a, p) == [state |-> "active", by |-> a, for |-> p, dept |-> profiles[p].dept]

\* bound: one draft at a time.  A stale turn's draft is discarded, and one
\* that the policy does not allow is not made.
MayDraft(t, p) ==
    /\ ~turn[t].stale /\ draft.state # "active"
    /\ MayAssign(rules, profiles, turn[t].who, p)

\* The model calls create_task, for whomever it likes, and what pends is the
\* review of the draft; or without an assignee, who is then asked for.  Both
\* under the turn's revision.
CallCreateTask(t) ==
    /\ At(t, "model")
    /\ \/ /\ \E p \in People : MayDraft(t, p) /\ draft' = DraftOf(turn[t].who, p)
          /\ pending' = [pending EXCEPT ![turn[t].who] = Nothing]
       \/ /\ ~turn[t].stale
          /\ pending' = [pending EXCEPT ![turn[t].who] = [Nothing EXCEPT !.op = "create"]]
          /\ UNCHANGED draft
    /\ UNCHANGED <<turn, overrides, picks, artefacts>>

\* resolve_assignee_name: an answer none of whose names was resolved is looked
\* up as a whole, as one of the names that it holds, with or without its "@".
LookedUpAgain(t) ==
    UNION {UNION {Picked(t, n, list) : list \in Searches[n]} : n \in ToSet(turn[t].msg.names)}

\* The answer names somebody, "me" being the speaker: the question is done
\* with, whatever the revision, and create_task is called without the model.
Answered(t) ==
    /\ At(t, "names") /\ turn[t].kind = "answer"
    /\ \E found \in Lists :
          LET named == Resolved(t, found)
          IN  \E p \in {turn[t].who} \union named
                        \union (IF named = {} THEN LookedUpAgain(t) ELSE {}) :
                  draft' = IF MayDraft(t, p) THEN DraftOf(turn[t].who, p) ELSE draft
    /\ pending' = [pending EXCEPT ![turn[t].who] = Nothing]
    /\ Ends(t)
    /\ UNCHANGED <<overrides, picks, artefacts>>

\* The answer names nobody who can be told: the question is asked again.
StillMissing(t) ==
    /\ At(t, "names") /\ turn[t].kind = "answer"
    /\ \E found \in Lists : Resolved(t, found) = {}
    /\ pending' = IF turn[t].stale THEN pending
                  ELSE [pending EXCEPT ![turn[t].who] = [Nothing EXCEPT !.op = "create"]]
    /\ Ends(t)
    /\ UNCHANGED <<overrides, draft, picks, artefacts>>

\* "Assign to me", said of the draft in review: a draft for the speaker takes
\* its place, and the policy is not asked.
ReviseForMe(a) ==
    /\ draft.state = "active" /\ draft.by = a
    /\ pending[a].op = "none" /\ Listed(profiles, a)
    /\ draft' = DraftOf(a, a)
    /\ Overtakes(a)
    /\ UNCHANGED <<pending, overrides, picks, artefacts>>

\* Mutant of Confirm: what create_task has asked is not asked again.
ConfirmUnasked(a) ==
    /\ draft.state = "active" /\ draft.by = a
    /\ draft' = Task
    /\ UNCHANGED <<turn, pending, overrides, picks, artefacts>>

\* DraftUseCases.confirm, where the policy does not deny it.
Confirm(a) ==
    /\ draft.state = "active" /\ draft.by = a
    /\ DepartmentMatches(profiles, draft.for, draft.dept)
    /\ MayAssign(rules, profiles, a, draft.for)
    /\ draft' = Task
    /\ UNCHANGED <<turn, pending, overrides, picks, artefacts>>

\* The draft is cancelled, or lapses.
CancelDraft ==
    /\ draft.state = "active"
    /\ draft' = NoDraft
    /\ UNCHANGED <<turn, pending, overrides, picks, artefacts>>

---------------------------------------------------------------------------
(* The end of a turn.                                                      *)

\* Ghost: the picks that turns have read before the overrides are cleared.
Held == {<<n, turn[s].overrides[n]>> : s \in Turns, n \in Names} \intersect picks

\* Mutant of TurnEnds: the overrides stay.
TurnEndsKeeping(t) ==
    /\ At(t, "model")
    /\ Ends(t)
    /\ picks' = IF turn[t].kind = "pick" THEN Held ELSE picks
    /\ UNCHANGED <<pending, overrides, draft, artefacts>>

\* The model has answered, or failed: a pick clears every override of the
\* conversation.
TurnEnds(t) ==
    /\ At(t, "model")
    /\ IF turn[t].kind = "pick"
         THEN /\ overrides' = NoOverrides
              /\ picks' = Held
              /\ turn' = [s \in Turns |-> IF s = t THEN Idle ELSE [turn[s] EXCEPT !.disturbed = (turn[s].kind = "pick")]]
         ELSE Ends(t) /\ UNCHANGED <<overrides, picks>>
    /\ UNCHANGED <<pending, draft, artefacts>>

\* The directory or the connector fails: the handler raises, and the
\* overrides stay.
Breaks(t) ==
    /\ ~At(t, "idle")
    /\ Ends(t)
    /\ UNCHANGED <<pending, overrides, draft, picks, artefacts>>

\* The process stops and starts again, reading directory and policy anew.
Restart ==
    /\ turn' = [t \in Turns |-> Idle]
    /\ overrides' = NoOverrides /\ picks' = {}
    /\ artefacts' \in Artefacts
    /\ UNCHANGED <<pending, draft>>

---------------------------------------------------------------------------
Init ==
    /\ turn = [t \in Turns |-> Idle]
    /\ pending = [a \in Actors |-> Nothing]
    /\ overrides = NoOverrides
    /\ draft = NoDraft
    /\ artefacts \in Artefacts
    /\ picks = {}

Next ==
    \/ \E t \in Turns :
          \/ \E a \in Actors : \/ \E m \in Messages : Hear(t, a, m)
                               \/ \E p \in People : Pick(t, a, p)
          \/ ActorFound(t) \/ Intercept(t) \/ AskModel(t) \/ CallCreateTask(t)
          \/ Answered(t) \/ StillMissing(t) \/ TurnEnds(t) \/ Breaks(t)
    \/ \E a \in Actors : OtherEvent(a) \/ ReviseForMe(a) \/ Confirm(a)
    \/ CancelDraft \/ Restart

Spec == Init /\ [][Next]_vars

---------------------------------------------------------------------------
Whom == People \union {Nobody}

TypeOK ==
    /\ \A t \in Turns :
          /\ turn[t].pc \in {"idle", "actor", "names", "model"}
          /\ turn[t].kind \in {"message", "answer", "pick"}
          /\ turn[t].who \in Actors \union {Nobody}
          /\ turn[t].who = Nobody <=> At(t, "idle")
          /\ turn[t].msg \in Messages \union {NoMessage}
          /\ turn[t].overrides \in [Names -> Whom] /\ turn[t].given \subseteq People
          /\ turn[t].dept \in {NoDept} \union {GraphDept[p] : p \in People}
    /\ \A a \in Actors : /\ pending[a].op \in {"none", "pick", "create"}
                         /\ pending[a].op = "pick" <=> pending[a].candidates # {}
    /\ overrides \in [Names -> Whom]
    /\ draft.state \in {"none", "active", "task"}
    /\ draft.state = "active" => draft.by \in Actors /\ draft.for \in People /\ draft.dept # NoDept
    /\ picks \subseteq Names \X People

\* A name is given to the clear winner of its candidates, whatever the order of
\* the search and of their names, and to nobody if there is none
\* (rank_and_pick_candidates). Tried on every list once, at the start.
PickIgnoresOrder ==
    Init => \A n \in 0..MaxFound : \A kinds \in [1..n -> Kinds], order \in NameOrders :
            \A asker \in Askers : PicksTheClearWinner(Found(kinds, order), asker)

\* The model is given the newest turns that fit, and the newest one in any
\* case (trim_messages, before each call). Tried likewise.
TrimKeepsTheNewest ==
    Init => \A ms \in Conversations, limit \in Limits :
        KeepsTheNewestThatFit(ms, Trimmed(ms, limit.turns, limit.result, limit.chars),
                              limit.turns, limit.result, limit.chars)

\* Why a turn may hold somebody for the assignee: a Teams mention, a pick from
\* a card, or a name of the text that has a clear winner for the speaker.
WasMentioned(t, p) == \E m \in turn[t].msg.mentions : m[2] = p
WasPicked(p) == \E n \in Names : <<n, p>> \in picks
IsMeant(t, p) ==
    \E n \in ToSet(turn[t].msg.names) : \E list \in Searches[n] :
        LET cands == Candidates(n, list)
        IN  \E i \in DOMAIN cands :
                cands[i].id = p /\ ClearWinner(cands[i], ToSet(cands), Requester(t))

\* Whom a turn that has looked up the names settles on: what the model is
\* given, or the assignee of the draft that the answer leads to.
SettlesOn(t) ==
    IF turn'[t].pc = "model" THEN turn'[t].given
    ELSE IF turn'[t].pc = "idle" /\ draft' # draft THEN {draft'.for} ELSE {}

\* Nobody is guessed: neither the model nor a draft is given a person for an
\* ambiguous name unless someone picked that person from a card, and not in
\* a turn that was over before this one read the overrides
\* (resolve_mentions_structured, pick_assignee, set_mention_override).
NobodyIsGuessed ==
    [][\A t \in Turns : At(t, "names") /\ ~At(t, "names")' => \A p \in SettlesOn(t) :
          WasMentioned(t, p) \/ WasPicked(p) \/ IsMeant(t, p)
          \/ (turn[t].kind = "answer" /\ p = turn[t].who)]_vars

\* The turn of a pick is given the person that was picked, however long the
\* directory takes, unless another pick of the conversation has meanwhile set
\* the same name or cleared the overrides (pick_assignee awaits enrich_actor
\* between set_mention_override and get_mention_overrides).
PickIsHonoured ==
    \A t \in Turns : At(t, "model") /\ turn[t].kind = "pick" /\ ~turn[t].disturbed =>
        turn[t].pick[2] \in turn[t].given

\* A task is made only between two people that the directory in force lists,
\* with the department it lists, and for a reason that the policy in force
\* knows, no deny edge standing between them in its direction or, if it is
\* bidirectional, in the other: also when both have changed since the draft.
TasksAreAllowed ==
    [][draft.state = "active" /\ draft'.state = "task" =>
        LET r == draft.by
            a == draft.for
            joins(edge) ==
                \/ Matches(edge.from, profiles, r) /\ Matches(edge.to, profiles, a)
                \/ edge.both /\ Matches(edge.from, profiles, a) /\ Matches(edge.to, profiles, r)
        IN  /\ \A p \in {r, a} : profiles[p].listed /\ profiles[p].active
            /\ draft.dept = profiles[a].dept
            /\ ~\E edge \in rules.deny : joins(edge)
            /\ \/ rules.same /\ profiles[r].dept = profiles[a].dept
               \/ rules.cross /\ profiles[r].dept # profiles[a].dept
               \/ rules.ceo /\ profiles[a].manager = r /\ profiles[r].dept = CeoDept
               \/ \E edge \in rules.edges : joins(edge)]_vars
=============================================================================
