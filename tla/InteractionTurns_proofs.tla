----------------------- MODULE InteractionTurns_proofs -----------------------
(***************************************************************************)
(* Proofs about InteractionTurns for any turns, cards, drafts and events   *)
(* and any number of tools and delays.                                     *)
(***************************************************************************)
EXTENDS InteractionTurns, FiniteSetTheorems, TLAPS

---------------------------------------------------------------------------
(* The inductive invariant: what holds of the session row, of the drafts,  *)
(* of the cards and receipts, and of each turn.                            *)

Stashed(d) == draft[d] # "absent"
Dead == {"CANCELLED", "CONSUMED"}

\* A pending operation refers to a draft that was stashed, or to a prompt
\* that is owed its answer.
Sessions == [rev : 0..MaxEvents, op : Ops, ref : Nat, aged : BOOLEAN]
SessionFits ==
    /\ session \in Sessions
    /\ session.op = "none" => session.ref = 0 /\ ~session.aged
    /\ session.op = "review" => session.ref \in Drafts /\ Stashed(session.ref)
    /\ <<session.op, session.ref>> \in Asks /\ ~session.aged
          => <<session.op, session.ref>> \in owed

\* Drafts are numbered as they are stashed, and replace an earlier one.
DraftsAreNumbered == \E n \in 0..MaxDrafts : \A d \in Drafts : Stashed(d) <=> d <= n
DraftsFit ==
    /\ draft \in [Drafts -> States]
    /\ replaced \in [Drafts -> Drafts \union {0}]
    /\ DraftsAreNumbered
    /\ \A d \in Drafts : replaced[d] # 0 => Stashed(replaced[d])

\* The cards on screen are those of drafts; what the receipts tell is true.
CardsFit ==
    /\ receipt \in [Keys -> Codes \union {"absent", "IN_PROGRESS", "AGED"}]
    /\ offered \subseteq Keys
    /\ \A d \in Drafts : <<"confirm", d>> \in offered => Stashed(d)
    /\ RevisedCardIsDead
    /\ ReceiptsTellTheTruth

\* Where a turn stands tells what it has at hand.
Pcs == {"idle", "stop", "command", "message", "names", "resolve", "perform",
        "stash", "store", "discard", "show", "model", "send",
        "confirm", "cancel", "close", "reopen", "pick", "settle", "complete"}
Positions == [pc : Pcs, rev : 0..MaxEvents, key : Keys \union {NoKey},
              code : Codes \union {""}, new : Drafts \union {0}, old : Drafts \union {0},
              stored : BOOLEAN, after : {"idle", "show", "model"},
              cards : SUBSET Drafts, calls : 0..MaxCalls]
Placed(r) ==
    /\ r.pc # "idle" => r.rev # 0
    /\ r.pc \in {"confirm", "cancel"} => r.key \in {r.pc} \X Drafts
    /\ r.pc \in {"settle", "complete"} => r.code \in Codes
    /\ r.pc \in {"store", "discard"} => r.new \in Drafts
    /\ r.pc \in {"stash", "store", "discard"} => r.after \in {"show", "model"}
    /\ r.pc \in {"message", "resolve"} => r.cards = {}
    /\ r.pc \in {"stash", "store", "discard"} /\ r.after = "show" => r.cards = {}

\* What a turn is about to record is what became of the draft.
Tells(key, code) ==
    \A d \in Drafts :
       /\ key = <<"confirm", d>> /\ code = "TASK_CREATED" => draft[d] = "CONSUMED"
       /\ key = <<"confirm", d>> /\ code = "DRAFT_EXPIRED" => draft[d] = "CANCELLED"
       /\ key = <<"cancel", d>> /\ code = "DRAFT_CANCELLED" => draft[d] = "CANCELLED"

\* What a turn has at hand was stashed, its cards replace the dead only, and
\* what it will record is true: this outlasts an await.
Informed(r) ==
    /\ r.rev <= session.rev
    /\ r.old # 0 => Stashed(r.old)
    /\ r.new # 0 => Stashed(r.new)
    /\ \A d \in r.cards : Stashed(d) /\ (replaced[d] # 0 => draft[replaced[d]] \in Dead)
    /\ Tells(r.key, r.code)

\* What a turn has found out and acts upon before it awaits again.
Unbroken == {"perform", "stash", "store", "discard", "show"}
UpToDate(r) ==
    /\ r.pc \in {"store", "discard"} => replaced[r.new] = r.old
    /\ r.pc = "discard" /\ r.stored => r.rev = session.rev
    /\ r.pc = "show" /\ r.cards # {} => r.rev = session.rev
    /\ r.pc = "perform" => session.op = "none" /\ r.key \in owed

TurnsFit ==
    /\ turn \in [Turns -> Positions]
    /\ running \in Turns \union {Nobody}
    /\ \A t \in Turns : /\ Placed(turn[t]) /\ Informed(turn[t]) /\ UpToDate(turn[t])
                        /\ turn[t].pc \in Unbroken => running = t

IInv == SessionFits /\ DraftsFit /\ CardsFit /\ TurnsFit

---------------------------------------------------------------------------
(* What every step leaves as it was: a draft once stashed, one that is     *)
(* dead, the draft that a draft replaces, the revisions that were used up. *)

Evolves ==
    /\ \A d \in Drafts : /\ Stashed(d) => Stashed(d)' /\ replaced'[d] = replaced[d]
                         /\ draft[d] \in Dead => draft'[d] = draft[d]
    /\ session.rev <= session'.rev

\* The invariant implies the type invariant and the safety invariants that
\* the runs check.
LEMMA IInvTypes == IInv => TypeOK
  <1> SUFFICES ASSUME IInv PROVE TypeOK
    OBVIOUS
  <1>1. ASSUME NEW t \in Turns
        PROVE  /\ turn[t].key \in Keys \union {NoKey} /\ turn[t].cards \subseteq Drafts
               /\ turn[t].rev <= session.rev
    BY DEF IInv, TurnsFit, Positions, Informed
  <1> QED
    BY <1>1 DEF IInv, SessionFits, DraftsFit, CardsFit, TurnsFit, Sessions, TypeOK

LEMMA IInvSafe == IInv => RevisedCardIsDead /\ AnswersWereAskedFor /\ ReceiptsTellTheTruth
  BY DEF IInv, CardsFit, TurnsFit, UpToDate, AnswersWereAskedFor

\* What a turn has at hand stays so while others go on.
LEMMA InformedStays ==
    ASSUME Evolves, DraftsFit, NEW r \in Positions, Informed(r), session.rev \in Nat,
           session'.rev \in Nat
    PROVE  Informed(r)'
  <1>1. r.rev <= session'.rev
    <2>1. r.rev \in Nat
      <3>1. r.rev \in 0..MaxEvents
        BY DEF Positions
      <3> QED
        BY <3>1
    <2>2. r.rev <= session.rev /\ session.rev <= session'.rev
      BY DEF Evolves, Informed
    <2> QED
      BY <2>1, <2>2
  <1>2. /\ r.old # 0 => Stashed(r.old)'
        /\ r.new # 0 => Stashed(r.new)'
    BY DEF Evolves, Informed, Positions, Stashed
  <1>3. ASSUME NEW d \in r.cards
        PROVE  Stashed(d)' /\ (replaced'[d] # 0 => draft'[replaced'[d]] \in Dead)
    <2>1. d \in Drafts
      BY DEF Positions
    <2> QED
      BY <1>3, <2>1 DEF Evolves, Informed, DraftsFit
  <1>4. Tells(r.key, r.code)'
    BY DEF Evolves, Informed, Tells, Dead
  <1> QED
    BY <1>1, <1>2, <1>3, <1>4 DEF Informed

\* The cards on screen and the receipts stay right when neither changes.
LEMMA CardsStay ==
    ASSUME Evolves, DraftsFit, CardsFit, UNCHANGED <<offered, receipt>>
    PROVE  CardsFit'
  <1>1. \A d \in Drafts : <<"confirm", d>> \in offered => Stashed(d)'
    BY DEF Evolves, CardsFit
  <1>2. RevisedCardIsDead'
    BY DEF Evolves, CardsFit, DraftsFit, RevisedCardIsDead, Dead
  <1>3. ReceiptsTellTheTruth'
    BY DEF Evolves, CardsFit, ReceiptsTellTheTruth, Dead
  <1> QED
    BY <1>1, <1>2, <1>3 DEF CardsFit

\* A step of turn t, after which it stands at r.
LEMMA StepOfTurn ==
    ASSUME IInv, NEW t \in Turns, running \in {Nobody, t}, NEW r \in Positions,
           turn' = [turn EXCEPT ![t] = r], running' \in {Nobody, t},
           r.pc \in Unbroken => running' = t,
           Evolves, SessionFits', DraftsFit', CardsFit',
           Placed(r), Informed(r)', UpToDate(r)'
    PROVE  IInv'
  <1> USE DEF IInv
  <1>1. turn' \in [Turns -> Positions] /\ turn'[t] = r
    BY DEF TurnsFit
  <1>2. running' \in Turns \union {Nobody}
    OBVIOUS
  <1>3. ASSUME NEW k \in Turns, k # t
        PROVE  (Placed(turn[k]) /\ Informed(turn[k]) /\ UpToDate(turn[k])
                  /\ turn[k].pc \notin Unbroken)'
    <2>1. PICK q \in Positions : turn[k] = q /\ turn'[k] = q
      BY <1>3 DEF TurnsFit
    <2>2. Placed(q) /\ Informed(q)
      BY <2>1 DEF TurnsFit
    <2>3. q.pc \notin Unbroken
      BY <1>3, <2>1, TurnsAssumption DEF TurnsFit
    <2>4. session.rev \in Nat /\ session'.rev \in Nat
      BY DEF SessionFits, Sessions
    <2>5. Informed(q)'
      BY <2>1, <2>2, <2>4, InformedStays
    <2>6. UpToDate(q)'
      BY <2>3 DEF UpToDate, Unbroken
    <2> QED
      BY <2>1, <2>2, <2>3, <2>5, <2>6 DEF Placed, Informed, UpToDate
  <1>4. (Placed(turn[t]) /\ Informed(turn[t]) /\ UpToDate(turn[t]))'
    BY <1>1 DEF Placed, Informed, UpToDate
  <1>5. TurnsFit'
    <2> SUFFICES ASSUME NEW k \in Turns
                 PROVE  (/\ Placed(turn[k]) /\ Informed(turn[k]) /\ UpToDate(turn[k])
                         /\ turn[k].pc \in Unbroken => running = k)'
      BY <1>1, <1>2 DEF TurnsFit
    <2>1. CASE k = t
      BY <1>1, <1>4, <2>1
    <2>2. CASE k # t
      BY <1>3, <2>2
    <2> QED
      BY <2>1, <2>2
  <1> QED
    BY <1>5

---------------------------------------------------------------------------
(* The turn, before and after a step.                                      *)

LEMMA IdleFits ==
    ASSUME TurnsAssumption
    PROVE  /\ Idle \in Positions /\ Placed(Idle) /\ Idle.pc \notin Unbroken
           /\ \A d \in Drafts : d # 0
  BY DEF TurnsAssumption, Idle, Positions, Pcs, Placed, Unbroken, Keys, NoKey, Drafts

\* A turn that has begun is not idle, one that has ended is.
LEMMA StepToIdle ==
    ASSUME IInv, NEW t \in Turns, running \in {Nobody, t}, Ends(t),
           Evolves, SessionFits', DraftsFit', CardsFit'
    PROVE  IInv'
  <1>1. PICK r \in Positions : r = Idle
    BY TurnsAssumption, IdleFits
  <1>2. Placed(r) /\ r.pc \notin Unbroken
    BY <1>1, TurnsAssumption, IdleFits
  <1>3. session'.rev \in Nat
    BY DEF SessionFits, Sessions
  <1>4. Tells(r.key, r.code)'
    BY <1>1 DEF Tells, Idle, NoKey
  <1>8. r.rev = 0 /\ r.old = 0 /\ r.new = 0 /\ r.cards = {}
    BY <1>1 DEF Idle
  <1>9. 0 <= session'.rev
    BY <1>3
  <1>5. Informed(r)'
    BY <1>4, <1>8, <1>9 DEF Informed
  <1>6. UpToDate(r)'
    BY <1>2 DEF UpToDate, Unbroken
  <1>7. turn' = [turn EXCEPT ![t] = r] /\ running' = Nobody
    BY <1>1 DEF Ends, Awaits
  <1> QED
    BY <1>2, <1>5, <1>6, <1>7, StepOfTurn

\* A turn that goes on keeps its event and its key, and refers to no draft
\* that it did not refer to before.
Likewise(r, q) ==
    /\ r.rev = q.rev /\ r.key = q.key
    /\ r.new \in {0, q.new} /\ r.old \in {0, q.old} /\ r.cards \subseteq q.cards
    /\ r.code = q.code \/ r.code \notin {"TASK_CREATED", "DRAFT_EXPIRED", "DRAFT_CANCELLED"}

LEMMA StepOnwards ==
    ASSUME IInv, NEW t \in Turns, running \in {Nobody, t}, NEW r \in Positions,
           turn' = [turn EXCEPT ![t] = r], running' \in {Nobody, t},
           r.pc \in Unbroken => running' = t,
           Evolves, SessionFits', DraftsFit', CardsFit',
           NEW q \in Positions, turn[t] = q, Likewise(r, q),
           Placed(r), UpToDate(r)'
    PROVE  IInv'
  <1>1. session.rev \in Nat /\ session'.rev \in Nat
    BY DEF IInv, SessionFits, Sessions
  <1>2. Informed(q) /\ DraftsFit
    BY DEF IInv, TurnsFit
  <1>3. Informed(q)'
    BY <1>1, <1>2, InformedStays
  <1>4. Tells(r.key, r.code)'
    BY <1>3 DEF Informed, Likewise, Tells
  <1>5. Informed(r)'
    BY <1>3, <1>4 DEF Informed, Likewise
  <1> QED
    BY <1>5, StepOfTurn

\* ... and if it awaits or is not in the midst of anything, that is all.
LEMMA StepToAwait ==
    ASSUME IInv, NEW t \in Turns, running \in {Nobody, t}, NEW r \in Positions,
           turn' = [turn EXCEPT ![t] = r], running' \in {Nobody, t},
           Evolves, SessionFits', DraftsFit', CardsFit',
           Likewise(r, turn[t]), Placed(r), r.pc \notin Unbroken
    PROVE  IInv'
  <1>1. PICK q \in Positions : turn[t] = q
    BY DEF IInv, TurnsFit
  <1>2. UpToDate(r)'
    BY DEF UpToDate, Unbroken
  <1>3. Likewise(r, q)
    BY <1>1
  <1> QED
    BY <1>1, <1>2, <1>3, StepOnwards

\* A turn that begins.
LEMMA StepFromIdle ==
    ASSUME IInv, NEW t \in Turns, running = Nobody, NEW r \in Positions, GoesOn(t, r),
           r.old = 0, r.new = 0, r.cards = {}, r.code = "", r.rev <= session'.rev,
           r.pc \notin Unbroken, Placed(r),
           Evolves, SessionFits', DraftsFit', CardsFit'
    PROVE  IInv'
  <1>2. Tells(r.key, r.code)'
    BY DEF Tells
  <1>3. Informed(r)'
    BY <1>2 DEF Informed
  <1>4. UpToDate(r)'
    BY DEF UpToDate, Unbroken
  <1>5. turn' = [turn EXCEPT ![t] = r] /\ running' = t
    BY DEF GoesOn
  <1> QED
    BY <1>3, <1>4, <1>5, StepOfTurn

---------------------------------------------------------------------------
(* The drafts.                                                             *)

\* Drafts that are active or lapsed become something else.
Moves(d) == draft'[d] = draft[d] \/ (draft[d] \in {"ACTIVE", "LAPSED"} /\ Stashed(d)')

LEMMA DraftsMove ==
    ASSUME DraftsFit, draft' \in [Drafts -> States], UNCHANGED replaced,
           \A d \in Drafts : Moves(d), session.rev <= session'.rev
    PROVE  Evolves /\ DraftsFit'
  <1>1. \A d \in Drafts : Stashed(d) <=> Stashed(d)'
    BY DEF Moves, Stashed
  <1>2. Evolves
    BY <1>1 DEF Moves, Evolves, Dead
  <1>3. DraftsAreNumbered'
    BY <1>1 DEF DraftsFit, DraftsAreNumbered
  <1>4. \A d \in Drafts : replaced'[d] # 0 => Stashed(replaced[d])'
    BY <1>1 DEF DraftsFit
  <1> QED
    BY <1>2, <1>3, <1>4 DEF DraftsFit

LEMMA DraftsStay ==
    ASSUME DraftsFit, UNCHANGED <<draft, replaced>>, session.rev <= session'.rev
    PROVE  Evolves /\ DraftsFit'
  <1>1. draft' \in [Drafts -> States] /\ \A d \in Drafts : Moves(d)
    BY DEF Moves, DraftsFit
  <1> QED
    BY <1>1, DraftsMove

LEMMA DiscardedMoves ==
    ASSUME DraftsFit, NEW d, draft' = Discarded(d)
    PROVE  draft' \in [Drafts -> States] /\ \A e \in Drafts : Moves(e)
  BY DEF DraftsFit, Discarded, Moves, Stashed, States

\* What confirming and cancelling do.
LEMMA OutcomesMove ==
    ASSUME NEW o \in Confirmations \union Cancellations
    PROVE  /\ o[1] \in States \ {"absent"} /\ o[2] \in States \ {"absent"}
           /\ o[3] \in {"TASK_CREATED", "DRAFT_EXPIRED", "DRAFT_CANCELLED",
                        "ASSIGNMENT_DENIED"}
           /\ o[1] = o[2] \/ o[1] \in {"ACTIVE", "LAPSED"}
  BY DEF Confirmations, Cancellations, States

LEMMA ConfirmationsTell ==
    ASSUME NEW o \in Confirmations
    PROVE  /\ o[3] = "TASK_CREATED" => o[2] = "CONSUMED"
           /\ o[3] = "DRAFT_EXPIRED" => o[2] = "CANCELLED"
  BY DEF Confirmations

LEMMA CancellationsTell ==
    ASSUME NEW o \in Cancellations, o[3] = "DRAFT_CANCELLED"
    PROVE  o[2] = "CANCELLED"
  BY DEF Cancellations

LEMMA OutcomeMoves ==
    ASSUME DraftsFit, NEW o \in Confirmations \union Cancellations, NEW d \in Drafts,
           o[1] = draft[d], draft' = [draft EXCEPT ![d] = o[2]]
    PROVE  draft' \in [Drafts -> States] /\ \A e \in Drafts : Moves(e)
  BY OutcomesMove DEF DraftsFit, Moves, Stashed

---------------------------------------------------------------------------
(* The session row.                                                        *)

LEMMA NothingIsNoAsk == ASSUME TurnsAssumption, NEW r PROVE <<"none", r>> \notin Asks
  BY DEF TurnsAssumption

LEMMA SessionStays ==
    ASSUME SessionFits, UNCHANGED <<session, owed>>, \A d \in Drafts : Stashed(d) => Stashed(d)'
    PROVE  SessionFits' /\ session.rev <= session'.rev
  BY TurnsAssumption DEF SessionFits, Sessions, TurnsAssumption

LEMMA SessionIsCleared ==
    ASSUME SessionFits, session' = Cleared
    PROVE  SessionFits' /\ session.rev <= session'.rev /\ session'.op = "none"
  <1>1. /\ session' \in Sessions /\ session'.op = "none" /\ session'.ref = 0
        /\ session'.aged = FALSE /\ session'.rev = session.rev
    BY DEF SessionFits, Sessions, Cleared, Ops
  <1>2. <<session'.op, session'.ref>> \notin Asks
    BY <1>1, TurnsAssumption, NothingIsNoAsk
  <1>3. session.rev <= session'.rev
    BY <1>1 DEF SessionFits, Sessions
  <1> QED
    BY <1>1, <1>2, <1>3 DEF SessionFits

LEMMA SessionIsGot ==
    ASSUME SessionFits, session' = Got, UNCHANGED owed,
           \A d \in Drafts : Stashed(d) => Stashed(d)'
    PROVE  SessionFits' /\ session.rev <= session'.rev
  BY SessionStays, SessionIsCleared DEF Got

LEMMA SessionIsSet ==
    ASSUME SessionFits, NEW t \in Turns, NEW op \in Ops \ {"none"}, NEW ref \in Nat,
           session' = SetPending(t, op, ref),
           \A d \in Drafts : Stashed(d) => Stashed(d)',
           op = "review" => ref \in Drafts /\ Stashed(ref)',
           IF <<op, ref>> \in Asks /\ Stores(t) THEN <<op, ref>> \in owed' ELSE UNCHANGED owed
    PROVE  SessionFits' /\ session.rev <= session'.rev
  <1>1. CASE ~Stores(t)
    BY <1>1, SessionStays DEF SetPending
  <1>2. CASE Stores(t)
    <2>1. session' = [session EXCEPT !.op = op, !.ref = ref, !.aged = FALSE]
      BY <1>2 DEF SetPending
    <2>2. /\ session' \in Sessions /\ session'.op = op /\ session'.ref = ref
          /\ session'.rev = session.rev
      BY <2>1 DEF SessionFits, Sessions
    <2>3. <<op, ref>> \in Asks => <<op, ref>> \in owed'
      BY <1>2
    <2>4. session.rev <= session'.rev
      BY <2>2, TurnsAssumption DEF SessionFits, Sessions, TurnsAssumption
    <2> QED
      BY <2>2, <2>3, <2>4 DEF SessionFits
  <1> QED
    BY <1>1, <1>2

LEMMA EventBegins ==
    ASSUME SessionFits, session' = BeginEvent(session), session.rev < MaxEvents,
           UNCHANGED <<owed, draft>>
    PROVE  /\ SessionFits' /\ session.rev <= session'.rev
           /\ session'.rev = session.rev + 1 /\ session'.rev \in 0..MaxEvents
  <1>1. /\ session.rev + 1 \in 0..MaxEvents
        /\ session.rev <= session.rev + 1
    BY TurnsAssumption DEF SessionFits, Sessions, TurnsAssumption
  <1> DEFINE n == session.rev + 1
  <1>2. session' = [session EXCEPT !.rev = n]
    BY DEF BeginEvent
  <1>3. n \in 0..MaxEvents
    BY <1>1
  <1> HIDE DEF n
  <1>4. /\ session' \in Sessions /\ session'.rev = n
        /\ UNCHANGED <<session.op, session.ref, session.aged>>
    BY <1>2, <1>3 DEF SessionFits, Sessions
  <1>5. SessionFits'
    BY <1>4 DEF SessionFits, Stashed
  <1> QED
    BY <1>1, <1>4, <1>5 DEF n

---------------------------------------------------------------------------
(* Steps that leave the cards alone, and perhaps the drafts.               *)

LEMMA RowsStay ==
    ASSUME IInv, UNCHANGED <<draft, replaced, offered, receipt>>, session.rev <= session'.rev
    PROVE  Evolves /\ DraftsFit' /\ CardsFit'
  <1>1. Evolves /\ DraftsFit'
    BY DraftsStay DEF IInv
  <1> QED
    BY <1>1, CardsStay DEF IInv

LEMMA RowsMove ==
    ASSUME IInv, UNCHANGED <<replaced, offered, receipt>>, session.rev <= session'.rev,
           draft' \in [Drafts -> States], \A d \in Drafts : Moves(d)
    PROVE  Evolves /\ DraftsFit' /\ CardsFit'
  <1>1. Evolves /\ DraftsFit'
    BY DraftsMove DEF IInv
  <1> QED
    BY <1>1, CardsStay DEF IInv

LEMMA MovedFits ==
    ASSUME IInv, NEW t \in Turns, NEW pc \in Pcs
    PROVE  /\ Moved(t, pc) \in Positions /\ Moved(t, pc).pc = pc
           /\ Moved(t, pc).cards = turn[t].cards
           /\ Likewise(Moved(t, pc), turn[t])
  <1>1. turn[t] \in Positions
    BY DEF IInv, TurnsFit
  <1>2. Moved(t, pc) \in Positions
    BY <1>1 DEF Moved, Positions
  <1>3. /\ Moved(t, pc).pc = pc /\ Moved(t, pc).cards = turn[t].cards
        /\ Likewise(Moved(t, pc), turn[t])
    BY <1>1 DEF Moved, Positions, Likewise
  <1> QED
    BY <1>2, <1>3

LEMMA StandsSomewhere ==
    ASSUME IInv, NEW t \in Turns
    PROVE  turn[t] \in Positions /\ Placed(turn[t]) /\ Informed(turn[t]) /\ UpToDate(turn[t])
  BY DEF IInv, TurnsFit

\* A turn that goes on to wait for names, for the model or for an answer.
Waiting == {"names", "model", "resolve"}
LEMMA StepToWait ==
    ASSUME IInv, NEW t \in Turns, running \in {Nobody, t}, NEW pc \in Waiting,
           Awaits(t, Moved(t, pc)), turn[t].pc # "idle",
           pc = "resolve" => turn[t].cards = {},
           Evolves, SessionFits', DraftsFit', CardsFit'
    PROVE  IInv'
  <1>1. PICK r \in Positions : r = Moved(t, pc)
    BY MovedFits DEF Waiting, Pcs
  <1>2. r.pc = pc /\ r.cards = turn[t].cards /\ Likewise(r, turn[t])
    BY <1>1, MovedFits DEF Waiting, Pcs
  <1>3. Placed(r) /\ r.pc \notin Unbroken
    BY <1>2, StandsSomewhere DEF Placed, Unbroken, Waiting, Likewise
  <1> QED
    BY <1>1, <1>2, <1>3, StepToAwait DEF Awaits

---------------------------------------------------------------------------
(* Messages.                                                               *)

LEMMA HearInv ==
    ASSUME IInv, NEW t \in Turns, NEW kind \in {"stop", "command", "message"}, Hear(t, kind)
    PROVE  IInv'
  <1> DEFINE n == session.rev + 1
             r == [Idle EXCEPT !.pc = kind, !.rev = n]
  <1>1. /\ SessionFits' /\ session.rev <= session'.rev
        /\ session'.rev = n /\ session'.rev \in 0..MaxEvents
    BY EventBegins DEF Hear, IInv
  <1>2. Evolves /\ DraftsFit' /\ CardsFit'
    BY <1>1, RowsStay DEF Hear
  <1>3. GoesOn(t, r) /\ running = Nobody
    BY DEF Hear
  <1>4. n \in 0..MaxEvents /\ n <= session'.rev /\ n # 0
    BY <1>1 DEF IInv, SessionFits, Sessions
  <1> HIDE DEF n
  <1>5. r \in Positions
    BY <1>4, TurnsAssumption, IdleFits DEF Positions, Pcs
  <1>6. r.pc = kind /\ r.rev = n /\ r.old = 0 /\ r.new = 0 /\ r.cards = {} /\ r.code = ""
    BY DEF Idle
  <1>7. Placed(r) /\ r.pc \notin Unbroken
    BY <1>4, <1>6 DEF Placed, Unbroken
  <1> HIDE DEF r
  <1> QED
    BY <1>1, <1>2, <1>3, <1>4, <1>5, <1>6, <1>7, StepFromIdle

LEMMA ReviewIsDiscarded ==
    ASSUME IInv, draft' = DiscardedIfReview
    PROVE  draft' \in [Drafts -> States] /\ \A d \in Drafts : Moves(d)
  <1>1. CASE Got.op = "review"
    BY <1>1, DiscardedMoves DEF DiscardedIfReview, IInv
  <1>2. CASE Got.op # "review"
    BY <1>2 DEF DiscardedIfReview, IInv, DraftsFit, Moves
  <1> QED
    BY <1>1, <1>2

LEMMA CancelWordInv == ASSUME IInv, NEW t \in Turns, CancelWord(t) PROVE IInv'
  <1>1. SessionFits' /\ session.rev <= session'.rev
    BY SessionIsCleared DEF CancelWord, IInv
  <1>2. Evolves /\ DraftsFit' /\ CardsFit'
    BY <1>1, ReviewIsDiscarded, RowsMove DEF CancelWord
  <1> QED
    BY <1>1, <1>2, StepToIdle DEF CancelWord, At

LEMMA CommandInv == ASSUME IInv, NEW t \in Turns, Command(t) PROVE IInv'
  <1>1. SessionFits' /\ session.rev <= session'.rev
    BY SessionIsCleared DEF Command, IInv
  <1>2. Evolves /\ DraftsFit' /\ CardsFit'
    BY <1>1, ReviewIsDiscarded, RowsMove DEF Command
  <1> QED
    BY <1>1, <1>2, StepToWait DEF Command, At, Waiting

LEMMA ReadNothingInv == ASSUME IInv, NEW t \in Turns, ReadNothing(t) PROVE IInv'
  <1>1. SessionFits' /\ session.rev <= session'.rev
    BY SessionIsGot DEF ReadNothing, IInv, Stashed
  <1>2. Evolves /\ DraftsFit' /\ CardsFit'
    BY <1>1, RowsStay DEF ReadNothing
  <1> QED
    BY <1>1, <1>2, StepToWait DEF ReadNothing, At, Waiting

LEMMA ReadPickInv == ASSUME IInv, NEW t \in Turns, ReadPick(t) PROVE IInv'
  <1>1. SessionFits' /\ session.rev <= session'.rev
    BY SessionIsGot DEF ReadPick, IInv, Stashed
  <1>2. Evolves /\ DraftsFit' /\ CardsFit'
    BY <1>1, RowsStay DEF ReadPick
  <1> QED
    BY <1>1, <1>2, StepToIdle DEF ReadPick, At

LEMMA ReadCreateInv == ASSUME IInv, NEW t \in Turns, ReadCreate(t) PROVE IInv'
  <1>1. SessionFits' /\ session.rev <= session'.rev
    BY SessionIsGot DEF ReadCreate, IInv, Stashed
  <1>2. Evolves /\ DraftsFit' /\ CardsFit'
    BY <1>1, RowsStay DEF ReadCreate
  <1>3. turn[t].cards = {}
    BY StandsSomewhere DEF ReadCreate, At, Placed
  <1> QED
    BY <1>1, <1>2, <1>3, StepToWait DEF ReadCreate, At, Waiting

LEMMA ReadDeadReviewInv == ASSUME IInv, NEW t \in Turns, ReadDeadReview(t) PROVE IInv'
  <1>1. SessionFits' /\ session.rev <= session'.rev
    BY SessionIsCleared DEF ReadDeadReview, IInv
  <1>2. draft' \in [Drafts -> States] /\ \A e \in Drafts : Moves(e)
    BY DiscardedMoves DEF ReadDeadReview, IInv
  <1>3. Evolves /\ DraftsFit' /\ CardsFit'
    BY <1>1, <1>2, RowsMove DEF ReadDeadReview
  <1> QED
    BY <1>1, <1>3, StepToWait DEF ReadDeadReview, At, Waiting

LEMMA StillMissingInv == ASSUME IInv, NEW t \in Turns, StillMissing(t) PROVE IInv'
  <1>1. <<"create", 0>> \notin Asks
    BY TurnsAssumption DEF TurnsAssumption
  <1>2. SessionFits' /\ session.rev <= session'.rev
    BY <1>1, SessionIsSet DEF StillMissing, IInv, Stashed, Ops
  <1>3. Evolves /\ DraftsFit' /\ CardsFit'
    BY <1>2, RowsStay DEF StillMissing
  <1> QED
    BY <1>2, <1>3, StepToIdle DEF StillMissing, At

\* What get returns.
LEMMA GotFits ==
    ASSUME SessionFits
    PROVE  /\ Got.op \in Ops /\ Got.ref \in Nat
           /\ Got.op = "review" => Got.ref \in Drafts /\ Stashed(Got.ref)
           /\ <<Got.op, Got.ref>> \in Asks => <<Got.op, Got.ref>> \in owed
  <1>1. CASE session.aged
    <2>1. Got.op = "none" /\ Got.ref = 0
      BY <1>1 DEF Got, Cleared, SessionFits, Sessions
    <2> QED
      BY <2>1, TurnsAssumption, NothingIsNoAsk DEF Ops
  <1>2. CASE ~session.aged
    BY <1>2 DEF Got, SessionFits, Sessions
  <1> QED
    BY <1>1, <1>2

LEMMA ReadNotesInv == ASSUME IInv, NEW t \in Turns, ReadNotes(t) PROVE IInv'
  <1> DEFINE key == <<Got.op, Got.ref>>
  <1>1. /\ SessionFits' /\ session.rev <= session'.rev /\ session'.op = "none"
        /\ session'.rev = session.rev
    BY SessionIsCleared DEF ReadNotes, IInv, SessionFits, Sessions, Cleared
  <1>2. Evolves /\ DraftsFit' /\ CardsFit'
    BY <1>1, RowsStay DEF ReadNotes
  <1>3. PICK k \in Asks : k = key /\ k \in owed'
    BY GotFits DEF ReadNotes, IInv
  <1>4. PICK q \in Positions : turn[t] = q /\ Placed(q) /\ Informed(q) /\ q.pc = "message"
    BY StandsSomewhere DEF ReadNotes, At
  <1> DEFINE r == [q EXCEPT !.pc = "perform", !.key = k]
  <1>5. GoesOn(t, r) /\ running \in {Nobody, t}
    BY <1>3, <1>4 DEF ReadNotes, At, Moved
  <1>6. /\ r \in Positions /\ r.pc = "perform" /\ r.key = k /\ r.rev = q.rev
        /\ r.old = q.old /\ r.new = q.new /\ r.cards = q.cards
    <2>1. "perform" \in Pcs /\ k \in Keys
      BY DEF Pcs, Keys
    <2>2. r \in Positions
      BY <2>1 DEF Positions
    <2>3. /\ r.pc = "perform" /\ r.key = k /\ r.rev = q.rev
          /\ r.old = q.old /\ r.new = q.new /\ r.cards = q.cards
      BY DEF Positions
    <2> QED
      BY <2>2, <2>3
  <1> HIDE DEF r
  <1>7. Placed(r) /\ UpToDate(r)'
    BY <1>1, <1>3, <1>4, <1>6 DEF Placed, UpToDate
  <1>8. Informed(q)'
    BY <1>1, <1>2, <1>4, InformedStays DEF IInv, SessionFits, Sessions
  <1>9. Tells(r.key, r.code)'
    BY <1>3, <1>6, TurnsAssumption DEF TurnsAssumption, Tells
  <1>10. Informed(r)'
    BY <1>6, <1>8, <1>9 DEF Informed
  <1> QED
    BY <1>1, <1>2, <1>5, <1>6, <1>7, <1>10, StepOfTurn DEF GoesOn

LEMMA PerformInv == ASSUME IInv, NEW t \in Turns, Perform(t) PROVE IInv'
  <1>1. session.op = "none" /\ session \in Sessions
    BY StandsSomewhere DEF Perform, At, UpToDate, IInv, SessionFits
  <1>2. session.rev <= session'.rev
    BY <1>1 DEF Perform, Sessions
  <1>3. SessionFits'
    BY <1>1, TurnsAssumption, NothingIsNoAsk DEF Perform, IInv, SessionFits
  <1>4. Evolves /\ DraftsFit' /\ CardsFit'
    BY <1>2, RowsStay DEF Perform
  <1> QED
    BY <1>3, <1>4, StepToIdle DEF Perform, At

LEMMA ReadReviewInv == ASSUME IInv, NEW t \in Turns, ReadReview(t) PROVE IInv'
  <1>1. SessionFits' /\ session.rev <= session'.rev
    BY SessionIsGot DEF ReadReview, IInv, Stashed
  <1>2. Evolves /\ DraftsFit' /\ CardsFit'
    BY <1>1, RowsStay DEF ReadReview
  <1>3. PICK d \in Drafts : d = Got.ref /\ Stashed(d)
    BY GotFits DEF ReadReview, IInv
  <1>4. PICK q \in Positions : turn[t] = q /\ Placed(q) /\ Informed(q) /\ q.pc = "message"
    BY StandsSomewhere DEF ReadReview, At
  <1>5. CASE Awaits(t, Moved(t, "names"))
    BY <1>1, <1>2, <1>5, StepToWait DEF ReadReview, At, Waiting
  <1>6. CASE GoesOn(t, [Moved(t, "stash") EXCEPT !.old = Got.ref, !.after = "show"])
    <2> DEFINE r == [q EXCEPT !.pc = "stash", !.old = d, !.after = "show"]
    <2>1. turn' = [turn EXCEPT ![t] = r] /\ running' = t /\ running \in {Nobody, t}
      BY <1>3, <1>4, <1>6 DEF ReadReview, At, Moved, GoesOn
    <2>2. /\ r \in Positions /\ r.pc = "stash" /\ r.old = d /\ r.after = "show"
          /\ r.key = q.key /\ r.rev = q.rev /\ r.new = q.new /\ r.cards = q.cards
          /\ r.code = q.code
      <3>1. "stash" \in Pcs
        BY DEF Pcs
      <3>2. r \in Positions
        BY <3>1 DEF Positions
      <3>3. /\ r.pc = "stash" /\ r.old = d /\ r.after = "show"
            /\ r.key = q.key /\ r.rev = q.rev /\ r.new = q.new /\ r.cards = q.cards
            /\ r.code = q.code
        BY DEF Positions
      <3> QED
        BY <3>2, <3>3
    <2> HIDE DEF r
    <2>3. Placed(r) /\ UpToDate(r)'
      BY <1>4, <2>2 DEF Placed, UpToDate
    <2>4. Informed(q)'
      BY <1>1, <1>2, <1>4, InformedStays DEF IInv, SessionFits, Sessions
    <2>5. Stashed(d)'
      BY <1>2, <1>3 DEF Evolves
    <2>6. Informed(r)'
      BY <2>2, <2>4, <2>5 DEF Informed
    <2> QED
      BY <1>1, <1>2, <2>1, <2>2, <2>3, <2>6, StepOfTurn
  <1> QED
    BY <1>5, <1>6 DEF ReadReview

LEMMA AnsweredInv == ASSUME IInv, NEW t \in Turns, Answered(t) PROVE IInv'
  <1>1. SessionFits' /\ session.rev <= session'.rev
    BY SessionIsCleared DEF Answered, IInv
  <1>2. Evolves /\ DraftsFit' /\ CardsFit'
    BY <1>1, RowsStay DEF Answered
  <1>3. CASE Ends(t)
    BY <1>1, <1>2, <1>3, StepToIdle DEF Answered, At
  <1>4. CASE GoesOn(t, [Moved(t, "stash") EXCEPT !.after = "show"])
    <2>1. PICK q \in Positions : turn[t] = q /\ Placed(q) /\ q.pc = "resolve"
      BY StandsSomewhere DEF Answered, At
    <2> DEFINE r == [q EXCEPT !.pc = "stash", !.after = "show"]
    <2>2. turn' = [turn EXCEPT ![t] = r] /\ running' = t /\ running \in {Nobody, t}
      BY <1>4, <2>1 DEF Answered, At, Moved, GoesOn
    <2>3. r \in Positions
      BY DEF Positions, Pcs
    <2>4. r.pc = "stash" /\ r.after = "show" /\ r.cards = q.cards /\ Likewise(r, q)
      BY DEF Positions, Likewise
    <2> HIDE DEF r
    <2>5. Placed(r) /\ UpToDate(r)'
      BY <2>1, <2>4 DEF Placed, UpToDate, Likewise
    <2> QED
      BY <1>1, <1>2, <2>1, <2>2, <2>3, <2>4, <2>5, StepOnwards
  <1> QED
    BY <1>3, <1>4 DEF Answered

---------------------------------------------------------------------------
(* The preparation of a draft.                                             *)

\* The next draft is the first that was not stashed.
LEMMA NextDraft ==
    ASSUME DraftsFit, NEW n \in 0..MaxDrafts, \A d \in Drafts : Stashed(d) <=> d <= n
    PROVE  Cardinality({e \in Drafts : draft[e] # "absent"}) = n
  <1>1. {e \in Drafts : draft[e] # "absent"} = 1..n
    BY TurnsAssumption DEF Drafts, Stashed, TurnsAssumption
  <1>2. Cardinality(1..n) = n
    BY FS_Interval
  <1> QED
    BY <1>1, <1>2

LEMMA StashInv == ASSUME IInv, NEW t \in Turns, Stash(t) PROVE IInv'
  <1>1. PICK d \in Drafts : /\ d = Cardinality({e \in Drafts : draft[e] # "absent"}) + 1
                            /\ draft' = [draft EXCEPT ![d] = "ACTIVE"]
                            /\ replaced' = [replaced EXCEPT ![d] = turn[t].old]
                            /\ GoesOn(t, [Moved(t, "store") EXCEPT !.new = d])
    BY DEF Stash
  <1>2. PICK n \in 0..MaxDrafts : \A e \in Drafts : Stashed(e) <=> e <= n
    BY DEF IInv, DraftsFit, DraftsAreNumbered
  <1>3. d = n + 1 /\ n + 1 \in 0..MaxDrafts /\ d # 0
    BY <1>1, <1>2, NextDraft, TurnsAssumption DEF IInv, Drafts, TurnsAssumption
  <1>4. ~Stashed(d)
    BY <1>2, <1>3 DEF Drafts
  <1>5. \A e \in Drafts : Stashed(e)' <=> e = d \/ Stashed(e)
    BY <1>1 DEF Stashed, IInv, DraftsFit
  <1>6. DraftsAreNumbered'
    <2>1. \A e \in Drafts : e <= n + 1 <=> e = d \/ e <= n
      BY <1>3 DEF Drafts
    <2> QED
      BY <1>2, <1>3, <1>5, <2>1 DEF DraftsAreNumbered
  <1>7. SessionFits' /\ session.rev <= session'.rev
    BY <1>5, SessionStays DEF Stash, IInv
  <1>8. PICK q \in Positions : turn[t] = q /\ Placed(q) /\ Informed(q) /\ q.pc = "stash"
    BY StandsSomewhere DEF Stash, At
  <1>9. q.old \in Drafts \union {0}
    BY DEF Positions
  <1>10. Evolves
    BY <1>1, <1>4, <1>5, <1>7 DEF Evolves, IInv, DraftsFit, Dead, Stashed
  <1>11. DraftsFit'
    <2>1. draft' \in [Drafts -> States] /\ replaced' \in [Drafts -> Drafts \union {0}]
      BY <1>1, <1>8, <1>9 DEF IInv, DraftsFit, States
    <2>2. \A e \in Drafts : replaced'[e] # 0 => Stashed(replaced[e])'
      BY <1>1, <1>5, <1>8, <1>9 DEF IInv, DraftsFit, Informed
    <2> QED
      BY <1>6, <2>1, <2>2 DEF DraftsFit
  <1>12. CardsFit'
    BY <1>10, CardsStay DEF IInv, Stash
  <1> DEFINE r == [q EXCEPT !.pc = "store", !.new = d]
  <1>13. turn' = [turn EXCEPT ![t] = r] /\ running' = t /\ running \in {Nobody, t}
    BY <1>1, <1>8 DEF Stash, At, Moved, GoesOn
  <1>14. /\ r \in Positions /\ r.pc = "store" /\ r.new = d /\ r.old = q.old /\ r.rev = q.rev
         /\ r.key = q.key /\ r.code = q.code /\ r.cards = q.cards /\ r.after = q.after
    BY DEF Positions, Pcs
  <1> HIDE DEF r
  <1>15. Placed(r)
    BY <1>8, <1>14 DEF Placed
  <1>16. UpToDate(r)'
    BY <1>1, <1>8, <1>14 DEF UpToDate, IInv, DraftsFit
  <1>17. Informed(r)'
    <2>1. Informed(q)'
      BY <1>7, <1>8, <1>10, InformedStays DEF IInv, SessionFits, Sessions
    <2> QED
      BY <1>5, <1>14, <2>1 DEF Informed
  <1> QED
    BY <1>7, <1>10, <1>11, <1>12, <1>13, <1>14, <1>15, <1>16, <1>17, StepOfTurn

LEMMA StoreReviewInv == ASSUME IInv, NEW t \in Turns, StoreReview(t) PROVE IInv'
  <1>1. PICK q \in Positions : /\ turn[t] = q /\ q.pc = "store"
                               /\ Placed(q) /\ Informed(q) /\ UpToDate(q)
    BY StandsSomewhere DEF StoreReview, At
  <1>2. q.new \in Drafts /\ q.new \in Nat /\ Stashed(q.new)
    BY <1>1, TurnsAssumption, IdleFits DEF Placed, Informed, Drafts
  <1>3. <<"review", q.new>> \notin Asks
    BY TurnsAssumption DEF TurnsAssumption
  <1>4. session' = SetPending(t, "review", q.new)
    BY <1>1 DEF StoreReview
  <1>5. SessionFits' /\ session.rev <= session'.rev
    BY <1>2, <1>3, <1>4, SessionIsSet DEF StoreReview, IInv, Stashed, Ops
  <1>6. session'.rev = session.rev
    BY <1>4 DEF SetPending, IInv, SessionFits, Sessions
  <1>7. Evolves /\ DraftsFit' /\ CardsFit'
    BY <1>5, RowsStay DEF StoreReview
  <1>8. running \in {Nobody, t} /\ replaced'[q.new] = q.old
    BY <1>1 DEF StoreReview, At, UpToDate
  <1>9. CASE Stores(t)
    <2> DEFINE r == [q EXCEPT !.pc = "discard", !.stored = TRUE]
    <2>1. turn' = [turn EXCEPT ![t] = r] /\ running' = t
      BY <1>1, <1>9 DEF StoreReview, Moved, GoesOn
    <2>2. r \in Positions /\ Placed(r) /\ Likewise(r, q)
      <3>1. "discard" \in Pcs
        BY DEF Pcs
      <3>2. r \in Positions
        BY <3>1 DEF Positions
      <3>3. /\ r.pc = "discard" /\ r.after = q.after /\ r.cards = q.cards
            /\ r.rev = q.rev /\ r.new = q.new /\ Likewise(r, q)
        BY DEF Positions, Likewise
      <3> HIDE DEF r
      <3>4. Placed(r)
        BY <1>1, <3>3 DEF Placed
      <3> QED
        BY <3>2, <3>3, <3>4
    <2>3. UpToDate(r)'
      BY <1>1, <1>6, <1>8, <1>9 DEF UpToDate, Stores
    <2> HIDE DEF r
    <2> QED
      BY <1>1, <1>5, <1>7, <1>8, <2>1, <2>2, <2>3, StepOnwards
  <1>10. CASE ~Stores(t)
    <2> DEFINE r == [q EXCEPT !.pc = "discard", !.stored = FALSE]
    <2>1. turn' = [turn EXCEPT ![t] = r] /\ running' = t
      <3>1. Stores(t) = FALSE
        BY <1>10 DEF Stores
      <3> QED
        BY <1>1, <3>1 DEF StoreReview, Moved, GoesOn
    <2>2. r \in Positions /\ Placed(r) /\ Likewise(r, q)
      <3>1. "discard" \in Pcs
        BY DEF Pcs
      <3>2. r \in Positions
        BY <3>1 DEF Positions
      <3>3. /\ r.pc = "discard" /\ r.after = q.after /\ r.cards = q.cards
            /\ r.rev = q.rev /\ r.new = q.new /\ Likewise(r, q)
        BY DEF Positions, Likewise
      <3> HIDE DEF r
      <3>4. Placed(r)
        BY <1>1, <3>3 DEF Placed
      <3> QED
        BY <3>2, <3>3, <3>4
    <2>3. UpToDate(r)'
      BY <1>1, <1>8 DEF UpToDate
    <2> HIDE DEF r
    <2> QED
      BY <1>1, <1>5, <1>7, <1>8, <2>1, <2>2, <2>3, StepOnwards
  <1> QED
    BY <1>9, <1>10

LEMMA DiscardInv == ASSUME IInv, NEW t \in Turns, Discard(t) PROVE IInv'
  <1>1. PICK q \in Positions : /\ turn[t] = q /\ q.pc = "discard" /\ running \in {Nobody, t}
                               /\ Placed(q) /\ Informed(q) /\ UpToDate(q)
    BY StandsSomewhere DEF Discard, At
  <1>2. /\ q.new \in Drafts /\ Stashed(q.new) /\ replaced[q.new] = q.old /\ q.rev # 0
        /\ q.after \in {"show", "model"} /\ (q.after = "show" => q.cards = {})
    BY <1>1, TurnsAssumption, IdleFits DEF Placed, Informed, UpToDate
  <1>3. draft' \in [Drafts -> States] /\ \A d \in Drafts : Moves(d)
    <2>1. draft' = draft \/ draft' = Discarded(q.new) \/ draft' = Discarded(q.old)
      BY <1>1 DEF Discard, DiscardOne
    <2>2. CASE draft' = draft
      BY <2>2 DEF IInv, DraftsFit, Moves
    <2> QED
      BY <2>1, <2>2, DiscardedMoves DEF IInv
  <1>4. SessionFits' /\ session.rev <= session'.rev
    BY <1>3, SessionStays DEF Discard, IInv, Moves, Stashed
  <1>5. Evolves /\ DraftsFit' /\ CardsFit'
    BY <1>3, <1>4, RowsMove DEF Discard
  <1>6. Informed(q)'
    BY <1>1, <1>4, <1>5, InformedStays DEF IInv, SessionFits, Sessions
  <1>7. q.stored /\ q.old # 0 => draft'[q.old] \in Dead
    <2>1. q.old # 0 => q.old \in Drafts /\ draft[q.old] \in States \ {"absent"}
      BY <1>1 DEF Positions, Informed, IInv, DraftsFit, Stashed
    <2>2. q.stored /\ q.old # 0 => draft' = Discarded(q.old)
      BY <1>1 DEF Discard, DiscardOne
    <2> QED
      BY <2>1, <2>2 DEF Discarded, Dead, States, IInv, DraftsFit
  <1> DEFINE ready == IF q.stored THEN {q.new} ELSE {}
             cards == q.cards \union ready
             r == [q EXCEPT !.pc = q.after, !.new = 0, !.old = 0, !.stored = FALSE,
                            !.after = "idle", !.cards = cards]
  <1>8. /\ turn' = [turn EXCEPT ![t] = r] /\ running' \in {Nobody, t}
        /\ q.after = "show" => running' = t
    BY <1>1, <1>2 DEF Discard, Moved, GoesOn, Awaits
  <1>9. /\ cards \in SUBSET Drafts
        /\ \A d \in cards : d \in q.cards \/ (q.stored /\ d = q.new)
    BY <1>2 DEF Positions
  <1>10. cards # {} /\ q.after = "show" => q.rev = session.rev
    BY <1>1, <1>2 DEF UpToDate
  <1> HIDE DEF cards
  <1>11. /\ r \in Positions /\ r.pc = q.after /\ r.new = 0 /\ r.old = 0 /\ r.cards = cards
         /\ r.rev = q.rev /\ r.key = q.key /\ r.code = q.code
    BY <1>2, <1>9 DEF Positions, Pcs
  <1> HIDE DEF r
  <1>12. Placed(r)
    BY <1>2, <1>11 DEF Placed
  <1>13. UpToDate(r)'
    BY <1>2, <1>10, <1>11 DEF UpToDate, Discard
  <1>14. \A d \in r.cards : Stashed(d)' /\ (replaced'[d] # 0 => draft'[replaced'[d]] \in Dead)
    BY <1>2, <1>5, <1>6, <1>7, <1>9, <1>11 DEF Informed, Evolves, Discard
  <1>15. Informed(r)'
    BY <1>6, <1>11, <1>14 DEF Informed
  <1> QED
    BY <1>1, <1>2, <1>4, <1>5, <1>8, <1>11, <1>12, <1>13, <1>15, StepOfTurn DEF Unbroken

\* Cards that replace the dead may be shown, whenever that is.
LEMMA CardsAreShown ==
    ASSUME IInv, NEW q \in Positions, Informed(q), NEW ds \in SUBSET q.cards,
           offered' = offered \union Buttons(ds),
           UNCHANGED <<draft, replaced, receipt>>
    PROVE  CardsFit'
  <1>1. ds \subseteq Drafts
    BY DEF Positions
  <1>2. offered' \subseteq Keys
    BY <1>1 DEF Buttons, Keys, IInv, CardsFit
  <1>3. \A d \in Drafts : <<"confirm", d>> \in offered'
                             => <<"confirm", d>> \in offered \/ d \in q.cards
    BY DEF Buttons
  <1>4. \A d \in Drafts : <<"confirm", d>> \in offered' => Stashed(d)'
    BY <1>3 DEF Informed, IInv, CardsFit, Stashed
  <1>5. RevisedCardIsDead'
    BY <1>3 DEF Informed, IInv, CardsFit, RevisedCardIsDead, Dead
  <1>6. ReceiptsTellTheTruth'
    BY DEF IInv, CardsFit, ReceiptsTellTheTruth
  <1> QED
    BY <1>2, <1>4, <1>5, <1>6 DEF IInv, CardsFit

LEMMA ShowInv == ASSUME IInv, NEW t \in Turns, Show(t) PROVE IInv'
  <1>1. PICK q \in Positions : turn[t] = q /\ Informed(q)
    BY StandsSomewhere
  <1>2. SessionFits' /\ session.rev <= session'.rev
    BY SessionStays DEF Show, IInv, Stashed
  <1>3. Evolves /\ DraftsFit'
    BY <1>2, DraftsStay DEF Show, IInv
  <1>4. CardsFit'
    BY <1>1, CardsAreShown DEF Show
  <1> QED
    BY <1>2, <1>3, <1>4, StepToIdle DEF Show, At

---------------------------------------------------------------------------
(* The assistant's turn.                                                   *)

LEMMA NamedInv == ASSUME IInv, NEW t \in Turns, Named(t) PROVE IInv'
  <1>1. SessionFits' /\ session.rev <= session'.rev
    BY SessionStays DEF Named, IInv, Stashed
  <1>2. Evolves /\ DraftsFit' /\ CardsFit'
    BY <1>1, RowsStay DEF Named
  <1> QED
    BY <1>1, <1>2, StepToWait DEF Named, At, Waiting

LEMMA AmbiguousInv == ASSUME IInv, NEW t \in Turns, Ambiguous(t) PROVE IInv'
  <1>1. PICK q \in Positions : turn[t] = q /\ q.pc = "names" /\ Placed(q)
    BY StandsSomewhere DEF Ambiguous, At
  <1>2. q.rev \in 1..MaxEvents
    <2>1. q.rev \in 0..MaxEvents /\ q.rev # 0
      BY <1>1 DEF Positions, Placed
    <2> QED
      BY <2>1
  <1>3. <<"pick", q.rev>> \notin Asks
    BY TurnsAssumption DEF TurnsAssumption
  <1>4. session' = SetPending(t, "pick", q.rev)
    BY <1>1 DEF Ambiguous
  <1>5. SessionFits' /\ session.rev <= session'.rev
    BY <1>2, <1>3, <1>4, SessionIsSet DEF Ambiguous, IInv, Stashed, Ops
  <1>6. Evolves /\ DraftsFit'
    BY <1>5, DraftsStay DEF Ambiguous, IInv
  <1>7. CardsFit'
    <2>1. offered' = offered \/ offered' = offered \union {<<"pick", q.rev>>}
      BY <1>1 DEF Ambiguous
    <2>2. <<"pick", q.rev>> \in Keys
      BY <1>2 DEF Keys
    <2>3. offered' \subseteq Keys
      BY <2>1, <2>2 DEF IInv, CardsFit
    <2>4. \A d \in Drafts : <<"confirm", d>> \in offered' => <<"confirm", d>> \in offered
      BY <2>1
    <2>5. RevisedCardIsDead'
      BY <2>4 DEF Ambiguous, IInv, CardsFit, RevisedCardIsDead
    <2>6. ReceiptsTellTheTruth'
      BY DEF Ambiguous, IInv, CardsFit, ReceiptsTellTheTruth
    <2> QED
      BY <2>3, <2>4, <2>5, <2>6 DEF Ambiguous, IInv, CardsFit, Stashed
  <1>8. CASE Ends(t)
    BY <1>5, <1>6, <1>7, <1>8, StepToIdle DEF Ambiguous, At
  <1>9. CASE Awaits(t, [Moved(t, "complete") EXCEPT !.code = "ambiguous"])
    <2> DEFINE r == [q EXCEPT !.pc = "complete", !.code = "ambiguous"]
    <2>1. turn' = [turn EXCEPT ![t] = r] /\ running' = Nobody /\ running \in {Nobody, t}
      BY <1>1, <1>9 DEF Ambiguous, At, Moved, Awaits
    <2>2. "complete" \in Pcs /\ "ambiguous" \in Codes
      BY DEF Pcs, Codes
    <2>3. r \in Positions
      BY <2>2 DEF Positions
    <2>4. r.pc = "complete" /\ r.code = "ambiguous" /\ Likewise(r, q)
      BY DEF Positions, Likewise
    <2> HIDE DEF r
    <2>5. r.pc \notin Unbroken /\ Placed(r) /\ Likewise(r, turn[t])
      BY <1>1, <2>2, <2>4 DEF Placed, Likewise, Unbroken
    <2> QED
      BY <1>5, <1>6, <1>7, <2>1, <2>3, <2>5, StepToAwait
  <1> QED
    BY <1>8, <1>9 DEF Ambiguous

\* A tool is called.
LEMMA CalledFits ==
    ASSUME IInv, NEW t \in Turns, Calls(t)
    PROVE  /\ turn[t].calls + 1 \in 0..MaxCalls
           /\ running \in {Nobody, t} /\ turn[t].pc = "model" /\ turn[t].rev # 0
  <1>1. turn[t].calls \in 0..MaxCalls
    BY StandsSomewhere DEF Positions
  <1>2. turn[t].calls < MaxCalls
    BY DEF Calls
  <1>3. turn[t].calls + 1 \in 0..MaxCalls
    BY <1>1, <1>2, TurnsAssumption DEF TurnsAssumption
  <1> QED
    BY <1>3, StandsSomewhere DEF Calls, At, Placed

LEMMA StepCalled ==
    ASSUME IInv, NEW t \in Turns, Calls(t), Awaits(t, Called(t)),
           Evolves, SessionFits', DraftsFit', CardsFit'
    PROVE  IInv'
  <1>1. PICK q \in Positions : turn[t] = q /\ q.pc = "model" /\ Placed(q)
    BY StandsSomewhere, CalledFits
  <1>2. PICK n \in 0..MaxCalls : n = q.calls + 1
    BY <1>1, CalledFits
  <1> DEFINE r == [q EXCEPT !.calls = n]
  <1>3. turn' = [turn EXCEPT ![t] = r] /\ running' = Nobody /\ running \in {Nobody, t}
    BY <1>1, <1>2, CalledFits DEF Called, Awaits
  <1>4. r \in Positions /\ r.pc \notin Unbroken /\ Placed(r) /\ Likewise(r, turn[t])
    BY <1>1 DEF Positions, Placed, Likewise, Unbroken
  <1> HIDE DEF r
  <1> QED
    BY <1>3, <1>4, StepToAwait

LEMMA CallCreateMissingInv == ASSUME IInv, NEW t \in Turns, CallCreateMissing(t) PROVE IInv'
  <1>1. <<"create", 0>> \notin Asks
    BY TurnsAssumption DEF TurnsAssumption
  <1>2. SessionFits' /\ session.rev <= session'.rev
    BY <1>1, SessionIsSet DEF CallCreateMissing, IInv, Stashed, Ops
  <1>3. Evolves /\ DraftsFit' /\ CardsFit'
    BY <1>2, RowsStay DEF CallCreateMissing
  <1> QED
    BY <1>2, <1>3, StepCalled DEF CallCreateMissing

LEMMA CallCreateInv == ASSUME IInv, NEW t \in Turns, CallCreate(t) PROVE IInv'
  <1>1. SessionFits' /\ session.rev <= session'.rev
    BY SessionIsGot DEF CallCreate, IInv, Stashed
  <1>2. Evolves /\ DraftsFit' /\ CardsFit'
    BY <1>1, RowsStay DEF CallCreate
  <1>3. PICK d \in Drafts \union {0} : /\ d = IF Got.op = "review" THEN Got.ref ELSE 0
                                       /\ d # 0 => Stashed(d)
    BY GotFits DEF IInv
  <1>4. PICK q \in Positions : turn[t] = q /\ q.pc = "model" /\ Placed(q) /\ Informed(q)
    BY StandsSomewhere, CalledFits DEF CallCreate
  <1>5. PICK n \in 0..MaxCalls : n = q.calls + 1
    BY <1>4, CalledFits DEF CallCreate
  <1> DEFINE r == [q EXCEPT !.calls = n, !.pc = "stash", !.after = "model", !.old = d]
  <1>6. turn' = [turn EXCEPT ![t] = r] /\ running' = t /\ running \in {Nobody, t}
    BY <1>3, <1>4, <1>5, CalledFits DEF CallCreate, Called, GoesOn
  <1>7. /\ r \in Positions /\ r.pc = "stash" /\ r.old = d /\ r.after = "model"
        /\ r.key = q.key /\ r.rev = q.rev /\ r.new = q.new /\ r.cards = q.cards
        /\ r.code = q.code
    <2>1. "stash" \in Pcs
      BY DEF Pcs
    <2>2. r \in Positions
      BY <2>1 DEF Positions
    <2>3. /\ r.pc = "stash" /\ r.old = d /\ r.after = "model"
          /\ r.key = q.key /\ r.rev = q.rev /\ r.new = q.new /\ r.cards = q.cards
          /\ r.code = q.code
      BY DEF Positions
    <2> QED
      BY <2>2, <2>3
  <1> HIDE DEF r
  <1>8. Placed(r) /\ UpToDate(r)'
    BY <1>4, <1>7 DEF Placed, UpToDate
  <1>9. Informed(q)'
    BY <1>1, <1>2, <1>4, InformedStays DEF IInv, SessionFits, Sessions
  <1>10. d # 0 => Stashed(d)'
    BY <1>2, <1>3 DEF Evolves
  <1>11. Informed(r)'
    BY <1>7, <1>9, <1>10 DEF Informed
  <1> QED
    BY <1>1, <1>2, <1>6, <1>7, <1>8, <1>11, StepOfTurn

LEMMA CallDraftToolInv ==
    ASSUME IInv, NEW t \in Turns, NEW d \in Drafts, CallDraftTool(t, d)
    PROVE  IInv'
  <1>1. draft' \in [Drafts -> States] /\ \A e \in Drafts : Moves(e)
    <2>1. CASE UNCHANGED draft
      BY <2>1 DEF IInv, DraftsFit, Moves
    <2>2. CASE \E o \in Confirmations \union Cancellations :
                  draft[d] = o[1] /\ draft' = [draft EXCEPT ![d] = o[2]]
      BY <2>2, OutcomeMoves DEF IInv
    <2> QED
      BY <2>1, <2>2 DEF CallDraftTool
  <1>2. SessionFits' /\ session.rev <= session'.rev
    BY <1>1, SessionIsGot DEF CallDraftTool, IInv, Moves, Stashed
  <1>3. Evolves /\ DraftsFit' /\ CardsFit'
    BY <1>1, <1>2, RowsMove DEF CallDraftTool
  <1> QED
    BY <1>2, <1>3, StepCalled DEF CallDraftTool

\* A turn that has spoken is over, or completes the receipt of a pick.
LEMMA StepToSpoke ==
    ASSUME IInv, NEW t \in Turns, running \in {Nobody, t}, turn[t].pc \in {"model", "send"},
           Awaits(t, Spoke(t)), Evolves, SessionFits', DraftsFit', CardsFit'
    PROVE  IInv'
  <1>1. PICK q \in Positions : turn[t] = q /\ q.pc \in {"model", "send"} /\ Placed(q)
    BY StandsSomewhere
  <1>2. CASE Ends(t)
    BY <1>2, StepToIdle
  <1>3. CASE Awaits(t, [Moved(t, "complete") EXCEPT !.code = "continued", !.cards = {}])
    <2> DEFINE r == [q EXCEPT !.pc = "complete", !.code = "continued", !.cards = {}]
    <2>1. turn' = [turn EXCEPT ![t] = r] /\ running' = Nobody
      BY <1>1, <1>3 DEF Moved, Awaits
    <2>2. {} \in SUBSET Drafts /\ r.cards = {}
      OBVIOUS
    <2>3. r \in Positions /\ r.pc = "complete"
      <3>1. "complete" \in Pcs /\ "continued" \in Codes
        BY DEF Pcs, Codes
      <3> QED
        BY <2>2, <3>1 DEF Positions
    <2>4. r.pc \notin Unbroken /\ Placed(r) /\ Likewise(r, turn[t])
      BY <1>1 DEF Placed, Likewise, Codes, Unbroken
    <2> HIDE DEF r
    <2> QED
      BY <2>1, <2>3, <2>4, StepToAwait
  <1> QED
    BY <1>2, <1>3 DEF Spoke, Ends

LEMMA AnswersInv == ASSUME IInv, NEW t \in Turns, Answers(t) PROVE IInv'
  <1>1. SessionFits' /\ session.rev <= session'.rev
    BY SessionIsGot DEF Answers, IInv, Stashed
  <1>2. Evolves /\ DraftsFit' /\ CardsFit'
    BY <1>1, RowsStay DEF Answers
  <1>3. CASE Awaits(t, Spoke(t))
    BY <1>1, <1>2, <1>3, StepToSpoke DEF Answers, At
  <1>4. CASE GoesOn(t, Moved(t, "send"))
    <2>1. PICK r \in Positions : r = Moved(t, "send")
      BY MovedFits DEF Pcs
    <2>2. r.pc = "send" /\ Likewise(r, turn[t])
      BY <2>1, MovedFits DEF Pcs
    <2>3. Placed(r) /\ r.pc \notin Unbroken
      BY <2>2, StandsSomewhere DEF Placed, Unbroken, Likewise, Answers, At
    <2> QED
      BY <1>1, <1>2, <1>4, <2>1, <2>2, <2>3, StepToAwait DEF GoesOn, Answers, At
  <1> QED
    BY <1>3, <1>4 DEF Answers

LEMMA FailsInv == ASSUME IInv, NEW t \in Turns, Fails(t) PROVE IInv'
  <1>1. SessionFits' /\ session.rev <= session'.rev
    BY SessionStays DEF Fails, IInv, Stashed
  <1>2. Evolves /\ DraftsFit' /\ CardsFit'
    BY <1>1, RowsStay DEF Fails
  <1> QED
    BY <1>1, <1>2, StepToSpoke DEF Fails, At

\* A card that was prepared replaces a dead draft even when it goes out late.
LEMMA SendInv == ASSUME IInv, NEW t \in Turns, Send(t) PROVE IInv'
  <1>1. PICK q \in Positions : turn[t] = q /\ q.pc = "send" /\ Placed(q) /\ Informed(q)
    BY StandsSomewhere DEF Send, At
  <1>2. PICK d \in q.cards :
           LET rest == q.cards \ {d}
           IN /\ offered' = offered \union Buttons({d})
              /\ Awaits(t, IF rest = {} THEN Spoke(t) ELSE [q EXCEPT !.cards = rest])
    BY <1>1 DEF Send
  <1>3. SessionFits' /\ session.rev <= session'.rev
    BY SessionStays DEF Send, IInv, Stashed
  <1>4. Evolves /\ DraftsFit'
    BY <1>3, DraftsStay DEF Send, IInv
  <1>5. CardsFit'
    <2>1. {d} \in SUBSET q.cards
      OBVIOUS
    <2> QED
      BY <1>1, <1>2, <2>1, CardsAreShown DEF Send
  <1>6. CASE Awaits(t, Spoke(t))
    BY <1>1, <1>3, <1>4, <1>5, <1>6, StepToSpoke DEF Send, At
  <1>7. CASE Awaits(t, [q EXCEPT !.cards = q.cards \ {d}])
    <2> DEFINE r == [q EXCEPT !.cards = q.cards \ {d}]
    <2>1. q.cards \ {d} \in SUBSET Drafts /\ r.cards = q.cards \ {d}
      BY DEF Positions
    <2>2. r \in Positions /\ r.pc = "send" /\ Likewise(r, q)
      BY <1>1, <2>1 DEF Positions, Likewise
    <2>3. Placed(r) /\ r.pc \notin Unbroken
      BY <1>1, <2>2 DEF Placed, Unbroken, Likewise
    <2>4. turn' = [turn EXCEPT ![t] = r] /\ running' = Nobody
      BY <1>7 DEF Awaits
    <2> HIDE DEF r
    <2> QED
      BY <1>1, <1>3, <1>4, <1>5, <2>2, <2>3, <2>4, StepToAwait DEF Send, At
  <1> QED
    BY <1>2, <1>6, <1>7

---------------------------------------------------------------------------
(* Card actions.                                                           *)

\* A button of a card and the handler of it.
LEMMA KeysName ==
    ASSUME NEW key \in Keys
    PROVE  /\ key[1] \in {"close", "reopen", "confirm", "cancel", "pick"}
           /\ key[1] \in {"confirm", "cancel"} => key \in {key[1]} \X Drafts
  BY TurnsAssumption DEF TurnsAssumption, Keys

\* A claim is no answer yet.
LEMMA ClaimsTellNothing ==
    ASSUME CardsFit, NEW key \in Keys, NEW claim \in {"IN_PROGRESS", "AGED"},
           receipt' = [receipt EXCEPT ![key] = claim], UNCHANGED draft
    PROVE  /\ receipt' \in [Keys -> Codes \union {"absent", "IN_PROGRESS", "AGED"}]
           /\ ReceiptsTellTheTruth'
  <1>1. \A d \in Drafts : <<"confirm", d>> \in Keys /\ <<"cancel", d>> \in Keys
    BY DEF Keys
  <1>2. \A k \in Keys : receipt'[k] = receipt[k] \/ receipt'[k] = claim
    BY DEF CardsFit
  <1>3. ReceiptsTellTheTruth'
    BY <1>1, <1>2 DEF CardsFit, ReceiptsTellTheTruth
  <1> QED
    BY <1>3 DEF CardsFit

LEMMA ClickInv == ASSUME IInv, NEW t \in Turns, NEW key \in Keys, Click(t, key) PROVE IInv'
  <1> DEFINE n == session.rev + 1
             r == [Idle EXCEPT !.pc = key[1], !.rev = n, !.key = key]
  <1>1. /\ SessionFits' /\ session.rev <= session'.rev
        /\ session'.rev = n /\ session'.rev \in 0..MaxEvents
    BY EventBegins DEF Click, IInv
  <1>2. Evolves /\ DraftsFit'
    BY <1>1, DraftsStay DEF Click, IInv
  <1>3. CardsFit'
    <2>1. RevisedCardIsDead'
      BY DEF Click, IInv, CardsFit, RevisedCardIsDead
    <2>2. /\ receipt' \in [Keys -> Codes \union {"absent", "IN_PROGRESS", "AGED"}]
          /\ ReceiptsTellTheTruth'
      BY ClaimsTellNothing DEF Click, IInv
    <2> QED
      BY <2>1, <2>2 DEF Click, IInv, CardsFit, Stashed
  <1>4. GoesOn(t, r) /\ running = Nobody
    BY DEF Click
  <1>5. n \in 0..MaxEvents /\ n <= session'.rev /\ n # 0
    BY <1>1 DEF IInv, SessionFits, Sessions
  <1> HIDE DEF n
  <1>6. r \in Positions
    BY <1>5, TurnsAssumption, IdleFits, KeysName DEF Positions, Pcs
  <1>7. /\ r.pc = key[1] /\ r.rev = n /\ r.key = key
        /\ r.old = 0 /\ r.new = 0 /\ r.cards = {} /\ r.code = ""
    BY DEF Idle
  <1>8. Placed(r) /\ r.pc \notin Unbroken
    BY <1>5, <1>7, KeysName DEF Placed, Unbroken
  <1> HIDE DEF r
  <1> QED
    BY <1>1, <1>2, <1>3, <1>4, <1>5, <1>6, <1>7, <1>8, StepFromIdle

LEMMA AskInv == ASSUME IInv, NEW t \in Turns, Ask(t) PROVE IInv'
  <1>1. PICK q \in Positions : turn[t] = q /\ Placed(q) /\ q.key \in Asks /\ q.pc = q.key[1]
    BY StandsSomewhere DEF Ask, At
  <1>2. /\ q.key[1] \in {"close", "reopen"} /\ q.key[2] \in Nat
        /\ q.key = <<q.key[1], q.key[2]>>
    BY <1>1, TurnsAssumption DEF TurnsAssumption
  <1>3. SessionFits' /\ session.rev <= session'.rev
    <2>1. session' = SetPending(t, q.key[1], q.key[2])
      BY <1>1 DEF Ask
    <2>2. IF Stores(t) THEN <<q.key[1], q.key[2]>> \in owed' ELSE UNCHANGED owed
      BY <1>1, <1>2 DEF Ask
    <2>3. <<q.key[1], q.key[2]>> \in Asks
      BY <1>1, <1>2
    <2> QED
      BY <1>2, <2>1, <2>2, <2>3, SessionIsSet DEF Ask, IInv, Stashed, Ops
  <1>4. Evolves /\ DraftsFit' /\ CardsFit'
    BY <1>3, RowsStay DEF Ask
  <1>5. PICK code \in {"pending_details", "stale_action"} :
           code = IF Stores(t) THEN "pending_details" ELSE "stale_action"
    OBVIOUS
  <1> DEFINE r == [q EXCEPT !.pc = "complete", !.code = code]
  <1>6. turn' = [turn EXCEPT ![t] = r] /\ running' = t /\ running \in {Nobody, t}
    BY <1>1, <1>5 DEF Ask, At, Moved, GoesOn
  <1>7. /\ r \in Positions /\ r.pc = "complete" /\ r.code = code /\ r.key = q.key
        /\ r.rev = q.rev /\ r.new = q.new /\ r.old = q.old /\ r.cards = q.cards
    <2>1. code \in Codes /\ "complete" \in Pcs
      BY <1>5 DEF Codes, Pcs
    <2>2. r \in Positions
      BY <2>1 DEF Positions
    <2>3. /\ r.pc = "complete" /\ r.code = code /\ r.key = q.key
          /\ r.rev = q.rev /\ r.new = q.new /\ r.old = q.old /\ r.cards = q.cards
      BY DEF Positions
    <2> QED
      BY <2>2, <2>3
  <1> HIDE DEF r
  <1>8. r.pc \notin Unbroken /\ Placed(r) /\ Likewise(r, turn[t])
    BY <1>1, <1>2, <1>5, <1>7 DEF Placed, Likewise, Codes, Unbroken
  <1> QED
    BY <1>3, <1>4, <1>6, <1>7, <1>8, StepToAwait

\* A draft is confirmed or cancelled from its card, with outcome o.
LEMMA OutcomeInv ==
    ASSUME IInv, NEW t \in Turns, running \in {Nobody, t}, running' \in {Nobody, t},
           turn[t].pc \in {"confirm", "cancel"},
           NEW d \in Drafts, turn[t].key = <<turn[t].pc, d>>,
           NEW o \in Confirmations \union Cancellations, o[1] = draft[d],
           draft' = [draft EXCEPT ![d] = o[2]],
           turn[t].pc = "confirm" => o \in Confirmations,
           turn[t].pc = "cancel" => o \in Cancellations,
           turn' = [turn EXCEPT ![t] = [Moved(t, "settle") EXCEPT !.code = o[3]]],
           UNCHANGED <<session, receipt, offered, replaced, owed>>
    PROVE  IInv'
  <1>1. draft' \in [Drafts -> States] /\ \A e \in Drafts : Moves(e)
    BY OutcomeMoves DEF IInv
  <1>2. SessionFits' /\ session.rev <= session'.rev
    BY <1>1, SessionStays DEF IInv, Moves, Stashed
  <1>3. Evolves /\ DraftsFit' /\ CardsFit'
    BY <1>1, <1>2, RowsMove
  <1>4. PICK q \in Positions : turn[t] = q /\ Placed(q) /\ Informed(q)
    BY StandsSomewhere
  <1>5. PICK code \in Codes : code = o[3]
    BY OutcomesMove DEF Codes
  <1> DEFINE r == [q EXCEPT !.pc = "settle", !.code = code]
  <1>6. turn' = [turn EXCEPT ![t] = r]
    BY <1>4, <1>5 DEF Moved
  <1>7. /\ r \in Positions /\ r.pc = "settle" /\ r.code = code /\ r.key = q.key
        /\ r.rev = q.rev /\ r.new = q.new /\ r.old = q.old /\ r.cards = q.cards
    <2>1. "settle" \in Pcs
      BY DEF Pcs
    <2>2. r \in Positions
      BY <2>1 DEF Positions
    <2>3. /\ r.pc = "settle" /\ r.code = code /\ r.key = q.key
          /\ r.rev = q.rev /\ r.new = q.new /\ r.old = q.old /\ r.cards = q.cards
      BY DEF Positions
    <2> QED
      BY <2>2, <2>3
  <1> HIDE DEF r
  <1>8. Placed(r) /\ UpToDate(r)' /\ r.pc \notin Unbroken
    BY <1>4, <1>7 DEF Placed, UpToDate, Unbroken
  <1>9. Informed(q)'
    BY <1>2, <1>3, <1>4, InformedStays DEF IInv, SessionFits, Sessions
  <1>10. Tells(r.key, r.code)'
    <2>1. draft'[d] = o[2]
      BY DEF IInv, DraftsFit
    <2> QED
      BY <1>4, <1>5, <1>7, <2>1, ConfirmationsTell, CancellationsTell DEF Tells
  <1>11. Informed(r)'
    BY <1>7, <1>9, <1>10 DEF Informed
  <1> QED
    BY <1>2, <1>3, <1>6, <1>7, <1>8, <1>11, StepOfTurn

LEMMA ConfirmInv == ASSUME IInv, NEW t \in Turns, Confirm(t) PROVE IInv'
  <1>1. PICK d \in Drafts : turn[t].key = <<"confirm", d>> /\ turn[t].key[2] = d
    BY StandsSomewhere DEF Confirm, At, Placed
  <1> QED
    BY <1>1, OutcomeInv DEF Confirm, At, GoesOn, Awaits

LEMMA CancelDraftInv == ASSUME IInv, NEW t \in Turns, CancelDraft(t) PROVE IInv'
  <1>1. PICK d \in Drafts : turn[t].key = <<"cancel", d>> /\ turn[t].key[2] = d
    BY StandsSomewhere DEF CancelDraft, At, Placed
  <1> QED
    BY <1>1, OutcomeInv DEF CancelDraft, At, GoesOn

LEMMA SettleInv == ASSUME IInv, NEW t \in Turns, Settle(t) PROVE IInv'
  <1>1. SessionFits' /\ session.rev <= session'.rev
    BY SessionIsCleared, SessionStays DEF Settle, IInv, Stashed
  <1>2. Evolves /\ DraftsFit' /\ CardsFit'
    BY <1>1, RowsStay DEF Settle
  <1>3. PICK r \in Positions : r = Moved(t, "complete")
    BY MovedFits DEF Pcs
  <1>4. r.pc = "complete" /\ Likewise(r, turn[t]) /\ r.code = turn[t].code
    <2>1. r.code = turn[t].code
      BY <1>3, StandsSomewhere DEF Moved, Positions
    <2> QED
      BY <1>3, <2>1, MovedFits DEF Pcs
  <1>5. Placed(r) /\ r.pc \notin Unbroken
    BY <1>4, StandsSomewhere DEF Settle, At, Placed, Unbroken, Likewise
  <1> QED
    BY <1>1, <1>2, <1>3, <1>4, <1>5, StepToAwait DEF Settle, At, GoesOn

LEMMA TakePickInv == ASSUME IInv, NEW t \in Turns, TakePick(t) PROVE IInv'
  <1>1. SessionFits' /\ session.rev <= session'.rev
    BY SessionIsCleared, SessionIsGot DEF TakePick, IInv, Stashed
  <1>2. Evolves /\ DraftsFit' /\ CardsFit'
    BY <1>1, RowsStay DEF TakePick
  <1>3. CASE Awaits(t, Moved(t, "names"))
    BY <1>1, <1>2, <1>3, StepToWait DEF TakePick, At, Waiting
  <1>4. CASE GoesOn(t, [Moved(t, "complete") EXCEPT !.code = "expired"])
    <2>1. PICK q \in Positions : turn[t] = q /\ q.pc = "pick" /\ Placed(q)
      BY StandsSomewhere DEF TakePick, At
    <2> DEFINE r == [q EXCEPT !.pc = "complete", !.code = "expired"]
    <2>2. turn' = [turn EXCEPT ![t] = r] /\ running' = t /\ running \in {Nobody, t}
      BY <1>4, <2>1 DEF TakePick, At, Moved, GoesOn
    <2>3. "complete" \in Pcs /\ "expired" \in Codes
      BY DEF Pcs, Codes
    <2>4. r \in Positions
      BY <2>3 DEF Positions
    <2>5. r.pc = "complete" /\ r.code = "expired" /\ Likewise(r, q)
      BY DEF Positions, Likewise
    <2> HIDE DEF r
    <2>6. r.pc \notin Unbroken /\ Placed(r) /\ Likewise(r, turn[t])
      BY <2>1, <2>3, <2>5 DEF Placed, Likewise, Unbroken
    <2> QED
      BY <1>1, <1>2, <2>2, <2>4, <2>6, StepToAwait
  <1> QED
    BY <1>3, <1>4 DEF TakePick

LEMMA CompleteInv == ASSUME IInv, NEW t \in Turns, Complete(t) PROVE IInv'
  <1>1. SessionFits' /\ session.rev <= session'.rev
    BY SessionStays DEF Complete, IInv, Stashed
  <1>2. Evolves /\ DraftsFit'
    BY <1>1, DraftsStay DEF Complete, IInv
  <1>3. PICK q \in Positions : turn[t] = q /\ q.code \in Codes /\ Informed(q)
    BY StandsSomewhere DEF Complete, At, Placed
  <1>4. receipt' = [receipt EXCEPT ![q.key] = q.code]
    BY <1>3 DEF Complete
  <1>5. CardsFit'
    <2>1. receipt' \in [Keys -> Codes \union {"absent", "IN_PROGRESS", "AGED"}]
      BY <1>3, <1>4 DEF IInv, CardsFit
    <2>2. RevisedCardIsDead'
      BY DEF Complete, IInv, CardsFit, RevisedCardIsDead
    <2>3. \A d \in Drafts : <<"confirm", d>> \in Keys /\ <<"cancel", d>> \in Keys
      BY DEF Keys
    <2>4. \A k \in Keys : receipt'[k] = receipt[k] \/ (k = q.key /\ receipt'[k] = q.code)
      BY <1>4 DEF IInv, CardsFit
    <2>5. ReceiptsTellTheTruth'
      BY <1>3, <2>3, <2>4 DEF Complete, IInv, CardsFit, Informed, Tells, ReceiptsTellTheTruth
    <2> QED
      BY <2>1, <2>2, <2>5 DEF Complete, IInv, CardsFit, Stashed
  <1> QED
    BY <1>1, <1>2, <1>5, StepToIdle DEF Complete, At

---------------------------------------------------------------------------
(* Time and failures.                                                      *)

LEMMA BreaksInv == ASSUME IInv, NEW t \in Turns, Breaks(t) PROVE IInv'
  <1>1. SessionFits' /\ session.rev <= session'.rev
    BY SessionStays DEF Breaks, IInv, Stashed
  <1>2. Evolves /\ DraftsFit' /\ CardsFit'
    BY <1>1, RowsStay DEF Breaks
  <1> QED
    BY <1>1, <1>2, StepToIdle DEF Breaks

\* A step of no turn, while none is on the event loop.
LEMMA StepOfNone ==
    ASSUME IInv, UNCHANGED <<turn, running>>, running = Nobody,
           Evolves, SessionFits', DraftsFit', CardsFit'
    PROVE  IInv'
  <1>1. session.rev \in Nat /\ session'.rev \in Nat
    BY DEF IInv, SessionFits, Sessions
  <1>2. ASSUME NEW k \in Turns
        PROVE  (/\ Placed(turn[k]) /\ Informed(turn[k]) /\ UpToDate(turn[k])
                /\ turn[k].pc \notin Unbroken)'
    <2>1. PICK q \in Positions : turn[k] = q /\ turn'[k] = q
      BY DEF IInv, TurnsFit
    <2>2. Placed(q) /\ Informed(q) /\ q.pc \notin Unbroken
      BY <2>1, TurnsAssumption DEF TurnsAssumption, IInv, TurnsFit
    <2>3. Informed(q)'
      BY <1>1, <2>2, InformedStays DEF IInv
    <2>4. UpToDate(q)'
      BY <2>2 DEF UpToDate, Unbroken
    <2> QED
      BY <2>1, <2>2, <2>3, <2>4 DEF Placed, Informed, UpToDate
  <1> QED
    BY <1>2 DEF IInv, TurnsFit

LEMMA ReplayInv == ASSUME IInv, NEW key \in Keys, Replay(key) PROVE IInv'
  <1>1. SessionFits' /\ session.rev <= session'.rev
    BY SessionStays DEF Replay, IInv, Stashed
  <1>2. Evolves /\ DraftsFit' /\ CardsFit'
    BY <1>1, RowsStay DEF Replay
  <1> QED
    BY <1>1, <1>2, StepOfNone DEF Replay

LEMMA ClaimAgesInv == ASSUME IInv, NEW key \in Keys, ClaimAges(key) PROVE IInv'
  <1>1. SessionFits' /\ session.rev <= session'.rev
    BY SessionStays DEF ClaimAges, Waits, IInv, Stashed
  <1>2. Evolves /\ DraftsFit'
    BY <1>1, DraftsStay DEF ClaimAges, IInv
  <1>3. CardsFit'
    <2>1. RevisedCardIsDead'
      BY DEF ClaimAges, IInv, CardsFit, RevisedCardIsDead
    <2>2. /\ receipt' \in [Keys -> Codes \union {"absent", "IN_PROGRESS", "AGED"}]
          /\ ReceiptsTellTheTruth'
      BY ClaimsTellNothing DEF ClaimAges, IInv
    <2> QED
      BY <2>1, <2>2 DEF ClaimAges, IInv, CardsFit, Stashed
  <1> QED
    BY <1>1, <1>2, <1>3, StepOfNone DEF ClaimAges, Waits

LEMMA DraftLapsesInv == ASSUME IInv, NEW d \in Drafts, DraftLapses(d) PROVE IInv'
  <1>1. draft' \in [Drafts -> States] /\ \A e \in Drafts : Moves(e)
    BY DEF DraftLapses, IInv, DraftsFit, States, Moves, Stashed
  <1>2. SessionFits' /\ session.rev <= session'.rev
    BY <1>1, SessionStays DEF DraftLapses, IInv, Moves, Stashed
  <1>3. Evolves /\ DraftsFit' /\ CardsFit'
    BY <1>1, <1>2, RowsMove DEF DraftLapses
  <1> QED
    BY <1>2, <1>3, StepOfNone DEF DraftLapses, Waits

LEMMA SessionAgesInv == ASSUME IInv, SessionAges PROVE IInv'
  <1>1. session' = [session EXCEPT !.aged = TRUE] /\ session \in Sessions
    BY DEF SessionAges, IInv, SessionFits
  <1>2. session' \in Sessions /\ session.rev <= session'.rev
    <2>1. session' \in Sessions /\ session'.rev = session.rev /\ session.rev \in 0..MaxEvents
      BY <1>1 DEF Sessions
    <2> QED
      BY <2>1
  <1>3. SessionFits'
    BY <1>1, <1>2 DEF SessionAges, IInv, SessionFits, Stashed, Sessions
  <1>4. Evolves /\ DraftsFit' /\ CardsFit'
    BY <1>2, RowsStay DEF SessionAges
  <1> QED
    BY <1>3, <1>4, StepOfNone DEF SessionAges, Waits

---------------------------------------------------------------------------
(* The theorems.                                                           *)

LEMMA InitInv == Init => IInv
  <1> SUFFICES ASSUME Init PROVE IInv
    OBVIOUS
  <1>1. SessionFits
    BY TurnsAssumption, NothingIsNoAsk DEF TurnsAssumption, Init, SessionFits, Sessions, Ops
  <1>2. DraftsFit
    <2>1. \A d \in Drafts : draft[d] = "absent" /\ ~(d <= 0)
      BY DEF Init, Drafts
    <2>2. DraftsAreNumbered
      BY <2>1, TurnsAssumption DEF TurnsAssumption, DraftsAreNumbered, Stashed
    <2> QED
      BY <2>2 DEF Init, DraftsFit, States
  <1>3. CardsFit
    <2>1. \A d \in Drafts : <<"confirm", d>> \notin offered
      BY TurnsAssumption DEF TurnsAssumption, Init
    <2>2. \A d \in Drafts : <<"confirm", d>> \in Keys /\ <<"cancel", d>> \in Keys
      BY DEF Keys
    <2>3. RevisedCardIsDead
      BY <2>1 DEF RevisedCardIsDead
    <2>4. ReceiptsTellTheTruth
      BY <2>2 DEF Init, ReceiptsTellTheTruth
    <2> QED
      BY <2>1, <2>3, <2>4 DEF Init, CardsFit, Keys
  <1>4. TurnsFit
    <2>1. Idle \in Positions /\ Placed(Idle) /\ Idle.pc \notin Unbroken
      BY TurnsAssumption, IdleFits
    <2>2. /\ Idle.rev = 0 /\ Idle.old = 0 /\ Idle.new = 0 /\ Idle.cards = {}
          /\ Idle.code = "" /\ session.rev = 0
      BY DEF Init, Idle
    <2>3. Informed(Idle)
      <3>1. Tells(Idle.key, Idle.code)
        BY <2>2 DEF Tells
      <3>2. Idle.rev <= session.rev
        <4>1. 0 <= 0
          OBVIOUS
        <4> QED
          BY <2>2, <4>1, Zenon
      <3> QED
        BY <2>2, <3>1, <3>2 DEF Informed
    <2>4. UpToDate(Idle)
      BY <2>1 DEF UpToDate, Unbroken
    <2> QED
      BY <2>1, <2>3, <2>4 DEF Init, TurnsFit
  <1> QED
    BY <1>1, <1>2, <1>3, <1>4 DEF IInv

LEMMA MessageInv == ASSUME IInv, NEW t \in Turns, Message(t) PROVE IInv'
  BY HearInv, CancelWordInv, CommandInv, ReadNothingInv, ReadNotesInv, PerformInv,
     ReadPickInv, ReadCreateInv, ReadDeadReviewInv, ReadReviewInv, StillMissingInv,
     AnsweredInv DEF Message

LEMMA PrepareInv == ASSUME IInv, NEW t \in Turns, Prepare(t) PROVE IInv'
  BY StashInv, StoreReviewInv, DiscardInv, ShowInv DEF Prepare

LEMMA AssistInv == ASSUME IInv, NEW t \in Turns, Assist(t) PROVE IInv'
  BY NamedInv, AmbiguousInv, CallCreateMissingInv, CallCreateInv, CallDraftToolInv,
     AnswersInv, FailsInv, SendInv DEF Assist

LEMMA CardActionInv == ASSUME IInv, NEW t \in Turns, CardAction(t) PROVE IInv'
  BY ClickInv, AskInv, ConfirmInv, CancelDraftInv, SettleInv, TakePickInv, CompleteInv
  DEF CardAction

LEMMA StutterInv == ASSUME IInv, UNCHANGED vars PROVE IInv'
  BY DEF vars, IInv, SessionFits, DraftsFit, DraftsAreNumbered, CardsFit, TurnsFit, Stashed,
         RevisedCardIsDead, ReceiptsTellTheTruth, Placed, Informed, UpToDate, Tells

\* Every step of every turn keeps the inductive invariant.
THEOREM Invariant == Spec => []IInv
  <1>1. IInv /\ [Next]_vars => IInv'
    BY MessageInv, PrepareInv, AssistInv, CardActionInv, BreaksInv, ReplayInv, ClaimAgesInv,
       DraftLapsesInv, SessionAgesInv, StutterInv DEF Next
  <1> QED
    BY InitInv, <1>1, PTL DEF Spec

\* The rows and the turns keep their types.
THEOREM TypeCorrect == Spec => []TypeOK
  BY Invariant, IInvTypes, PTL

\* Whoever sees the card of a revised draft can no longer confirm the draft
\* it replaced, wherever a turn of the revision broke off.
THEOREM RevisedCardsAreDead == Spec => []RevisedCardIsDead
  BY Invariant, IInvSafe, PTL

\* A task is closed or reopened on a message only if the message answers the
\* newest prompt.
THEOREM AnswersAlwaysAskedFor == Spec => []AnswersWereAskedFor
  BY Invariant, IInvSafe, PTL

\* What the receipts of card actions tell is what became of the drafts.
THEOREM ReceiptsAlwaysTrue == Spec => []ReceiptsTellTheTruth
  BY Invariant, IInvSafe, PTL

---------------------------------------------------------------------------
(* Superseded turns.                                                       *)

LEMMA PendingStays ==
    ASSUME SessionFits, session' = Got \/ session' = session
    PROVE  Pending' = Pending
  <1>1. CASE session.aged
    BY <1>1 DEF Pending, Got, Cleared, SessionFits, Sessions
  <1>2. CASE ~session.aged
    BY <1>2 DEF Pending, Got
  <1> QED
    BY <1>1, <1>2

\* A turn moves only by a step of its own.
LEMMA OwnStep ==
    ASSUME IInv, Next, NEW t \in Turns, StepOfStale(t)
    PROVE  Prepare(t) \/ Assist(t) \/ Breaks(t)
  <1>1. turn'[t] # turn[t]
        /\ turn[t].pc \in {"names", "model", "stash", "store", "discard", "show"}
    BY DEF StepOfStale
  <1>2. \E k \in Turns : Message(k) \/ Prepare(k) \/ Assist(k) \/ CardAction(k) \/ Breaks(k)
    BY <1>1 DEF Next, Replay, ClaimAges, DraftLapses, SessionAges
  <1>3. ASSUME NEW k \in Turns, k # t,
               Message(k) \/ Prepare(k) \/ Assist(k) \/ CardAction(k) \/ Breaks(k)
        PROVE  FALSE
    <2>1. \E r : turn' = [turn EXCEPT ![k] = r]
      BY <1>3 DEF Message, Hear, CancelWord, Command, ReadNothing, ReadNotes, Perform,
         ReadPick, ReadCreate, ReadDeadReview, ReadReview, StillMissing, Answered,
         Prepare, Stash, StoreReview, Discard, Show,
         Assist, Named, Ambiguous, CallCreateMissing, CallCreate, CallDraftTool, Answers,
         Fails, Send, CardAction, Click, Ask, Confirm, CancelDraft, Settle, TakePick, Complete,
         Breaks, Ends, GoesOn, Awaits
    <2> QED
      BY <1>1, <1>3, <2>1
  <1>4. ASSUME Message(t) \/ CardAction(t) PROVE FALSE
    <2>1. Idle.pc = "idle"
      BY DEF Idle
    <2>2. ~Message(t)
      BY <1>1, <2>1 DEF Message, Hear, CancelWord, Command, ReadNothing, ReadNotes, Perform,
         ReadPick, ReadCreate, ReadDeadReview, ReadReview, StillMissing, Answered, At
    <2>3. ~Ask(t)
      BY <1>1, TurnsAssumption DEF TurnsAssumption, Ask, At
    <2>4. ~CardAction(t)
      BY <1>1, <2>1, <2>3 DEF CardAction, Click, Confirm, CancelDraft, Settle, TakePick,
         Complete, At
    <2> QED
      BY <1>4, <2>2, <2>4
  <1> QED
    BY <1>2, <1>3, <1>4

\* Only the answer of a current turn leads to the sending of its cards.
LEMMA StaleTurnsStaySilent ==
    ASSUME IInv, NEW t \in Turns, turn[t].pc # "send", ~IsCurrent(t),
           Prepare(t) \/ Assist(t) \/ Breaks(t)
    PROVE  turn'[t].pc # "send"
  <1>1. turn \in [Turns -> Positions] /\ turn[t] \in Positions
    BY DEF IInv, TurnsFit
  <1>2. CASE Ends(t)
    BY <1>1, <1>2 DEF Ends, Awaits, Idle
  <1>3. CASE Stash(t)
    BY <1>1, <1>3 DEF Stash, GoesOn, Moved, Positions
  <1>4. CASE StoreReview(t)
    BY <1>1, <1>4 DEF StoreReview, GoesOn, Moved, Positions
  <1>5. CASE Discard(t)
    <2>1. turn[t].after # "send"
      BY <1>1 DEF Positions
    <2>2. PICK cs : turn' = [turn EXCEPT ![t] =
             [turn[t] EXCEPT !.pc = turn[t].after, !.new = 0, !.old = 0, !.stored = FALSE,
                             !.after = "idle", !.cards = cs]]
      BY <1>5 DEF Discard, GoesOn, Awaits, Moved
    <2>3. turn'[t].pc = turn[t].after
      BY <1>1, <2>2 DEF Positions
    <2> QED
      BY <2>1, <2>3
  <1>6. CASE Show(t) \/ Breaks(t)
    BY <1>2, <1>6 DEF Show, Breaks
  <1>7. CASE Named(t)
    BY <1>1, <1>7 DEF Named, Awaits, Moved, Positions
  <1>8. CASE Ambiguous(t)
    BY <1>1, <1>2, <1>8 DEF Ambiguous, Awaits, Moved, Positions
  <1>9. CASE CallCreateMissing(t) \/ \E d \in Drafts : CallDraftTool(t, d)
    BY <1>1, <1>9 DEF CallCreateMissing, CallDraftTool, Called, Awaits, Positions
  <1>10. CASE CallCreate(t)
    BY <1>1, <1>10 DEF CallCreate, Called, GoesOn, Positions
  <1>11. CASE Answers(t) \/ Fails(t)
    <2>1. Awaits(t, Spoke(t))
      BY <1>11 DEF Answers, Fails, Speaks
    <2> QED
      BY <1>1, <1>2, <2>1 DEF Spoke, Awaits, Ends, Moved, Positions
  <1>12. ~Send(t)
    BY DEF Send, At
  <1> QED
    BY <1>3, <1>4, <1>5, <1>6, <1>7, <1>8, <1>9, <1>10, <1>11, <1>12 DEF Prepare, Assist

\* A superseded turn discards nothing but its own new draft, has no card to
\* show, stores nothing, and does not begin to answer.
LEMMA StaleStep ==
    ASSUME IInv, Next, NEW t \in Turns, StepOfStale(t)
    PROVE  /\ Pending' = Pending /\ offered' = offered /\ turn'[t].pc # "send"
           /\ \A d \in Drafts : draft'[d] # draft[d] =>
                 draft[d] = "absent" \/ (d = turn[t].new /\ draft'[d] = "CANCELLED")
  <1>1. PICK q \in Positions : /\ turn[t] = q /\ Placed(q) /\ Informed(q) /\ UpToDate(q)
                               /\ q.rev # session.rev
    BY StandsSomewhere DEF StepOfStale
  <1>2. /\ SessionFits /\ ~Stores(t) /\ ~IsCurrent(t)
        /\ \A op, ref : SetPending(t, op, ref) = session
    BY <1>1 DEF IInv, Stores, IsCurrent, SetPending
  <1>0. turn'[t].pc # "send"
    BY <1>1, OwnStep, StaleTurnsStaySilent DEF StepOfStale, IsCurrent
  <1>3. CASE Stash(t)
    <2>1. PICK d \in Drafts : /\ d = Cardinality({e \in Drafts : draft[e] # "absent"}) + 1
                              /\ draft' = [draft EXCEPT ![d] = "ACTIVE"]
      BY <1>3 DEF Stash
    <2>2. PICK n \in 0..MaxDrafts : \A e \in Drafts : Stashed(e) <=> e <= n
      BY DEF IInv, DraftsFit, DraftsAreNumbered
    <2>3. d = n + 1
      BY <2>1, <2>2, NextDraft DEF IInv
    <2>4. draft[d] = "absent"
      BY <2>2, <2>3 DEF Stashed
    <2>5. UNCHANGED <<session, offered>>
      BY <1>3 DEF Stash
    <2> QED
      BY <1>0, <1>2, <2>1, <2>4, <2>5, PendingStays DEF IInv, DraftsFit
  <1>4. CASE StoreReview(t)
    BY <1>0, <1>2, <1>4, PendingStays DEF StoreReview
  <1>5. CASE Discard(t)
    <2>1. ~q.stored
      BY <1>1, <1>5 DEF Discard, At, UpToDate
    <2>2. draft' = Discarded(q.new) /\ UNCHANGED <<session, offered>>
      BY <1>1, <1>5, <2>1 DEF Discard, DiscardOne
    <2>3. \A d \in Drafts : draft'[d] # draft[d] => d = q.new /\ draft'[d] = "CANCELLED"
      BY <2>2 DEF Discarded, IInv, DraftsFit
    <2> QED
      BY <1>0, <1>1, <1>2, <2>2, <2>3, PendingStays
  <1>6. CASE Show(t)
    <2>1. q.cards = {}
      BY <1>1, <1>6 DEF Show, At, UpToDate
    <2>2. offered' = offered
      BY <1>1, <1>6, <2>1 DEF Show, Buttons
    <2> QED
      BY <1>0, <1>2, <1>6, <2>2, PendingStays DEF Show
  <1>7. CASE Named(t) \/ Breaks(t)
    BY <1>0, <1>2, <1>7, PendingStays DEF Named, Breaks
  <1>8. CASE Ambiguous(t)
    <2>1. offered' = offered
      BY <1>2, <1>8 DEF Ambiguous
    <2> QED
      BY <1>0, <1>2, <1>8, <2>1, PendingStays DEF Ambiguous
  <1>9. CASE CallCreateMissing(t) \/ CallCreate(t)
    BY <1>0, <1>2, <1>9, PendingStays DEF CallCreateMissing, CallCreate
  <1>10. CASE \E d \in Drafts : CallDraftTool(t, d)
    BY <1>0, <1>2, <1>10, PendingStays DEF CallDraftTool
  <1>11. CASE Answers(t) \/ Fails(t)
    BY <1>0, <1>2, <1>11, PendingStays DEF Answers, Fails
  <1>12. ~Send(t)
    BY DEF StepOfStale, Send, At
  <1> QED
    BY OwnStep, <1>3, <1>4, <1>5, <1>6, <1>7, <1>8, <1>9, <1>10, <1>11, <1>12
    DEF Prepare, Assist

\* A turn that a newer event has superseded leaves the pending operation as
\* the newer events left it and touches no draft but its own new one.
THEOREM SupersededTurnsChangeNothing == Spec => StaleTurnsChangeNothing
  <1>1. IInv /\ [Next]_vars =>
          [\A t \in Turns : StepOfStale(t) =>
              /\ Pending' = Pending
              /\ \A d \in Drafts : draft'[d] # draft[d] =>
                    draft[d] = "absent" \/ (d = turn[t].new /\ draft'[d] = "CANCELLED")]_vars
    BY StaleStep
  <1> QED
    BY Invariant, <1>1, PTL DEF Spec, StaleTurnsChangeNothing

\* A turn that was superseded before it spoke shows no card and does not
\* begin to.
THEOREM SupersededTurnsBeginNoAnswer == Spec => StaleTurnsBeginNoAnswer
  <1>1. IInv /\ [Next]_vars =>
          [\A t \in Turns : StepOfStale(t) => offered' = offered /\ turn'[t].pc # "send"]_vars
    BY StaleStep
  <1> QED
    BY Invariant, <1>1, PTL DEF Spec, StaleTurnsBeginNoAnswer
=============================================================================
