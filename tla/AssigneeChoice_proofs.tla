------------------------ MODULE AssigneeChoice_proofs ------------------------
(***************************************************************************)
(* Proofs about AssigneeChoice for any people, names, messages, results of *)
(* a search and assignment directories, and any number of turns.           *)
(***************************************************************************)
EXTENDS AssigneeChoice, ChoiceAlgorithms_proofs

---------------------------------------------------------------------------
(* The inductive invariant: what is stored, the turns, why an override is  *)
(* in force, and what becomes of a pick.                                   *)

Depts == {a.profiles[p].dept : a \in Artefacts, p \in People}
Kept == Messages \union {NoMessage}

\* What is stored: a card to pick from names a name of a message and whom its
\* search has found; a draft is between people, with a department.
Asks == [op : {"none", "pick", "create"}, name : Names \union {Nobody},
         candidates : SUBSET People, msg : Kept]
Drafted == [state : {"none", "active", "task"}, by : Actors \union {Nobody},
            for : Whom, dept : Depts \union {NoDept}]
StoredFits ==
    /\ pending \in [Actors -> Asks]
    /\ \A a \in Actors : /\ pending[a].op = "pick" <=> pending[a].candidates # {}
                         /\ pending[a].op = "pick" => pending[a].name \in Names
    /\ draft \in Drafted
    /\ draft.state = "active" => draft.by \in Actors /\ draft.for \in People /\ draft.dept # NoDept
    /\ artefacts \in Artefacts

TurnRecords == [pc : {"idle", "actor", "names", "model"}, who : Actors \union {Nobody},
                kind : {"message", "answer", "pick"}, msg : Kept,
                overrides : [Names -> Whom],
                dept : {NoDept} \union {GraphDept[p] : p \in People}, given : SUBSET People,
                stale : BOOLEAN, pick : (Names \X People) \union {NoPick}, disturbed : BOOLEAN]
Placed(r) == /\ r.who = Nobody <=> r.pc = "idle"
             /\ r.kind = "pick" => r.pick \in Names \X People

\* An override was picked, and what a turn has read of it was too: the picks
\* that a clearing forgets are held by no turn.
WerePicked(f) == \A n \in Names : f[n] # Nobody => <<n, f[n]>> \in picks

\* A pick that nothing disturbs is in force until its turn reads it, then
\* among the overrides of the turn, then given to the model.
Honoured(r) ==
    r.kind = "pick" /\ ~r.disturbed =>
        /\ r.pc = "actor" => overrides[r.pick[1]] = r.pick[2]
        /\ r.pc = "names" => r.overrides[r.pick[1]] = r.pick[2]
        /\ r.pc = "model" => r.pick[2] \in r.given

TurnsFit ==
    /\ turn \in [Turns -> TurnRecords]
    /\ \A t \in Turns : Placed(turn[t]) /\ WerePicked(turn[t].overrides) /\ Honoured(turn[t])

OverridesFit ==
    /\ overrides \in [Names -> Whom] /\ picks \subseteq Names \X People
    /\ WerePicked(overrides)

IInv == StoredFits /\ TurnsFit /\ OverridesFit

LEMMA IInvTypes == IInv => TypeOK
  <1> SUFFICES ASSUME IInv PROVE TypeOK
    OBVIOUS
  <1>1. ASSUME NEW t \in Turns
        PROVE  /\ turn[t].pc \in {"idle", "actor", "names", "model"}
               /\ turn[t].kind \in {"message", "answer", "pick"}
               /\ turn[t].who \in Actors \union {Nobody}
               /\ turn[t].who = Nobody <=> At(t, "idle")
               /\ turn[t].msg \in Messages \union {NoMessage}
               /\ turn[t].overrides \in [Names -> Whom] /\ turn[t].given \subseteq People
               /\ turn[t].dept \in {NoDept} \union {GraphDept[p] : p \in People}
    BY DEF IInv, TurnsFit, TurnRecords, Placed, Kept, At
  <1>2. \A a \in Actors : /\ pending[a].op \in {"none", "pick", "create"}
                          /\ pending[a].op = "pick" <=> pending[a].candidates # {}
    BY DEF IInv, StoredFits, Asks
  <1>3. /\ draft.state \in {"none", "active", "task"}
        /\ draft.state = "active" => draft.by \in Actors /\ draft.for \in People /\ draft.dept # NoDept
    BY DEF IInv, StoredFits, Drafted
  <1> QED
    BY <1>1, <1>2, <1>3 DEF IInv, OverridesFit, TypeOK

LEMMA IInvHonours == IInv => PickIsHonoured
  BY DEF IInv, TurnsFit, Honoured, PickIsHonoured, At

---------------------------------------------------------------------------
(* Whom the names of a message are resolved to.                            *)

\* Who is picked for a name is found by its search, and the clear winner.
LEMMA PickedIsClear ==
    ASSUME ChoiceAssumption, NEW t, NEW n \in Names, NEW list \in Searches[n],
           NEW p \in Picked(t, n, list)
    PROVE  /\ p \in People
           /\ LET cands == Candidates(n, list)
              IN  \E i \in DOMAIN cands :
                      cands[i].id = p /\ ClearWinner(cands[i], ToSet(cands), Requester(t))
  <1> DEFINE cands == Candidates(n, list)
             people == {cands[i] : i \in DOMAIN cands}
  <1>1. list \in Seq(People) /\ \A i, j \in DOMAIN list : list[i] = list[j] => i = j
    BY DEF ChoiceAssumption
  <1>2. /\ cands = [i \in DOMAIN list |-> Candidate(n, list[i])]
        /\ \A i \in DOMAIN list : cands[i].id = list[i] /\ cands[i].name = 0
        /\ DOMAIN list = 1..Len(list) /\ Len(list) \in Nat
    BY <1>1 DEF Candidates, Candidate
  <1> HIDE DEF cands
  <1>3. DOMAIN cands = DOMAIN list
    BY <1>2
  <1>4. cands \in Seq(people)
    <2>1. cands \in [1..Len(list) -> people]
      BY <1>2
    <2> QED
      BY <1>2, <2>1
  <1>5. PicksTheClearWinner(cands, Requester(t))
    <2>1. \A i \in DOMAIN cands : cands[i].name \in Nat
      BY <1>2, <1>3
    <2>2. \A i, j \in DOMAIN cands : cands[i] = cands[j] => i = j
      BY <1>1, <1>2, <1>3
    <2> QED
      BY <1>4, <2>1, <2>2, TheClearWinnerIsPicked
  <1>6. p \in {c.id : c \in {d \in people : ClearWinner(d, people, Requester(t))}}
    BY <1>5 DEF PicksTheClearWinner, Picked, cands
  <1>7. PICK i \in DOMAIN cands : cands[i].id = p /\ ClearWinner(cands[i], people, Requester(t))
    BY <1>6
  <1>8. p = list[i] /\ list[i] \in People
    BY <1>1, <1>2, <1>3, <1>7
  <1>9. ToSet(cands) = people
    BY DEF ToSet
  <1>10. ClearWinner(cands[i], ToSet(cands), Requester(t)) /\ cands[i].id = p /\ p \in People
    BY <1>7, <1>8, <1>9
  <1> HIDE DEF people
  <1> QED
    BY <1>10 DEF cands

\* A message mentions people, and its names are names.
LEMMA KeptMessages ==
    ASSUME ChoiceAssumption, NEW m \in Kept
    PROVE  m.names \in Seq(Names) /\ m.mentions \subseteq Names \X People
  <1>1. CASE m \in Messages
    BY <1>1 DEF ChoiceAssumption
  <1>2. CASE m = NoMessage
    BY <1>2 DEF NoMessage
  <1> QED
    BY <1>1, <1>2 DEF Kept

\* Whoever a turn resolves its names to is there for a reason.
LEMMA ResolvedForAReason ==
    ASSUME ChoiceAssumption, IInv, NEW t \in Turns, NEW found \in Lists,
           NEW p \in Resolved(t, found)
    PROVE  p \in People /\ (WasMentioned(t, p) \/ WasPicked(p) \/ IsMeant(t, p))
  <1>1. /\ turn[t].msg \in Kept /\ turn[t].overrides \in [Names -> Whom]
        /\ WerePicked(turn[t].overrides)
    BY DEF IInv, TurnsFit, TurnRecords
  <1>2. turn[t].msg.names \in Seq(Names) /\ turn[t].msg.mentions \subseteq Names \X People
    BY <1>1, KeptMessages
  <1>3. \/ \E n \in ByOverride(t) : p = turn[t].overrides[n]
        \/ \E m \in turn[t].msg.mentions : p = m[2]
        \/ \E n \in ToSet(turn[t].msg.names) : p \in Picked(t, n, found[n])
    BY DEF Resolved
  <1>4. ASSUME NEW n \in ByOverride(t), p = turn[t].overrides[n]
        PROVE  p \in People /\ WasPicked(p)
    BY <1>1, <1>4 DEF ByOverride, WerePicked, WasPicked, Whom
  <1>5. ASSUME NEW m \in turn[t].msg.mentions, p = m[2]
        PROVE  p \in People /\ WasMentioned(t, p)
    BY <1>2, <1>5 DEF WasMentioned
  <1>6. ASSUME NEW n \in ToSet(turn[t].msg.names), p \in Picked(t, n, found[n])
        PROVE  p \in People /\ IsMeant(t, p)
    <2>1. n \in Names
      BY <1>2 DEF ToSet
    <2>2. found[n] \in Searches[n]
      BY <2>1 DEF Lists
    <2>3. /\ p \in People
          /\ \E i \in DOMAIN Candidates(n, found[n]) :
                /\ Candidates(n, found[n])[i].id = p
                /\ ClearWinner(Candidates(n, found[n])[i], ToSet(Candidates(n, found[n])), Requester(t))
      BY <1>6, <2>1, <2>2, PickedIsClear
    <2> QED
      BY <2>2, <2>3 DEF IsMeant
  <1> QED
    BY <1>3, <1>4, <1>5, <1>6

\* So is whoever an answer is looked up as once more.
LEMMA LookedUpForAReason ==
    ASSUME ChoiceAssumption, IInv, NEW t \in Turns, NEW p \in LookedUpAgain(t)
    PROVE  p \in People /\ IsMeant(t, p)
  <1>1. turn[t].msg.names \in Seq(Names)
    BY KeptMessages DEF IInv, TurnsFit, TurnRecords
  <1>2. PICK n \in ToSet(turn[t].msg.names) : \E list \in Searches[n] : p \in Picked(t, n, list)
    BY DEF LookedUpAgain
  <1>3. n \in Names
    BY <1>1 DEF ToSet
  <1>4. PICK list \in Searches[n] : p \in Picked(t, n, list)
    BY <1>2
  <1>5. /\ p \in People
        /\ \E i \in DOMAIN Candidates(n, list) :
              /\ Candidates(n, list)[i].id = p
              /\ ClearWinner(Candidates(n, list)[i], ToSet(Candidates(n, list)), Requester(t))
    BY <1>3, <1>4, PickedIsClear
  <1> QED
    BY <1>5 DEF IsMeant

---------------------------------------------------------------------------
(* What a step does to the turns: one moves, the others at most age.       *)

Fits(r) == r \in TurnRecords /\ Placed(r) /\ WerePicked(r.overrides) /\ Honoured(r)
Older(r, q) == \E b \in BOOLEAN : q = [r EXCEPT !.stale = b]

LEMMA Ages ==
    ASSUME NEW r \in TurnRecords, NEW q, Older(r, q)
    PROVE  /\ q \in TurnRecords
           /\ q.pc = r.pc /\ q.who = r.who /\ q.kind = r.kind /\ q.msg = r.msg
           /\ q.overrides = r.overrides /\ q.given = r.given
           /\ q.pick = r.pick /\ q.disturbed = r.disturbed
  BY DEF Older, TurnRecords

LEMMA TurnsMove ==
    ASSUME TurnsFit, turn' = [s \in Turns |-> turn'[s]], UNCHANGED <<overrides, picks>>,
           \A s \in Turns : Older(turn[s], turn'[s]) \/ Fits(turn'[s])
    PROVE  TurnsFit'
  <1>1. ASSUME NEW s \in Turns
        PROVE  turn'[s] \in TurnRecords
               /\ (Placed(turn[s]) /\ WerePicked(turn[s].overrides) /\ Honoured(turn[s]))'
    <2>1. CASE Older(turn[s], turn'[s])
      <3>1. /\ turn'[s] \in TurnRecords
            /\ turn'[s].pc = turn[s].pc /\ turn'[s].who = turn[s].who
            /\ turn'[s].kind = turn[s].kind /\ turn'[s].overrides = turn[s].overrides
            /\ turn'[s].given = turn[s].given /\ turn'[s].pick = turn[s].pick
            /\ turn'[s].disturbed = turn[s].disturbed
        BY <2>1, Ages DEF TurnsFit
      <3> QED
        BY <3>1 DEF TurnsFit, Placed, WerePicked, Honoured
    <2>2. CASE Fits(turn'[s])
      BY <2>2 DEF Fits, Placed, WerePicked, Honoured
    <2> QED
      BY <2>1, <2>2
  <1> QED
    BY <1>1 DEF TurnsFit

LEMMA IdleFits == ChoiceAssumption => Idle \in TurnRecords /\ Fits(Idle)
  <1> SUFFICES ASSUME ChoiceAssumption PROVE Idle \in TurnRecords /\ Fits(Idle)
    OBVIOUS
  <1>1. NoOverrides \in [Names -> Whom] /\ \A n \in Names : NoOverrides[n] = Nobody
    BY DEF NoOverrides, Whom
  <1>2. Idle \in TurnRecords
    BY <1>1 DEF Idle, TurnRecords, Kept
  <1>3. Idle.pc = "idle" /\ Idle.who = Nobody /\ Idle.kind = "message" /\ Idle.overrides = NoOverrides
    BY DEF Idle
  <1> QED
    BY <1>1, <1>2, <1>3 DEF Fits, Placed, WerePicked, Honoured

\* A turn goes on alone.
LEMMA GoesOnFits ==
    ASSUME TurnsFit, NEW t \in Turns, NEW r, Fits(r), GoesOn(t, r), UNCHANGED <<overrides, picks>>
    PROVE  TurnsFit'
  <1>1. turn' = [turn EXCEPT ![t] = r] /\ DOMAIN turn = Turns
    BY DEF GoesOn, TurnsFit
  <1>2. ASSUME NEW s \in Turns PROVE Older(turn[s], turn'[s]) \/ Fits(turn'[s])
    <2>1. CASE s = t
      BY <1>1, <2>1
    <2>2. CASE s # t
      <3>1. turn'[s] = turn[s] /\ turn[s] \in TurnRecords
        BY <1>1, <2>2 DEF TurnsFit
      <3>2. turn[s] = [turn[s] EXCEPT !.stale = turn[s].stale] /\ turn[s].stale \in BOOLEAN
        BY <3>1 DEF TurnRecords
      <3> QED
        BY <3>1, <3>2 DEF Older
    <2> QED
      BY <2>1, <2>2
  <1> QED
    BY <1>1, <1>2, TurnsMove

LEMMA EndsFits ==
    ASSUME ChoiceAssumption, TurnsFit, NEW t \in Turns, Ends(t), UNCHANGED <<overrides, picks>>
    PROVE  TurnsFit'
  BY IdleFits, GoesOnFits DEF Ends

---------------------------------------------------------------------------
(* Each step keeps the invariant.                                          *)

LEMMA HearKeeps ==
    ASSUME ChoiceAssumption, IInv, NEW t \in Turns, NEW a \in Actors, NEW m \in Messages, Hear(t, a, m)
    PROVE  IInv'
  <1> DEFINE answers == pending[a].op = "create"
             r == [Idle EXCEPT !.pc = "actor", !.who = a, !.msg = m,
                      !.kind = IF answers THEN "answer" ELSE "message",
                      !.overrides = IF answers THEN NoOverrides ELSE overrides]
  <1>1. /\ turn' = [s \in Turns |-> IF s = t THEN r
                                    ELSE [turn[s] EXCEPT !.stale = @ \/ turn[s].who = a]]
        /\ UNCHANGED <<pending, overrides, draft, picks, artefacts>>
    BY DEF Hear, Begins
  <1>2. Fits(r)
    <2>1. NoOverrides \in [Names -> Whom] /\ \A n \in Names : NoOverrides[n] = Nobody
      BY DEF NoOverrides, Whom
    <2>2. overrides \in [Names -> Whom] /\ WerePicked(overrides)
      BY DEF IInv, OverridesFit
    <2>3. r.overrides \in [Names -> Whom] /\ WerePicked(r.overrides)
      BY <2>1, <2>2 DEF WerePicked, Idle
    <2>4. /\ r.pc = "actor" /\ r.who = a /\ r.msg = m /\ r.kind \in {"answer", "message"}
          /\ r.kind # "pick"
      BY DEF Idle
    <2>5. r \in TurnRecords
      <3> DEFINE kind == IF answers THEN "answer" ELSE "message"
                 over == IF answers THEN NoOverrides ELSE overrides
      <3>1. Idle \in TurnRecords /\ m \in Kept
        BY IdleFits DEF Kept
      <3>2. kind \in {"message", "answer", "pick"} /\ over \in [Names -> Whom]
        BY <2>1, <2>2
      <3>3. r = [Idle EXCEPT !.pc = "actor", !.who = a, !.msg = m, !.kind = kind, !.overrides = over]
        OBVIOUS
      <3> HIDE DEF r, kind, over
      <3> QED
        BY <3>1, <3>2, <3>3 DEF TurnRecords
    <2>6. a # Nobody
      BY DEF ChoiceAssumption
    <2> QED
      BY <2>3, <2>4, <2>5, <2>6 DEF Fits, Placed, Honoured
  <1> HIDE DEF r
  <1>3. ASSUME NEW s \in Turns PROVE Older(turn[s], turn'[s]) \/ Fits(turn'[s])
    BY <1>1, <1>2 DEF Older
  <1>4. TurnsFit'
    BY <1>1, <1>3, TurnsMove DEF IInv
  <1> QED
    BY <1>1, <1>4 DEF IInv, StoredFits, OverridesFit, WerePicked

LEMMA OtherEventKeeps ==
    ASSUME ChoiceAssumption, IInv, NEW a \in Actors, OtherEvent(a)
    PROVE  IInv'
  <1>1. /\ turn' = [s \in Turns |-> [turn[s] EXCEPT !.stale = @ \/ turn[s].who = a]]
        /\ pending' \in {pending, [pending EXCEPT ![a] = Nothing]}
        /\ UNCHANGED <<overrides, draft, picks, artefacts>>
    BY DEF OtherEvent, Overtakes
  <1>2. \A s \in Turns : Older(turn[s], turn'[s])
    BY <1>1 DEF Older
  <1>3. TurnsFit'
    BY <1>1, <1>2, TurnsMove DEF IInv
  <1>4. Nothing \in Asks /\ Nothing.op = "none" /\ Nothing.candidates = {}
    BY DEF Nothing, Asks, Kept
  <1>5. StoredFits'
    BY <1>1, <1>4 DEF IInv, StoredFits
  <1> QED
    BY <1>1, <1>3, <1>5 DEF IInv, OverridesFit, WerePicked

LEMMA PickKeeps ==
    ASSUME ChoiceAssumption, IInv, NEW t \in Turns, NEW a \in Actors, NEW p \in People, Pick(t, a, p)
    PROVE  IInv'
  <1> DEFINE ask == pending[a]
             r == [Idle EXCEPT !.pc = "actor", !.who = a, !.kind = "pick",
                      !.msg = ask.msg, !.pick = <<ask.name, p>>]
  <1>1. /\ turn' = [s \in Turns |->
              IF s = t THEN r
              ELSE [turn[s] EXCEPT !.stale = @ \/ turn[s].who = a,
                                   !.disturbed = @ \/ turn[s].pick[1] = ask.name]]
        /\ pending' = [pending EXCEPT ![a] = Nothing]
        /\ overrides' = [overrides EXCEPT ![ask.name] = p]
        /\ picks' = picks \union {<<ask.name, p>>}
        /\ UNCHANGED <<draft, artefacts>>
    BY DEF Pick
  <1>2. ask \in Asks /\ ask.name \in Names
    BY DEF Pick, IInv, StoredFits
  <1> HIDE DEF ask
  <1>3. /\ overrides \in [Names -> Whom] /\ overrides' \in [Names -> Whom] /\ overrides'[ask.name] = p
        /\ \A n \in Names : n # ask.name => overrides'[n] = overrides[n]
    BY <1>1, <1>2 DEF IInv, OverridesFit, Whom
  <1>4. OverridesFit'
    <2>1. picks' = picks \union {<<ask.name, p>>} /\ <<ask.name, p>> \in Names \X People
      BY <1>1, <1>2
    <2>2. picks' \subseteq Names \X People
      BY <2>1 DEF IInv, OverridesFit
    <2>3. ASSUME NEW n \in Names, overrides'[n] # Nobody PROVE <<n, overrides'[n]>> \in picks'
      <3>1. CASE n = ask.name
        BY <1>1, <1>3, <3>1
      <3>2. CASE n # ask.name
        <4>1. overrides'[n] = overrides[n] /\ <<n, overrides[n]>> \in picks
          BY <1>3, <2>3, <3>2 DEF IInv, OverridesFit, WerePicked
        <4> QED
          BY <2>1, <4>1
      <3> QED
        BY <3>1, <3>2
    <2> QED
      BY <1>3, <2>2, <2>3 DEF OverridesFit, WerePicked
  <1>5. /\ r \in TurnRecords /\ r.pc = "actor" /\ r.who \in Actors /\ r.who # Nobody
        /\ r.pick = <<ask.name, p>> /\ \A n \in Names : r.overrides[n] = Nobody
    <2>1. /\ r.pc = "actor" /\ r.who = a /\ r.kind = "pick" /\ r.msg = ask.msg
          /\ r.pick = <<ask.name, p>> /\ r.overrides = NoOverrides
      BY DEF Idle
    <2>2. r \in TurnRecords
      <3>1. ask.msg \in Kept
        BY <1>2 DEF Asks
      <3> QED
        BY <1>2, <2>1, <3>1, IdleFits DEF Idle, TurnRecords
    <2>3. a # Nobody /\ \A n \in Names : NoOverrides[n] = Nobody
      BY DEF ChoiceAssumption, NoOverrides
    <2> QED
      BY <2>1, <2>2, <2>3
  <1> HIDE DEF r
  <1>6. ASSUME NEW s \in Turns
        PROVE  turn'[s] \in TurnRecords
               /\ (Placed(turn[s]) /\ WerePicked(turn[s].overrides) /\ Honoured(turn[s]))'
    <2>1. CASE s = t
      <3>1. turn'[s] = r
        BY <1>1, <2>1
      <3>2. turn'[s].pick = <<ask.name, p>> /\ turn'[s].pick \in Names \X People
        <4>1. turn'[s].pick = <<ask.name, p>> /\ ask.name \in Names
          BY <1>2, <1>5, <3>1
        <4> QED
          BY <4>1
      <3>3. overrides'[turn'[s].pick[1]] = turn'[s].pick[2]
        BY <1>3, <3>2
      <3>4. Placed(turn[s])' /\ Honoured(turn[s])'
        BY <1>5, <3>1, <3>2, <3>3 DEF Placed, Honoured
      <3>5. WerePicked(turn[s].overrides)'
        BY <1>5, <3>1 DEF WerePicked
      <3> QED
        BY <1>5, <3>1, <3>4, <3>5
    <2>2. CASE s # t
      <3> DEFINE q == turn[s]
                 stale == q.stale \/ q.who = a
                 disturbed == q.disturbed \/ q.pick[1] = ask.name
      <3>1. q \in TurnRecords /\ Placed(q) /\ WerePicked(q.overrides) /\ Honoured(q)
        BY DEF IInv, TurnsFit
      <3>2. turn'[s] = [q EXCEPT !.stale = stale, !.disturbed = disturbed]
        BY <1>1, <2>2
      <3>3. stale \in BOOLEAN /\ disturbed \in BOOLEAN
        BY <3>1 DEF TurnRecords
      <3> HIDE DEF stale
      <3>4. /\ turn'[s] \in TurnRecords
            /\ turn'[s].pc = q.pc /\ turn'[s].who = q.who /\ turn'[s].kind = q.kind
            /\ turn'[s].overrides = q.overrides /\ turn'[s].given = q.given
            /\ turn'[s].pick = q.pick
            /\ turn'[s].disturbed = disturbed
        <4> HIDE DEF q, disturbed
        <4>1. [q EXCEPT !.stale = stale, !.disturbed = disturbed] \in TurnRecords
          BY <3>1, <3>3 DEF TurnRecords
        <4> QED
          BY <3>1, <3>2, <4>1 DEF TurnRecords
      <3>5. WerePicked(turn[s].overrides)'
        <4>1. ASSUME NEW n \in Names, q.overrides[n] # Nobody
              PROVE  <<n, q.overrides[n]>> \in picks'
          <5>1. <<n, q.overrides[n]>> \in picks
            BY <3>1, <4>1 DEF WerePicked
          <5> QED
            BY <1>1, <5>1
        <4>2. turn'[s].overrides = q.overrides
          BY <3>4
        <4> QED
          BY <4>1, <4>2 DEF WerePicked
      <3>6. Placed(turn[s])'
        BY <3>1, <3>4 DEF Placed
      <3>7. Honoured(turn[s])'
        <4>1. SUFFICES ASSUME q.kind = "pick", ~disturbed
              PROVE  /\ q.pc = "actor" => overrides'[q.pick[1]] = q.pick[2]
                     /\ q.pc = "names" => q.overrides[q.pick[1]] = q.pick[2]
                     /\ q.pc = "model" => q.pick[2] \in q.given
          BY <3>4 DEF Honoured
        <4>2. q.pick \in Names \X People /\ q.pick[1] # ask.name /\ ~q.disturbed
          BY <3>1, <4>1 DEF Placed
        <4>3. q.pick[1] \in Names
          BY <4>2
        <4> QED
          BY <1>3, <3>1, <4>1, <4>2, <4>3 DEF Honoured
      <3> QED
        BY <3>4, <3>5, <3>6, <3>7
    <2> QED
      BY <2>1, <2>2
  <1>7. TurnsFit'
    BY <1>1, <1>6 DEF TurnsFit
  <1>8. StoredFits'
    <2>1. Nothing \in Asks /\ Nothing.op = "none" /\ Nothing.candidates = {}
      BY DEF Nothing, Asks, Kept
    <2> QED
      BY <1>1, <2>1 DEF IInv, StoredFits
  <1> QED
    BY <1>4, <1>7, <1>8 DEF IInv

LEMMA ActorFoundKeeps ==
    ASSUME ChoiceAssumption, IInv, NEW t \in Turns, ActorFound(t)
    PROVE  IInv'
  <1>1. /\ turn[t].pc = "actor"
        /\ UNCHANGED <<pending, overrides, draft, picks, artefacts>>
    BY DEF ActorFound, At
  <1>2. turn[t] \in TurnRecords /\ Fits(turn[t]) /\ turn[t].who \in Actors
    BY <1>1 DEF IInv, TurnsFit, TurnRecords, Fits, Placed
  <1>3. PICK dept \in {NoDept, GraphDept[turn[t].who]} :
           GoesOn(t, [turn[t] EXCEPT !.pc = "names", !.dept = dept, !.overrides = ReadsOverrides(t)])
    BY DEF ActorFound
  <1> DEFINE q == turn[t]
             o == ReadsOverrides(t)
             r == [q EXCEPT !.pc = "names", !.dept = dept, !.overrides = o]
  <1>4. o \in [Names -> Whom] /\ WerePicked(o)
    BY <1>2 DEF ReadsOverrides, IInv, OverridesFit, Fits, TurnRecords
  <1>5. q.kind = "pick" => o = overrides
    BY DEF ReadsOverrides
  <1> HIDE DEF o
  <1>6. dept \in {NoDept} \union {GraphDept[p] : p \in People}
    BY <1>2, <1>3 DEF ChoiceAssumption
  <1>7. /\ r \in TurnRecords
        /\ r.pc = "names" /\ r.who = q.who /\ r.kind = q.kind /\ r.overrides = o
        /\ r.pick = q.pick /\ r.disturbed = q.disturbed
    BY <1>2, <1>4, <1>6 DEF TurnRecords
  <1>8. Placed(r) /\ WerePicked(r.overrides)
    BY <1>1, <1>2, <1>4, <1>7 DEF Fits, Placed
  <1>9. Honoured(r)
    BY <1>1, <1>2, <1>5, <1>7 DEF Fits, Honoured
  <1>10. GoesOn(t, r)
    BY <1>3 DEF o
  <1> HIDE DEF r
  <1>11. TurnsFit'
    BY <1>1, <1>7, <1>8, <1>9, <1>10, GoesOnFits DEF IInv, Fits
  <1> QED
    BY <1>1, <1>11 DEF IInv, StoredFits, OverridesFit, WerePicked

LEMMA InterceptKeeps ==
    ASSUME ChoiceAssumption, IInv, NEW t \in Turns, Intercept(t)
    PROVE  IInv'
  <1>1. Ends(t) /\ UNCHANGED <<overrides, draft, picks, artefacts>> /\ At(t, "names")
    BY DEF Intercept
  <1>2. PICK found \in Lists : \E i \in Ambiguous(t, found) :
           LET name == turn[t].msg.names[i]
           IN  pending' = IF turn[t].stale THEN pending
                          ELSE [pending EXCEPT ![turn[t].who] =
                                  [op |-> "pick", name |-> name,
                                   candidates |-> ToSet(found[name]), msg |-> turn[t].msg]]
    BY DEF Intercept
  <1>3. PICK i \in Ambiguous(t, found) :
           LET name == turn[t].msg.names[i]
           IN  pending' = IF turn[t].stale THEN pending
                          ELSE [pending EXCEPT ![turn[t].who] =
                                  [op |-> "pick", name |-> name,
                                   candidates |-> ToSet(found[name]), msg |-> turn[t].msg]]
    BY <1>2
  <1> DEFINE name == turn[t].msg.names[i]
             ask == [op |-> "pick", name |-> name,
                     candidates |-> ToSet(found[name]), msg |-> turn[t].msg]
  <1>4. turn[t].msg \in Kept /\ turn[t].who \in Actors
    BY <1>1 DEF IInv, TurnsFit, TurnRecords, Placed, At
  <1>5. name \in Names /\ found[name] # << >>
    <2>1. turn[t].msg.names \in Seq(Names)
      BY <1>4, KeptMessages
    <2>2. i \in DOMAIN turn[t].msg.names /\ found[name] # << >>
      BY DEF Ambiguous
    <2> QED
      BY <2>1, <2>2
  <1> HIDE DEF name
  <1>6. ToSet(found[name]) \in SUBSET People /\ ToSet(found[name]) # {}
    <2>1. found[name] \in Searches[name]
      BY <1>5 DEF Lists
    <2>2. found[name] \in Seq(People)
      BY <1>5, <2>1 DEF ChoiceAssumption
    <2> DEFINE list == found[name]
    <2>3. list \in Seq(People) /\ 1 \in DOMAIN list
      BY <1>5, <2>2
    <2> HIDE DEF list
    <2>4. \A k \in DOMAIN list : list[k] \in People
      BY <2>3
    <2>5. ToSet(list) = {list[k] : k \in DOMAIN list}
      BY DEF ToSet
    <2>6. ToSet(list) \in SUBSET People /\ list[1] \in ToSet(list)
      BY <2>3, <2>4, <2>5
    <2> QED
      BY <2>6 DEF list
  <1>7. /\ ask \in Asks /\ ask.op = "pick" /\ ask.candidates # {} /\ ask.name \in Names
    BY <1>4, <1>5, <1>6 DEF Asks
  <1>8. pending' = IF turn[t].stale THEN pending ELSE [pending EXCEPT ![turn[t].who] = ask]
    BY <1>3 DEF name
  <1> HIDE DEF ask
  <1>9. StoredFits'
    BY <1>1, <1>4, <1>7, <1>8 DEF IInv, StoredFits
  <1> QED
    BY <1>1, <1>9, EndsFits DEF IInv, OverridesFit, WerePicked

LEMMA AskModelKeeps ==
    ASSUME ChoiceAssumption, IInv, NEW t \in Turns, AskModel(t)
    PROVE  IInv'
  <1>1. /\ turn[t].pc = "names"
        /\ UNCHANGED <<pending, overrides, draft, picks, artefacts>>
    BY DEF AskModel, At
  <1>2. PICK found \in Lists :
           GoesOn(t, [turn[t] EXCEPT !.pc = "model", !.given = Resolved(t, found),
                         !.msg = NoMessage, !.overrides = NoOverrides, !.dept = NoDept])
    BY DEF AskModel
  <1> DEFINE q == turn[t]
             given == Resolved(t, found)
             r == [q EXCEPT !.pc = "model", !.given = given,
                      !.msg = NoMessage, !.overrides = NoOverrides, !.dept = NoDept]
  <1>3. q \in TurnRecords /\ Placed(q) /\ Honoured(q)
    BY DEF IInv, TurnsFit
  <1>4. given \in SUBSET People
    BY ResolvedForAReason
  <1>5. NoOverrides \in [Names -> Whom] /\ WerePicked(NoOverrides)
    BY DEF NoOverrides, Whom, WerePicked
  <1>6. q.kind = "pick" /\ ~q.disturbed => q.pick[2] \in given
    <2> SUFFICES ASSUME q.kind = "pick", ~q.disturbed PROVE q.pick[2] \in given
      OBVIOUS
    <2>1. q.pick \in Names \X People /\ q.overrides[q.pick[1]] = q.pick[2]
      BY <1>1, <1>3 DEF Placed, Honoured
    <2>2. q.pick[1] \in Names /\ q.overrides[q.pick[1]] # Nobody
      BY <2>1 DEF ChoiceAssumption
    <2> QED
      BY <2>1, <2>2 DEF Resolved, ByOverride
  <1> HIDE DEF given
  <1>7. /\ r \in TurnRecords
        /\ r.pc = "model" /\ r.who = q.who /\ r.kind = q.kind /\ r.overrides = NoOverrides
        /\ r.pick = q.pick /\ r.disturbed = q.disturbed /\ r.given = given
    BY <1>3, <1>4, <1>5 DEF TurnRecords, Kept
  <1>8. Placed(r) /\ WerePicked(r.overrides) /\ Honoured(r)
    BY <1>1, <1>3, <1>5, <1>6, <1>7 DEF Placed, Honoured
  <1>9. GoesOn(t, r)
    BY <1>2 DEF given
  <1> HIDE DEF r
  <1>10. TurnsFit'
    BY <1>1, <1>7, <1>8, <1>9, GoesOnFits DEF IInv, Fits
  <1> QED
    BY <1>1, <1>10 DEF IInv, StoredFits, OverridesFit, WerePicked

---------------------------------------------------------------------------
(* The draft.                                                              *)

\* A draft is only made where the policy allows it, of somebody who is listed.
LEMMA DraftOfFits ==
    ASSUME ChoiceAssumption, artefacts \in Artefacts, NEW t \in Turns, turn[t].who \in Actors,
           NEW p \in People, MayDraft(t, p)
    PROVE  LET d == DraftOf(turn[t].who, p)
           IN  /\ d \in Drafted /\ d.state = "active"
               /\ d.by \in Actors /\ d.for \in People /\ d.dept # NoDept
  <1>1. profiles[p].listed
    BY DEF MayDraft, MayAssign, Listed
  <1>2. profiles[p].dept \in Depts /\ profiles[p].dept # NoDept
    BY <1>1 DEF ChoiceAssumption, Depts, profiles
  <1> QED
    BY <1>2 DEF DraftOf, Drafted, Whom

LEMMA CallCreateTaskKeeps ==
    ASSUME ChoiceAssumption, IInv, NEW t \in Turns, CallCreateTask(t)
    PROVE  IInv'
  <1>1. turn[t].pc = "model" /\ UNCHANGED <<turn, overrides, picks, artefacts>>
    BY DEF CallCreateTask, At
  <1>2. turn[t].who \in Actors
    BY <1>1 DEF IInv, TurnsFit, TurnRecords, Placed
  <1>3. /\ Nothing \in Asks /\ Nothing.op = "none" /\ Nothing.candidates = {}
        /\ [Nothing EXCEPT !.op = "create"] \in Asks
        /\ [Nothing EXCEPT !.op = "create"].op = "create"
        /\ [Nothing EXCEPT !.op = "create"].candidates = {}
    BY DEF Nothing, Asks, Kept
  <1>4. StoredFits'
    <2>1. CASE /\ \E p \in People : MayDraft(t, p) /\ draft' = DraftOf(turn[t].who, p)
               /\ pending' = [pending EXCEPT ![turn[t].who] = Nothing]
      <3>1. PICK p \in People : MayDraft(t, p) /\ draft' = DraftOf(turn[t].who, p)
        BY <2>1
      <3>2. /\ draft' \in Drafted /\ draft'.state = "active"
            /\ draft'.by \in Actors /\ draft'.for \in People /\ draft'.dept # NoDept
        BY <1>2, <3>1, DraftOfFits DEF IInv, StoredFits
      <3> QED
        BY <1>1, <1>3, <2>1, <3>2 DEF IInv, StoredFits
    <2>2. CASE /\ pending' = [pending EXCEPT ![turn[t].who] = [Nothing EXCEPT !.op = "create"]]
               /\ UNCHANGED draft
      BY <1>1, <1>3, <2>2 DEF IInv, StoredFits
    <2> QED
      BY <2>1, <2>2 DEF CallCreateTask
  <1>5. TurnsFit'
    BY <1>1 DEF IInv, TurnsFit, Placed, WerePicked, Honoured
  <1> QED
    BY <1>1, <1>4, <1>5 DEF IInv, OverridesFit, WerePicked

\* Whom an answer names, and why.
LEMMA AnsweredForAReason ==
    ASSUME ChoiceAssumption, IInv, NEW t \in Turns, Answered(t)
    PROVE  \/ UNCHANGED draft
           \/ \E p \in People :
                 /\ MayDraft(t, p) /\ draft' = DraftOf(turn[t].who, p)
                 /\ \/ p = turn[t].who
                    \/ WasMentioned(t, p) \/ WasPicked(p) \/ IsMeant(t, p)
  <1>1. PICK found \in Lists :
           \E p \in {turn[t].who} \union Resolved(t, found)
                    \union (IF Resolved(t, found) = {} THEN LookedUpAgain(t) ELSE {}) :
              draft' = IF MayDraft(t, p) THEN DraftOf(turn[t].who, p) ELSE draft
    BY DEF Answered
  <1>2. PICK p \in {turn[t].who} \union Resolved(t, found) \union LookedUpAgain(t) :
           draft' = IF MayDraft(t, p) THEN DraftOf(turn[t].who, p) ELSE draft
    BY <1>1
  <1>3. turn[t].who \in People
    BY DEF Answered, At, IInv, TurnsFit, TurnRecords, Placed, ChoiceAssumption
  <1>4. p \in People
    BY <1>2, <1>3, ResolvedForAReason, LookedUpForAReason
  <1>5. \/ p = turn[t].who
        \/ WasMentioned(t, p) \/ WasPicked(p) \/ IsMeant(t, p)
    BY <1>2, ResolvedForAReason, LookedUpForAReason
  <1> QED
    BY <1>2, <1>4, <1>5

LEMMA AnsweredKeeps ==
    ASSUME ChoiceAssumption, IInv, NEW t \in Turns, Answered(t)
    PROVE  IInv'
  <1>1. /\ turn[t].pc = "names" /\ Ends(t) /\ UNCHANGED <<overrides, picks, artefacts>>
        /\ pending' = [pending EXCEPT ![turn[t].who] = Nothing]
    BY DEF Answered, At
  <1>2. turn[t].who \in Actors
    BY <1>1 DEF IInv, TurnsFit, TurnRecords, Placed
  <1>3. Nothing \in Asks /\ Nothing.op = "none" /\ Nothing.candidates = {}
    BY DEF Nothing, Asks, Kept
  <1>4. \/ UNCHANGED draft
        \/ /\ draft' \in Drafted /\ draft'.state = "active"
           /\ draft'.by \in Actors /\ draft'.for \in People /\ draft'.dept # NoDept
    BY <1>2, AnsweredForAReason, DraftOfFits DEF IInv, StoredFits
  <1>5. StoredFits'
    BY <1>1, <1>2, <1>3, <1>4 DEF IInv, StoredFits
  <1> QED
    BY <1>1, <1>5, EndsFits DEF IInv, OverridesFit, WerePicked

LEMMA StillMissingKeeps ==
    ASSUME ChoiceAssumption, IInv, NEW t \in Turns, StillMissing(t)
    PROVE  IInv'
  <1>1. /\ turn[t].pc = "names" /\ Ends(t) /\ UNCHANGED <<overrides, draft, picks, artefacts>>
        /\ pending' = IF turn[t].stale THEN pending
                      ELSE [pending EXCEPT ![turn[t].who] = [Nothing EXCEPT !.op = "create"]]
    BY DEF StillMissing, At
  <1>2. /\ [Nothing EXCEPT !.op = "create"] \in Asks
        /\ [Nothing EXCEPT !.op = "create"].op = "create"
        /\ [Nothing EXCEPT !.op = "create"].candidates = {}
    BY DEF Nothing, Asks, Kept
  <1>3. turn[t].who \in Actors
    BY <1>1 DEF IInv, TurnsFit, TurnRecords, Placed
  <1>4. StoredFits'
    BY <1>1, <1>2, <1>3 DEF IInv, StoredFits
  <1> QED
    BY <1>1, <1>4, EndsFits DEF IInv, OverridesFit, WerePicked

LEMMA ReviseForMeKeeps ==
    ASSUME ChoiceAssumption, IInv, NEW a \in Actors, ReviseForMe(a)
    PROVE  IInv'
  <1>1. /\ turn' = [s \in Turns |-> [turn[s] EXCEPT !.stale = @ \/ turn[s].who = a]]
        /\ UNCHANGED <<pending, overrides, picks, artefacts>>
        /\ draft' = DraftOf(a, a) /\ profiles[a].listed
    BY DEF ReviseForMe, Overtakes, Listed
  <1>2. \A s \in Turns : Older(turn[s], turn'[s])
    BY <1>1 DEF Older
  <1>3. TurnsFit'
    BY <1>1, <1>2, TurnsMove DEF IInv
  <1>4. a \in People /\ profiles[a].dept \in Depts /\ profiles[a].dept # NoDept
    BY <1>1 DEF ChoiceAssumption, IInv, StoredFits, Depts, profiles
  <1>5. /\ draft' \in Drafted /\ draft'.state = "active"
        /\ draft'.by \in Actors /\ draft'.for \in People /\ draft'.dept # NoDept
    BY <1>1, <1>4 DEF DraftOf, Drafted, Whom
  <1>6. StoredFits'
    BY <1>1, <1>5 DEF IInv, StoredFits
  <1> QED
    BY <1>1, <1>3, <1>6 DEF IInv, OverridesFit, WerePicked

\* The steps of the draft alone.
LEMMA DraftStepsKeep ==
    ASSUME IInv, (\E a \in Actors : Confirm(a)) \/ CancelDraft
    PROVE  IInv'
  <1>1. draft' \in {Task, NoDraft} /\ UNCHANGED <<turn, pending, overrides, picks, artefacts>>
    BY DEF Confirm, CancelDraft
  <1>2. Task \in Drafted /\ NoDraft \in Drafted /\ Task.state = "task" /\ NoDraft.state = "none"
    BY DEF Task, NoDraft, Drafted, Whom
  <1>3. StoredFits'
    BY <1>1, <1>2 DEF IInv, StoredFits
  <1>4. TurnsFit'
    BY <1>1 DEF IInv, TurnsFit, Placed, WerePicked, Honoured
  <1> QED
    BY <1>1, <1>3, <1>4 DEF IInv, OverridesFit, WerePicked

---------------------------------------------------------------------------
(* The end of a turn.                                                      *)

LEMMA TurnEndsKeeps ==
    ASSUME ChoiceAssumption, IInv, NEW t \in Turns, TurnEnds(t)
    PROVE  IInv'
  <1>1. turn[t].pc = "model" /\ UNCHANGED <<pending, draft, artefacts>>
    BY DEF TurnEnds, At
  <1>2. StoredFits'
    BY <1>1 DEF IInv, StoredFits
  <1>3. CASE turn[t].kind # "pick"
    <2>1. Ends(t) /\ UNCHANGED <<overrides, picks>>
      BY <1>3 DEF TurnEnds
    <2>2. TurnsFit'
      BY <2>1, EndsFits DEF IInv
    <2> QED
      BY <1>2, <2>1, <2>2 DEF IInv, OverridesFit, WerePicked
  <1>4. CASE turn[t].kind = "pick"
    <2>1. /\ overrides' = NoOverrides
          /\ picks' = Held
          /\ turn' = [s \in Turns |-> IF s = t THEN Idle
                                      ELSE [turn[s] EXCEPT !.disturbed = (turn[s].kind = "pick")]]
      BY <1>4 DEF TurnEnds
    <2>2. OverridesFit'
      <3>1. overrides' \in [Names -> Whom] /\ \A n \in Names : overrides'[n] = Nobody
        BY <2>1 DEF NoOverrides, Whom
      <3>2. picks' \subseteq Names \X People
        BY <2>1 DEF Held, IInv, OverridesFit
      <3> QED
        BY <3>1, <3>2 DEF OverridesFit, WerePicked
    <2>3. ASSUME NEW s \in Turns
          PROVE  turn'[s] \in TurnRecords
                 /\ (Placed(turn[s]) /\ WerePicked(turn[s].overrides) /\ Honoured(turn[s]))'
      <3>1. CASE s = t
        <4>1. turn'[s] = Idle
          BY <2>1, <3>1
        <4>2. /\ Idle \in TurnRecords /\ Idle.pc = "idle" /\ Idle.who = Nobody
              /\ Idle.kind = "message" /\ \A n \in Names : Idle.overrides[n] = Nobody
          BY IdleFits DEF Idle, NoOverrides
        <4> QED
          BY <4>1, <4>2 DEF Placed, WerePicked, Honoured
      <3>2. CASE s # t
        <4> DEFINE q == turn[s]
                   disturbed == (q.kind = "pick")
        <4>1. q \in TurnRecords /\ Placed(q) /\ WerePicked(q.overrides)
          BY DEF IInv, TurnsFit
        <4>2. turn'[s] = [q EXCEPT !.disturbed = disturbed]
          BY <2>1, <3>2
        <4>3. /\ turn'[s] \in TurnRecords
              /\ turn'[s].pc = q.pc /\ turn'[s].who = q.who /\ turn'[s].kind = q.kind
              /\ turn'[s].overrides = q.overrides /\ turn'[s].pick = q.pick
              /\ turn'[s].disturbed = disturbed
          BY <4>1, <4>2 DEF TurnRecords
        <4>4. Placed(turn[s])' /\ Honoured(turn[s])'
          BY <4>1, <4>3 DEF Placed, Honoured
        <4>5. WerePicked(turn[s].overrides)'
          <5>1. ASSUME NEW n \in Names, q.overrides[n] # Nobody
                PROVE  <<n, q.overrides[n]>> \in picks'
            <6>1. <<n, q.overrides[n]>> \in picks
              BY <4>1, <5>1 DEF WerePicked
            <6> QED
              BY <2>1, <6>1 DEF Held
          <5>2. turn'[s].overrides = q.overrides
            BY <4>3
          <5> QED
            BY <5>1, <5>2 DEF WerePicked
        <4> QED
          BY <4>3, <4>4, <4>5
      <3> QED
        BY <3>1, <3>2
    <2>4. TurnsFit'
      BY <2>1, <2>3 DEF TurnsFit
    <2> QED
      BY <1>2, <2>2, <2>4 DEF IInv
  <1> QED
    BY <1>3, <1>4

LEMMA BreaksKeeps ==
    ASSUME ChoiceAssumption, IInv, NEW t \in Turns, Breaks(t)
    PROVE  IInv'
  <1>1. Ends(t) /\ UNCHANGED <<pending, overrides, draft, picks, artefacts>>
    BY DEF Breaks
  <1> QED
    BY <1>1, EndsFits DEF IInv, StoredFits, OverridesFit, WerePicked

\* With no turn under way and nothing picked.
LEMMA AllIdle ==
    ASSUME ChoiceAssumption, turn = [t \in Turns |-> Idle], overrides = NoOverrides, picks = {}
    PROVE  TurnsFit /\ OverridesFit
  <1>1. \A t \in Turns : turn[t] = Idle
    OBVIOUS
  <1>2. Idle \in TurnRecords /\ Placed(Idle) /\ WerePicked(Idle.overrides) /\ Honoured(Idle)
    BY IdleFits DEF Fits
  <1>3. TurnsFit
    BY <1>1, <1>2 DEF TurnsFit
  <1>4. OverridesFit
    BY DEF OverridesFit, NoOverrides, WerePicked, Whom
  <1> QED
    BY <1>3, <1>4

LEMMA RestartKeeps == ChoiceAssumption /\ IInv /\ Restart => IInv'
  <1> SUFFICES ASSUME ChoiceAssumption, IInv, Restart PROVE IInv'
    OBVIOUS
  <1>1. StoredFits'
    BY DEF Restart, IInv, StoredFits
  <1>2. TurnsFit' /\ OverridesFit'
    <2>1. /\ turn' = [t \in Turns |-> Idle]
          /\ overrides' = NoOverrides /\ picks' = {}
      BY DEF Restart
    <2>2. Idle \in TurnRecords /\ Idle.pc = "idle" /\ Idle.who = Nobody
          /\ Idle.kind = "message" /\ Idle.overrides = NoOverrides
      BY IdleFits DEF Idle
    <2>3. NoOverrides \in [Names -> Whom] /\ \A n \in Names : NoOverrides[n] = Nobody
      BY DEF NoOverrides, Whom
    <2>4. \A t \in Turns : turn'[t] = Idle
      BY <2>1
    <2>5. TurnsFit'
      BY <2>1, <2>2, <2>3, <2>4 DEF TurnsFit, Placed, WerePicked, Honoured
    <2>6. OverridesFit'
      BY <2>1, <2>3 DEF OverridesFit, WerePicked
    <2> QED
      BY <2>5, <2>6
  <1> QED
    BY <1>1, <1>2 DEF IInv

LEMMA InitFits == ChoiceAssumption /\ Init => IInv
  <1> SUFFICES ASSUME ChoiceAssumption, Init PROVE IInv
    OBVIOUS
  <1>1. TurnsFit /\ OverridesFit
    BY AllIdle DEF Init
  <1>2. Nothing \in Asks /\ Nothing.op = "none" /\ Nothing.candidates = {}
    BY DEF Nothing, Asks, Kept
  <1>3. NoDraft \in Drafted /\ NoDraft.state = "none"
    BY DEF NoDraft, Drafted, Whom
  <1>4. StoredFits
    BY <1>2, <1>3 DEF Init, StoredFits
  <1> QED
    BY <1>1, <1>4 DEF IInv

LEMMA StepKeeps == ChoiceAssumption /\ IInv /\ [Next]_vars => IInv'
  <1> SUFFICES ASSUME ChoiceAssumption, IInv, [Next]_vars PROVE IInv'
    OBVIOUS
  <1>1. CASE UNCHANGED vars
    BY <1>1 DEF vars, IInv, StoredFits, TurnsFit, OverridesFit, Placed, WerePicked, Honoured
  <1>2. ASSUME NEW t \in Turns, NEW a \in Actors, NEW m \in Messages, Hear(t, a, m) PROVE IInv'
    BY <1>2, HearKeeps
  <1>3. ASSUME NEW t \in Turns, NEW a \in Actors, NEW p \in People, Pick(t, a, p) PROVE IInv'
    BY <1>3, PickKeeps
  <1>4. ASSUME NEW t \in Turns, ActorFound(t) \/ Intercept(t) \/ AskModel(t) PROVE IInv'
    BY <1>4, ActorFoundKeeps, InterceptKeeps, AskModelKeeps
  <1>5. ASSUME NEW t \in Turns, CallCreateTask(t) \/ Answered(t) \/ StillMissing(t) PROVE IInv'
    BY <1>5, CallCreateTaskKeeps, AnsweredKeeps, StillMissingKeeps
  <1>6. ASSUME NEW t \in Turns, TurnEnds(t) \/ Breaks(t) PROVE IInv'
    BY <1>6, TurnEndsKeeps, BreaksKeeps
  <1>7. ASSUME NEW a \in Actors, OtherEvent(a) \/ ReviseForMe(a) \/ Confirm(a) PROVE IInv'
    BY <1>7, OtherEventKeeps, ReviseForMeKeeps, DraftStepsKeep
  <1>8. CASE CancelDraft \/ Restart
    BY <1>8, DraftStepsKeep, RestartKeeps
  <1> QED
    BY <1>1, <1>2, <1>3, <1>4, <1>5, <1>6, <1>7, <1>8 DEF Next

---------------------------------------------------------------------------
(* The theorems.                                                           *)

\* The invariant above holds in every state that an execution reaches.
THEOREM Invariant ==
    ASSUME ChoiceAssumption
    PROVE  Spec => []IInv
  BY InitFits, StepKeeps, PTL DEF Spec

\* The type invariant.
THEOREM TypeCorrect ==
    ASSUME ChoiceAssumption
    PROVE  Spec => []TypeOK
  BY Invariant, IInvTypes, PTL

\* The turn of a pick is given the person that was picked, whatever the other
\* turns do while the directory is asked (pick_assignee, set_mention_override).
THEOREM PicksAlwaysHonoured ==
    ASSUME ChoiceAssumption
    PROVE  Spec => []PickIsHonoured
  BY Invariant, IInvHonours, PTL

\* Only the turn itself, or a restart, ends its resolving of names, and what
\* it settles on is there for a reason.
LEMMA SettlesForAReason ==
    ASSUME ChoiceAssumption, IInv, Next, NEW t \in Turns, At(t, "names"), ~At(t, "names")',
           NEW p \in SettlesOn(t)
    PROVE  \/ WasMentioned(t, p) \/ WasPicked(p) \/ IsMeant(t, p)
           \/ (turn[t].kind = "answer" /\ p = turn[t].who)
  <1>1. turn[t] \in TurnRecords /\ turn[t].pc = "names" /\ turn'[t].pc # "names"
        /\ turn \in [Turns -> TurnRecords]
    BY DEF At, IInv, TurnsFit
  <1>2. \/ turn'[t].pc = "model" /\ p \in turn'[t].given
        \/ turn'[t].pc # "model" /\ draft' # draft /\ p = draft'.for
    BY DEF SettlesOn
  <1>3. ASSUME NEW s \in Turns, NEW a \in Actors, NEW m \in Messages, Hear(s, a, m) PROVE FALSE
    <2>1. s # t
      BY <1>1, <1>3 DEF Hear, At
    <2>2. turn'[t] = [turn[t] EXCEPT !.stale = @ \/ turn[t].who = a]
      BY <1>3, <2>1 DEF Hear, Begins
    <2> QED
      BY <1>1, <2>2 DEF TurnRecords
  <1>4. ASSUME NEW s \in Turns, NEW a \in Actors, NEW q \in People, Pick(s, a, q) PROVE FALSE
    <2>1. s # t
      BY <1>1, <1>4 DEF Pick, At
    <2>2. \E b, d : turn'[t] = [turn[t] EXCEPT !.stale = b, !.disturbed = d]
      BY <1>4, <2>1 DEF Pick
    <2> QED
      BY <1>1, <2>2 DEF TurnRecords
  <1>5. ASSUME NEW s \in Turns, NEW r, GoesOn(s, r) PROVE s = t
    BY <1>1, <1>5 DEF GoesOn
  <1>6. Idle.pc = "idle"
    BY DEF Idle
  <1>7. ASSUME NEW s \in Turns, ActorFound(s) PROVE FALSE
    <2>1. s = t
      BY <1>5, <1>7 DEF ActorFound
    <2> QED
      BY <1>1, <1>7, <2>1 DEF ActorFound, At
  <1>8. ASSUME NEW s \in Turns, Ends(s), UNCHANGED draft PROVE FALSE
    <2>1. s = t
      BY <1>5, <1>8 DEF Ends
    <2>2. turn'[t] = Idle
      BY <1>1, <1>8, <2>1 DEF Ends, GoesOn
    <2> QED
      BY <1>2, <1>6, <1>8, <2>2
  <1>9. ASSUME NEW s \in Turns, AskModel(s)
        PROVE  WasMentioned(t, p) \/ WasPicked(p) \/ IsMeant(t, p)
    <2>1. s = t /\ UNCHANGED draft
      BY <1>5, <1>9 DEF AskModel
    <2>2. PICK found \in Lists :
             GoesOn(t, [turn[t] EXCEPT !.pc = "model", !.given = Resolved(t, found),
                           !.msg = NoMessage, !.overrides = NoOverrides, !.dept = NoDept])
      BY <1>9, <2>1 DEF AskModel
    <2>3. turn'[t].given = Resolved(t, found)
      BY <1>1, <2>2 DEF GoesOn, TurnRecords
    <2>4. p \in Resolved(t, found)
      BY <1>2, <2>1, <2>3
    <2> QED
      BY <2>4, ResolvedForAReason
  <1>10. ASSUME NEW s \in Turns, Answered(s)
         PROVE  \/ WasMentioned(t, p) \/ WasPicked(p) \/ IsMeant(t, p)
                \/ (turn[t].kind = "answer" /\ p = turn[t].who)
    <2>1. s = t
      BY <1>5, <1>10 DEF Answered, Ends
    <2>2. turn'[t] = Idle
      BY <1>1, <1>10, <2>1 DEF Answered, Ends, GoesOn
    <2>3. draft' # draft /\ p = draft'.for
      BY <1>2, <1>6, <2>2
    <2>4. PICK q \in People :
             /\ draft' = DraftOf(turn[t].who, q)
             /\ q = turn[t].who \/ WasMentioned(t, q) \/ WasPicked(q) \/ IsMeant(t, q)
      BY <1>10, <2>1, <2>3, AnsweredForAReason
    <2>5. p = q
      BY <2>3, <2>4 DEF DraftOf
    <2>6. turn[t].kind = "answer"
      BY <1>10, <2>1 DEF Answered
    <2> QED
      BY <2>4, <2>5, <2>6
  <1>11. ASSUME NEW s \in Turns, TurnEnds(s) PROVE FALSE
    <2>1. s # t /\ UNCHANGED draft
      BY <1>1, <1>11 DEF TurnEnds, At
    <2>2. ~Ends(s)
      BY <1>8, <2>1
    <2>3. turn'[t] = [turn[t] EXCEPT !.disturbed = (turn[t].kind = "pick")]
      BY <1>11, <2>1, <2>2 DEF TurnEnds
    <2> QED
      BY <1>1, <2>3 DEF TurnRecords
  <1>12. ASSUME NEW a \in Actors, OtherEvent(a) \/ ReviseForMe(a) PROVE FALSE
    <2>1. turn'[t] = [turn[t] EXCEPT !.stale = @ \/ turn[t].who = a]
      BY <1>12 DEF OtherEvent, ReviseForMe, Overtakes
    <2> QED
      BY <1>1, <2>1 DEF TurnRecords
  <1>13. CASE UNCHANGED turn
    BY <1>1, <1>13
  <1>14. CASE Restart
    <2>1. turn'[t] = Idle /\ UNCHANGED draft
      BY <1>14 DEF Restart
    <2> QED
      BY <1>2, <1>6, <2>1
  <1>15. ASSUME NEW s \in Turns, Intercept(s) \/ StillMissing(s) \/ Breaks(s) PROVE FALSE
    BY <1>8, <1>15 DEF Intercept, StillMissing, Breaks
  <1>16. ASSUME NEW s \in Turns, CallCreateTask(s) PROVE UNCHANGED turn
    BY <1>16 DEF CallCreateTask
  <1>17. ASSUME NEW a \in Actors, Confirm(a) PROVE UNCHANGED turn
    BY <1>17 DEF Confirm
  <1>18. CancelDraft => UNCHANGED turn
    BY DEF CancelDraft
  <1> QED
    BY <1>3, <1>4, <1>7, <1>9, <1>10, <1>11, <1>12, <1>13, <1>14, <1>15, <1>16, <1>17, <1>18
       DEF Next

\* Nobody is guessed: who reaches the model, or the draft of an answer, was
\* mentioned, picked from a card that the turn could have read, or is the clear
\* winner of a search, whatever the directory lists (resolve_mentions_structured).
THEOREM NobodyIsEverGuessed ==
    ASSUME ChoiceAssumption
    PROVE  Spec => NobodyIsGuessed
  <1> DEFINE Step == \A t \in Turns : At(t, "names") /\ ~At(t, "names")' => \A p \in SettlesOn(t) :
                WasMentioned(t, p) \/ WasPicked(p) \/ IsMeant(t, p)
                \/ (turn[t].kind = "answer" /\ p = turn[t].who)
  <1>1. IInv /\ [Next]_vars => [Step]_vars
    <2> SUFFICES ASSUME IInv, [Next]_vars PROVE Step \/ UNCHANGED vars
      OBVIOUS
    <2> QED
      BY SettlesForAReason
  <1>2. [][Step]_vars => NobodyIsGuessed
    BY PTL DEF NobodyIsGuessed
  <1> HIDE DEF Step
  <1> QED
    BY <1>1, <1>2, Invariant, PTL DEF Spec

\* A task is made only where directory and policy in force allow it, whatever
\* they said when the draft was made (DraftUseCases.confirm).
THEOREM TasksAlwaysAllowed == Spec => TasksAreAllowed
  <1> DEFINE Allowed ==
        draft.state = "active" /\ draft'.state = "task" =>
        LET r == draft.by
            a == draft.for
            joins(edge) ==
                \/ Matches(edge.from, profiles, r) /\ Matches(edge.to, profiles, a)
                \/ edge.both /\ Matches(edge.from, profiles, a) /\ Matches(edge.to, profiles, r)
        IN  /\ \A p \in {r, a} : profiles[p].listed /\ profiles[p].active
            /\ draft.dept = profiles[a].dept
            /\ ~\E edge \in rules.deny : joins(edge)
            /\ \/ rules.same /\ profiles[r].dept = profiles[a].dept
               \/ rules.cross /\ profiles[r].dept # profiles[a].dept
               \/ rules.ceo /\ profiles[a].manager = r /\ profiles[r].dept = CeoDept
               \/ \E edge \in rules.edges : joins(edge)
  <1>1. [Next]_vars => [Allowed]_vars
    <2> SUFFICES ASSUME Next, draft.state = "active", draft'.state = "task" PROVE Allowed
      OBVIOUS
    <2>1. ASSUME NEW a \in Actors, Confirm(a) PROVE Allowed
      <3>1. draft.by = a /\ DepartmentMatches(profiles, draft.for, draft.dept)
            /\ MayAssign(rules, profiles, draft.by, draft.for)
        BY <2>1 DEF Confirm
      <3> QED
        BY <3>1 DEF DepartmentMatches, MayAssign, Listed, CanAssign, EdgeApplies,
                    CeoMayAssignDirectReport
    <2>2. draft' # draft
      OBVIOUS
    <2>3. ASSUME NEW t \in Turns, CallCreateTask(t) \/ Answered(t) PROVE FALSE
      <3>1. \A a, p : DraftOf(a, p).state = "active"
        BY DEF DraftOf
      <3>2. UNCHANGED draft \/ \E p : draft' = DraftOf(turn[t].who, p)
        BY <2>3 DEF CallCreateTask, Answered
      <3> QED
        BY <2>2, <3>1, <3>2
    <2>4. ~CancelDraft
      BY DEF CancelDraft, NoDraft
    <2>5. ASSUME NEW a \in Actors
          PROVE  /\ ~OtherEvent(a)
                 /\ \A t \in Turns, m \in Messages : ~Hear(t, a, m)
                 /\ \A t \in Turns, p \in People : ~Pick(t, a, p)
      BY <2>2 DEF Hear, OtherEvent, Pick
    <2>6. ASSUME NEW t \in Turns
          PROVE  ~ActorFound(t) /\ ~Intercept(t) /\ ~AskModel(t) /\ ~StillMissing(t)
                 /\ ~TurnEnds(t) /\ ~Breaks(t)
      BY <2>2 DEF ActorFound, Intercept, AskModel, StillMissing, TurnEnds, Breaks
    <2>7. ~Restart
      BY <2>2 DEF Restart
    <2>8. ASSUME NEW a \in Actors PROVE ~ReviseForMe(a)
      BY DEF ReviseForMe, DraftOf
    <2> QED
      BY <2>1, <2>3, <2>4, <2>5, <2>6, <2>7, <2>8 DEF Next
  <1>2. [][Allowed]_vars => TasksAreAllowed
    BY PTL DEF TasksAreAllowed
  <1> HIDE DEF Allowed
  <1> QED
    BY <1>1, <1>2, PTL DEF Spec

---------------------------------------------------------------------------
(* The pure algorithms, on whatever lists the directory and the            *)
(* conversation may present.                                               *)

\* However many candidates a search presents and in whatever order, the ranking
\* gives a name to the clear winner, or to nobody (rank_and_pick_candidates).
THEOREM PicksAlwaysIgnoreOrder ==
    ASSUME RankingAssumption
    PROVE  Spec => []PickIgnoresOrder
  <1>1. PickIgnoresOrder
    <2> SUFFICES ASSUME NEW n \in 0..MaxFound, NEW kinds \in [1..n -> Kinds],
                        NEW order \in NameOrders, NEW asker \in Askers
                 PROVE  PicksTheClearWinner(Found(kinds, order), asker)
      BY DEF PickIgnoresOrder
    <2> DEFINE cands == Found(kinds, order)
               people == {cands[i] : i \in 1..n}
    <2>1. /\ n \in Nat /\ DOMAIN cands = 1..n
          /\ cands \in [1..n -> people]
          /\ \A i \in 1..n : cands[i].id = i /\ cands[i].name = order[i]
      BY DEF RankingAssumption, Found
    <2>2. \A i \in 1..n : order[i] \in Nat
      BY DEF RankingAssumption
    <2> HIDE DEF cands, people
    <2>3. cands \in Seq(people)
      BY <2>1
    <2>4. \A i, j \in DOMAIN cands : cands[i] = cands[j] => i = j
      BY <2>1
    <2>5. PicksTheClearWinner(cands, asker)
      BY <2>1, <2>2, <2>3, <2>4, TheClearWinnerIsPicked
    <2> QED
      BY <2>5 DEF cands
  <1> QED
    BY <1>1, PTL

\* Whatever conversation has been kept and whatever limits are set, the model
\* is given the newest turns that fit (trim_messages).
THEOREM TrimmingAlwaysKeepsTheNewest ==
    ASSUME ConversationsAssumption
    PROVE  Spec => []TrimKeepsTheNewest
  <1>1. TrimKeepsTheNewest
    <2> SUFFICES ASSUME NEW ms \in Conversations, NEW limit \in Limits
                 PROVE  KeepsTheNewestThatFit(
                            ms, Trimmed(ms, limit.turns, limit.result, limit.chars),
                            limit.turns, limit.result, limit.chars)
      BY DEF TrimKeepsTheNewest
    <2>1. /\ ms \in Seq(Memories)
          /\ limit.turns \in Nat /\ limit.result \in Nat /\ limit.chars \in Nat
      BY DEF ConversationsAssumption
    <2> QED
      BY <2>1, TheNewestAreKept
  <1> QED
    BY <1>1, PTL
=============================================================================
