---------------------- MODULE DraftConfirmation_proofs ----------------------
(***************************************************************************)
(* Proofs about DraftConfirmation for any people, drafts and processes,    *)
(* any number of requests and either kind of database.                     *)
(***************************************************************************)
EXTENDS DraftConfirmation, TLAPS

---------------------------------------------------------------------------
(* The inductive invariant.                                                *)

Claims == {"count", "number", "insert"}

\* A request that has claimed its draft has the lock of it until it ends, so
\* nobody else has written the draft since (take_draft_in_session).
ClaimsHold ==
    \A l \in Loops : req[l].pc \in Claims =>
       /\ holder[LockOf(Target(l))] = l
       /\ draft[Target(l)].state = "ACTIVE"

\* The number a request has worked out may be taken by now, but it is not
\* beyond the next one: the counter never goes back (next_sequence).
NumbersFit ==
    \A l \in Loops : req[l].pc \in {"number", "insert"} => req[l].seq \in 1..(counter + 1)

\* A draft that has become a task is never active again.
TasksEndDrafts == \A t \in tasks : draft[t.draft].state \in {"CONSUMED", "CANCELLED"}

\* As long as no two processes served at once, what a cancellation has read
\* is still so when it writes (discard_draft).
OneAtATime ==
    ~overlapped => \A k, l \in Loops : req[k] # NoRequest /\ req[l] # NoRequest => k = l
DiscardsAreFresh ==
    ~overlapped => \A l \in Loops : At(l, "discard") => draft[Target(l)].state = "ACTIVE"

\* A draft whose requester was told that it is cancelled stays so.
CancelledForGood ==
    \A a \in answers : a.code = "DRAFT_CANCELLED" => draft[a.draft].state = "CANCELLED"

\* A request that lets an expired draft lapse has found no active one.
LapsesEnd ==
    \A l \in Loops : At(l, "lapse") => req[l].after \in {"completed", "expired"}

Strength == /\ LapsesEnd /\ ClaimsHold /\ NumbersFit /\ TasksEndDrafts
            /\ OneAtATime /\ DiscardsAreFresh /\ CancelledForGood
Safety == OneTaskPerDraft /\ DraftNamesItsTask /\ NumbersAreDense /\ AnswersAreTrue
IInv == TypeOK /\ Strength /\ Safety

---------------------------------------------------------------------------
(* The locks.                                                              *)

\* What a request writes is locked under some resource.
LEMMA LocksAreResources ==
    /\ \A d \in Drafts : LockOf(d) \in Resources
    /\ LockOf("counter") \in Resources
  BY DEF LockOf, Resources

\* A request is something.
LEMMA RequestsAreRequests == \A q \in Requests : q # NoRequest
  BY DEF Requests, NoRequest, Pcs

\* A request that is served has a draft, a requester and a number.
LEMMA Served ==
    ASSUME TypeOK, NEW l \in Loops, req[l].pc # "idle"
    PROVE  req[l] \in Requests /\ req[l] # NoRequest
  BY RequestsAreRequests DEF TypeOK, NoRequest

\* No two processes have the lock of the draft of one of them.
LEMMA ClaimsExclude ==
    ASSUME TypeOK, ClaimsHold, NEW k \in Loops, NEW l \in Loops, k # l,
           req[k].pc \in Claims, Target(k) = Target(l)
    PROVE  req[l].pc \notin Claims /\ ~Free(l, Target(l))
  <1>1. holder[LockOf(Target(l))] = k
    BY DEF ClaimsHold
  <1>2. k # Nobody
    BY DraftAssumption
  <1> QED
    BY <1>1, <1>2 DEF ClaimsHold, Free

\* The end of a transaction takes nobody else's lock away.
LEMMA ReleaseKeepsOthers ==
    ASSUME TypeOK, NEW l \in Loops, ReleaseAll(l)
    PROVE  /\ holder' \in [Resources -> Loops \union {Nobody}]
           /\ \A res \in Resources, k \in Loops \ {l} : holder[res] = k => holder'[res] = k
  BY DEF TypeOK, ReleaseAll

\* A lock that is taken was free.
LEMMA AcquireKeepsOthers ==
    ASSUME TypeOK, NEW l \in Loops, NEW r, LockOf(r) \in Resources,
           Free(l, r), Acquire(l, r)
    PROVE  /\ holder' \in [Resources -> Loops \union {Nobody}]
           /\ holder'[LockOf(r)] = l
           /\ \A res \in Resources, k \in Loops : holder[res] = k => holder'[res] = k
  BY DraftAssumption DEF TypeOK, Free, Acquire

---------------------------------------------------------------------------
(* The steps of a request that write no row.                               *)

\* A request goes on: it may have taken a lock, and what it does next is
\* founded on the rows as they are.
LEMMA MoveInv ==
    ASSUME IInv, NEW l \in Loops, req[l] \in Requests, NEW r \in Requests,
           req' = [req EXCEPT ![l] = r], r.draft = req[l].draft,
           UNCHANGED <<draft, stale, counter, tasks, answers, served, overlapped>>,
           holder' \in [Resources -> Loops \union {Nobody}],
           \A res \in Resources, k \in Loops : holder[res] = k => holder'[res] = k,
           r.pc \in Claims => /\ holder'[LockOf(r.draft)] = l
                              /\ draft[r.draft].state = "ACTIVE",
           r.pc \in {"number", "insert"} => r.seq \in 1..(counter + 1),
           r.pc = "discard" => draft[r.draft].state = "ACTIVE",
           r.pc = "lapse" => r.after \in {"completed", "expired"}
    PROVE  IInv'
  <1> USE DEF IInv
  <1>1. /\ req'[l] = r
        /\ \A k \in Loops \ {l} : req'[k] = req[k]
        /\ \A k \in Loops : req'[k] # NoRequest => req[k] # NoRequest
    BY RequestsAreRequests DEF TypeOK
  <1>2. TypeOK'
    BY DEF TypeOK
  <1>3. ClaimsHold'
    <2> SUFFICES ASSUME NEW k \in Loops, req'[k].pc \in Claims
                 PROVE  /\ holder'[LockOf(req'[k].draft)] = k
                        /\ draft[req'[k].draft].state = "ACTIVE"
      BY DEF ClaimsHold, Target
    <2>1. CASE k = l
      BY <1>1, <2>1
    <2>2. CASE k # l
      <3>1. /\ holder[LockOf(req[k].draft)] = k
            /\ draft[req[k].draft].state = "ACTIVE"
        BY <1>1, <2>2 DEF Strength, ClaimsHold, Target
      <3>2. LockOf(req[k].draft) \in Resources
        BY <1>1, <2>2, Served, LocksAreResources DEF Claims, Requests
      <3> QED
        BY <1>1, <2>2, <3>1, <3>2
    <2> QED
      BY <2>1, <2>2
  <1>4. NumbersFit'
    BY <1>1 DEF Strength, NumbersFit
  <1>5. TasksEndDrafts' /\ CancelledForGood' /\ OneAtATime'
    BY <1>1 DEF Strength, TasksEndDrafts, CancelledForGood, OneAtATime
  <1>6. DiscardsAreFresh'
    BY <1>1 DEF Strength, DiscardsAreFresh, At, Target
  <1>8. LapsesEnd'
    BY <1>1 DEF Strength, LapsesEnd, At
  <1>7. Safety'
    BY DEF Safety, OneTaskPerDraft, DraftNamesItsTask, NumbersAreDense, AnswersAreTrue
  <1> QED
    BY <1>2, <1>3, <1>4, <1>5, <1>6, <1>7, <1>8 DEF Strength

\* The locks of the others, what they have claimed and what they have read
\* outlast the end of a request.
LEMMA AnswerKeepsOthers ==
    ASSUME TypeOK, ClaimsHold, NEW l \in Loops, NEW code \in Codes, NEW task \in Nat,
           req[l] \in Requests, Answer(l, code, task)
    PROVE  /\ req' \in [Loops -> Requests \union {NoRequest}]
           /\ req'[l] = NoRequest
           /\ \A k \in Loops \ {l} : req'[k] = req[k]
           /\ holder' \in [Resources -> Loops \union {Nobody}]
           /\ \A k \in Loops : req'[k].pc \in Claims =>
                 /\ k # l
                 /\ holder'[LockOf(req'[k].draft)] = k
                 /\ draft[req'[k].draft].state = "ACTIVE"
           /\ answers' \in SUBSET [draft : Drafts, code : Codes, task : Nat]
  <1>1. /\ req' \in [Loops -> Requests \union {NoRequest}]
        /\ req'[l] = NoRequest
        /\ \A k \in Loops \ {l} : req'[k] = req[k]
    BY DEF TypeOK, Answer
  <1>2. ASSUME NEW k \in Loops, req'[k].pc \in Claims
        PROVE  /\ k # l
               /\ holder'[LockOf(req'[k].draft)] = k
               /\ draft[req'[k].draft].state = "ACTIVE"
    <2>1. k # l
      BY <1>1, <1>2 DEF NoRequest, Claims
    <2>2. /\ holder[LockOf(req[k].draft)] = k
          /\ draft[req[k].draft].state = "ACTIVE"
      BY <1>1, <1>2, <2>1 DEF ClaimsHold, Target
    <2>3. LockOf(req[k].draft) \in Resources
      BY <1>1, <1>2, <2>1, Served, LocksAreResources DEF Claims, Requests
    <2> QED
      BY <1>1, <2>1, <2>2, <2>3, ReleaseKeepsOthers DEF Answer
  <1>3. answers' \in SUBSET [draft : Drafts, code : Codes, task : Nat]
    BY DEF TypeOK, Answer, Target, Requests
  <1> QED
    BY <1>1, <1>2, <1>3, ReleaseKeepsOthers DEF Answer

\* A request is answered without having written a row: whoever is told of a
\* task is told of one that is there, and a cancellation writes.
LEMMA AnswerInv ==
    ASSUME IInv, NEW l \in Loops, req[l] \in Requests,
           NEW code \in Codes, NEW task \in Nat, Answer(l, code, task),
           UNCHANGED <<draft, stale, counter, tasks, served, overlapped>>,
           code = "TASK_CREATED" => [id |-> task, draft |-> Target(l)] \in tasks,
           code # "DRAFT_CANCELLED"
    PROVE  IInv'
  <1> USE DEF IInv
  <1>1. /\ req' \in [Loops -> Requests \union {NoRequest}]
        /\ req'[l] = NoRequest
        /\ \A k \in Loops \ {l} : req'[k] = req[k]
        /\ holder' \in [Resources -> Loops \union {Nobody}]
        /\ \A k \in Loops : req'[k].pc \in Claims =>
              /\ k # l
              /\ holder'[LockOf(req'[k].draft)] = k
              /\ draft[req'[k].draft].state = "ACTIVE"
        /\ answers' \in SUBSET [draft : Drafts, code : Codes, task : Nat]
    BY AnswerKeepsOthers DEF Strength
  <1>2. TypeOK'
    BY <1>1 DEF TypeOK
  <1>3. ClaimsHold'
    BY <1>1 DEF ClaimsHold, Target
  <1>4. NumbersFit' /\ OneAtATime' /\ DiscardsAreFresh' /\ LapsesEnd'
    BY <1>1 DEF Strength, LapsesEnd, NumbersFit, OneAtATime, DiscardsAreFresh, At, Target, NoRequest
  <1>5. TasksEndDrafts' /\ CancelledForGood'
    BY DEF Strength, TasksEndDrafts, CancelledForGood, Answer
  <1>6. AnswersAreTrue'
    BY DEF Safety, AnswersAreTrue, Answer
  <1>7. OneTaskPerDraft' /\ DraftNamesItsTask' /\ NumbersAreDense'
    BY DEF Safety, OneTaskPerDraft, DraftNamesItsTask, NumbersAreDense
  <1> QED
    BY <1>2, <1>3, <1>4, <1>5, <1>6, <1>7 DEF Strength, Safety

\* What _owned_row finds is so when the request goes on: an active draft for
\* the update of a claim or for a cancellation.
LEMMA OwnedRowInv ==
    ASSUME IInv, NEW l \in Loops, req[l] \in Requests,
           NEW live \in {"policy", "update", "discard"}, NEW dead \in {"completed", "expired"},
           OwnedRow(l, live, dead)
    PROVE  IInv'
  <1> DEFINE d == Target(l)
             r == IF draft[d].state = "ACTIVE" /\ d \in stale
                    THEN [req[l] EXCEPT !.pc = "lapse", !.after = dead]
                    ELSE [req[l] EXCEPT !.pc = IF draft[d].state = "ACTIVE" THEN live ELSE dead]
  <1>1. r \in Requests /\ r.draft = req[l].draft /\ r.pc \notin Claims
    BY DEF Requests, Pcs, Claims
  <1>2. /\ r.pc = "discard" => draft[r.draft].state = "ACTIVE"
        /\ r.pc = "lapse" => r.after \in {"completed", "expired"}
    BY DEF Requests, Target, Pcs
  <1>3. req' = [req EXCEPT ![l] = r]
    BY DEF OwnedRow, Target
  <1>4. holder' \in [Resources -> Loops \union {Nobody}]
    BY DEF OwnedRow, IInv, TypeOK
  <1> HIDE DEF r
  <1> QED
    BY <1>1, <1>2, <1>3, <1>4, MoveInv DEF OwnedRow, Claims

\* A request only moves on.
LEMMA GotoInv ==
    ASSUME IInv, NEW l \in Loops, req[l] \in Requests,
           NEW pc \in Pcs \ (Claims \union {"discard", "lapse"}), Goto(l, pc),
           UNCHANGED <<draft, stale, counter, tasks, holder, answers, served, overlapped>>
    PROVE  IInv'
  <1> DEFINE r == [req[l] EXCEPT !.pc = pc]
  <1>1. r \in Requests /\ r.draft = req[l].draft /\ r.pc = pc
    BY DEF Requests
  <1>2. req' = [req EXCEPT ![l] = r]
    BY DEF Goto
  <1>3. holder' \in [Resources -> Loops \union {Nobody}]
    BY DEF IInv, TypeOK
  <1> HIDE DEF r
  <1> QED
    BY <1>1, <1>2, <1>3, MoveInv DEF Claims

\* The steps of confirm() up to the claim, and those of cancel() up to its
\* write, keep the invariant.
LEMMA ReadInv ==
    ASSUME IInv, NEW l \in Loops,
           \/ Peek(l) \/ ClaimRead(l) \/ CancelRead(l)
           \/ Refuse(l) \/ Completed(l) \/ Expired(l) \/ Policy(l)
    PROVE  IInv'
  <1>0. req[l] \in Requests
    BY Served DEF IInv, Peek, ClaimRead, CancelRead, Refuse, Completed, Expired, Policy, At
  <1>1. ASSUME Peek(l) \/ ClaimRead(l) \/ CancelRead(l) PROVE IInv'
    BY <1>0, <1>1, OwnedRowInv DEF Peek, ClaimRead, CancelRead, Pcs, Claims
  <1>2. ASSUME Refuse(l) \/ Expired(l) PROVE IInv'
    BY <1>0, <1>2, AnswerInv DEF Refuse, Expired, Codes
  <1>3. ASSUME Completed(l) PROVE IInv'
    <2>1. CASE draft[Target(l)].state = "CONSUMED" /\ draft[Target(l)].task # 0
      <3>1. /\ [id |-> draft[Target(l)].task, draft |-> Target(l)] \in tasks
            /\ draft[Target(l)].task \in Nat
        BY <1>0, <2>1 DEF IInv, TypeOK, Safety, DraftNamesItsTask, Requests, Target
      <3> QED
        BY <1>0, <1>3, <2>1, <3>1, AnswerInv DEF Completed, Codes
    <2>2. CASE ~(draft[Target(l)].state = "CONSUMED" /\ draft[Target(l)].task # 0)
      BY <1>0, <1>3, <2>2, AnswerInv DEF Completed, Codes
    <2> QED
      BY <2>1, <2>2
  <1>4. ASSUME Policy(l) PROVE IInv'
    <2>1. CASE Goto(l, "claim") /\ UNCHANGED <<holder, answers>>
      BY <1>0, <1>4, <2>1, GotoInv DEF Policy, Pcs, Claims
    <2>2. CASE Answer(l, "ASSIGNMENT_DENIED", 0)
      BY <1>0, <1>4, <2>2, AnswerInv DEF Policy, Codes
    <2> QED
      BY <1>4, <2>1, <2>2 DEF Policy
  <1> QED
    BY <1>1, <1>2, <1>3, <1>4

\* An error answers a request in any state of it.
LEMMA FailInv == ASSUME IInv, NEW l \in Loops, Fail(l) PROVE IInv'
  <1>1. req[l] \in Requests
    BY DEF Fail, IInv, TypeOK
  <1> QED
    BY <1>1, AnswerInv DEF Fail, Codes

---------------------------------------------------------------------------
(* The claim, the number and the writes.                                   *)

\* The conditional UPDATE, the counter read and written, keep the invariant.
LEMMA ClaimInv ==
    ASSUME IInv, NEW l \in Loops, ClaimUpdate(l) \/ ReadCounter(l) \/ WriteCounter(l)
    PROVE  IInv'
  <1>0. req[l] \in Requests
    BY Served DEF IInv, ClaimUpdate, ReadCounter, WriteCounter, At
  <1>1. holder \in [Resources -> Loops \union {Nobody}] /\ Target(l) \in Drafts
        /\ counter \in Nat
    BY <1>0 DEF IInv, TypeOK, Target, Requests
  <1>2. ASSUME ClaimUpdate(l), draft[Target(l)].state = "ACTIVE" PROVE IInv'
    <2> DEFINE r == [req[l] EXCEPT !.pc = "count"]
    <2>1. r \in Requests /\ r.draft = Target(l) /\ r.pc = "count"
      BY <1>0 DEF Requests, Pcs, Target
    <2>2. req' = [req EXCEPT ![l] = r]
      BY <1>2 DEF ClaimUpdate, Goto
    <2>3. /\ holder' \in [Resources -> Loops \union {Nobody}]
          /\ holder'[LockOf(Target(l))] = l
          /\ \A res \in Resources, k \in Loops : holder[res] = k => holder'[res] = k
      BY <1>1, <1>2, AcquireKeepsOthers, LocksAreResources DEF ClaimUpdate, IInv
    <2> HIDE DEF r
    <2>4. UNCHANGED <<draft, stale, counter, tasks, answers, served, overlapped>>
      BY <1>2 DEF ClaimUpdate
    <2>5. r.draft = req[l].draft /\ draft[r.draft].state = "ACTIVE" /\ holder'[LockOf(r.draft)] = l
      BY <1>2, <2>1, <2>3 DEF Target
    <2> QED
      BY <1>0, <2>1, <2>2, <2>3, <2>4, <2>5, MoveInv
  <1>3. ASSUME ClaimUpdate(l), draft[Target(l)].state # "ACTIVE" PROVE IInv'
    BY <1>0, <1>3, GotoInv DEF ClaimUpdate, Pcs, Claims
  <1>4. ASSUME ReadCounter(l) PROVE IInv'
    <2> DEFINE r == [req[l] EXCEPT !.pc = "number", !.seq = counter + 1]
    <2>0. counter + 1 \in Nat
      BY <1>1
    <2>1. r \in Requests /\ r.draft = Target(l) /\ r.pc = "number" /\ r.seq = counter + 1
      BY <1>0, <2>0 DEF Requests, Pcs, Target
    <2>2. req' = [req EXCEPT ![l] = r]
      BY <1>4 DEF ReadCounter
    <2>3. holder[LockOf(Target(l))] = l /\ draft[Target(l)].state = "ACTIVE"
      BY <1>4 DEF IInv, Strength, ClaimsHold, ReadCounter, At, Claims
    <2> HIDE DEF r
    <2>4. UNCHANGED <<draft, stale, counter, tasks, holder, answers, served, overlapped>>
      BY <1>4 DEF ReadCounter
    <2>5. /\ r.draft = req[l].draft /\ draft[r.draft].state = "ACTIVE" /\ holder'[LockOf(r.draft)] = l
          /\ r.seq \in 1..(counter + 1)
      BY <1>1, <2>1, <2>3, <2>4 DEF Target
    <2> QED
      BY <1>0, <1>1, <2>1, <2>2, <2>4, <2>5, MoveInv
  <1>5. ASSUME WriteCounter(l) PROVE IInv'
    <2> DEFINE r == [req[l] EXCEPT !.pc = "insert"]
    <2>1. /\ r \in Requests /\ r.draft = Target(l) /\ r.pc = "insert"
          /\ r.seq = req[l].seq
      BY <1>0 DEF Requests, Pcs, Target
    <2>2. req' = [req EXCEPT ![l] = r]
      BY <1>5 DEF WriteCounter, Goto
    <2>3. /\ holder' \in [Resources -> Loops \union {Nobody}]
          /\ \A res \in Resources, k \in Loops : holder[res] = k => holder'[res] = k
      BY <1>5, AcquireKeepsOthers, LocksAreResources DEF WriteCounter, IInv
    <2>4. /\ holder[LockOf(Target(l))] = l /\ draft[Target(l)].state = "ACTIVE"
          /\ req[l].seq \in 1..(counter + 1)
      BY <1>5 DEF IInv, Strength, ClaimsHold, NumbersFit, WriteCounter, At, Claims
    <2> HIDE DEF r
    <2>5. UNCHANGED <<draft, stale, counter, tasks, answers, served, overlapped>>
      BY <1>5 DEF WriteCounter
    <2>6. /\ r.draft = req[l].draft /\ draft[r.draft].state = "ACTIVE" /\ holder'[LockOf(r.draft)] = l
          /\ r.seq \in 1..(counter + 1)
      BY <1>1, <2>1, <2>3, <2>4, LocksAreResources DEF Target
    <2> QED
      BY <1>0, <2>1, <2>2, <2>3, <2>5, <2>6, MoveInv
  <1> QED
    BY <1>2, <1>3, <1>4, <1>5

\* A draft is cancelled by primary key: whoever does so has waited for those
\* who had claimed it, and the task it may have become meanwhile stays its
\* task. Only a cancellation, which has read it active, says that it is
\* cancelled.
LEMMA CancelInv ==
    ASSUME IInv, NEW l \in Loops, req[l] \in Requests, req[l].pc \notin Claims,
           Free(l, Target(l)), draft' = [draft EXCEPT ![Target(l)].state = "CANCELLED"],
           UNCHANGED <<stale, counter, tasks, served, overlapped>>,
           req' \in [Loops -> Requests \union {NoRequest}],
           req'[l] = NoRequest \/ req'[l].pc \in {"completed", "expired"},
           \A k \in Loops \ {l} : req'[k] = req[k],
           holder' \in [Resources -> Loops \union {Nobody}],
           \A res \in Resources, k \in Loops \ {l} : holder[res] = k => holder'[res] = k,
           answers' \in SUBSET [draft : Drafts, code : Codes, task : Nat],
           \A a \in answers' : \/ a \in answers
                               \/ /\ a.draft = Target(l) /\ a.code = "DRAFT_CANCELLED"
                                  /\ At(l, "discard")
    PROVE  IInv'
  <1> USE DEF IInv
  <1> DEFINE d == Target(l)
  <1>0. d \in Drafts
    BY DEF Target, Requests
  <1>1. /\ draft' \in [Drafts -> [state : States, task : Nat]]
        /\ draft'[d].state = "CANCELLED"
        /\ \A e \in Drafts : /\ draft'[e].task = draft[e].task
                             /\ draft'[e].state \in {draft[e].state, "CANCELLED"}
                             /\ e # d => draft'[e] = draft[e]
    BY <1>0 DEF TypeOK, States
  <1>2. TypeOK'
    BY <1>1 DEF TypeOK
  <1>3. req'[l].pc \notin Claims \union {"discard", "lapse"}
    BY DEF NoRequest, Claims
  <1>4. ClaimsHold'
    <2> SUFFICES ASSUME NEW k \in Loops, req'[k].pc \in Claims
                 PROVE  /\ holder'[LockOf(req'[k].draft)] = k
                        /\ draft'[req'[k].draft].state = "ACTIVE"
      BY DEF ClaimsHold, Target
    <2>1. k # l /\ req'[k] = req[k]
      BY <1>3
    <2>2. /\ holder[LockOf(Target(k))] = k /\ draft[Target(k)].state = "ACTIVE"
      BY <2>1 DEF Strength, ClaimsHold
    <2>3. Target(k) \in Drafts /\ LockOf(Target(k)) \in Resources
      BY <2>1, Served, LocksAreResources DEF Claims, Requests, Target
    <2>4. Target(k) # d
      BY <2>1, ClaimsExclude DEF Strength
    <2> QED
      BY <1>1, <2>1, <2>2, <2>3, <2>4 DEF Target
  <1>5. NumbersFit' /\ LapsesEnd'
    BY <1>3 DEF Strength, NumbersFit, LapsesEnd, At, Claims
  <1>6. TasksEndDrafts'
    BY <1>1 DEF TypeOK, Strength, TasksEndDrafts
  <1>7. OneAtATime'
    BY RequestsAreRequests DEF Strength, OneAtATime
  <1>8. DiscardsAreFresh'
    <2> SUFFICES ASSUME ~overlapped, NEW k \in Loops, req'[k].pc = "discard" PROVE FALSE
      BY DEF DiscardsAreFresh, At
    <2>1. k # l /\ req'[k] = req[k]
      BY <1>3
    <2>2. req[k] # NoRequest /\ req[l] # NoRequest
      BY <2>1, RequestsAreRequests DEF NoRequest
    <2> QED
      BY <2>1, <2>2 DEF Strength, OneAtATime
  <1>9. CancelledForGood'
    BY <1>1 DEF TypeOK, Strength, CancelledForGood
  <1>10. OneTaskPerDraft' /\ NumbersAreDense'
    BY DEF Safety, OneTaskPerDraft, NumbersAreDense
  <1>11. DraftNamesItsTask'
    BY <1>1 DEF TypeOK, Safety, DraftNamesItsTask, States
  <1>12. AnswersAreTrue'
    <2>1. \A a \in answers' : a.code = "TASK_CREATED" => a \in answers
      OBVIOUS
    <2>2. ASSUME NEW a \in answers', a.code = "DRAFT_CANCELLED", ~overlapped, NEW t \in tasks
          PROVE  t.draft # a.draft
      <3>1. CASE a \in answers
        BY <2>2, <3>1 DEF Safety, AnswersAreTrue
      <3>2. CASE a.draft = d /\ At(l, "discard")
        BY <2>2, <3>2 DEF Strength, DiscardsAreFresh, TasksEndDrafts
      <3> QED
        BY <3>1, <3>2
    <2> QED
      BY <2>1, <2>2 DEF Safety, AnswersAreTrue
  <1> QED
    BY <1>2, <1>4, <1>5, <1>6, <1>7, <1>8, <1>9, <1>10, <1>11, <1>12 DEF Strength, Safety

\* _owned_row's write of an expired draft and discard_draft's write keep the
\* invariant.
LEMMA CancelWritesInv ==
    ASSUME IInv, NEW l \in Loops, CommitLapse(l) \/ CommitDiscard(l)
    PROVE  IInv'
  <1> USE DEF IInv
  <1>0. /\ req[l] \in Requests /\ req[l].pc \in {"lapse", "discard"}
        /\ answers \in SUBSET [draft : Drafts, code : Codes, task : Nat]
    BY Served DEF CommitLapse, CommitDiscard, At, TypeOK
  <1>1. ASSUME CommitLapse(l) PROVE IInv'
    <2>1. req[l].after \in {"completed", "expired"}
      BY <1>1 DEF CommitLapse, Strength, LapsesEnd
    <2> DEFINE r == [req[l] EXCEPT !.pc = req[l].after]
    <2>2. r \in Requests /\ r.pc \in {"completed", "expired"}
      BY <1>0, <2>1 DEF Requests
    <2>3. req' = [req EXCEPT ![l] = r]
      BY <1>1 DEF CommitLapse, Goto
    <2> HIDE DEF r
    <2>4. /\ req' \in [Loops -> Requests \union {NoRequest}]
          /\ req'[l].pc \in {"completed", "expired"}
          /\ \A k \in Loops \ {l} : req'[k] = req[k]
          /\ holder \in [Resources -> Loops \union {Nobody}]
      BY <2>2, <2>3 DEF TypeOK
    <2> QED
      BY <1>0, <1>1, <2>4, CancelInv DEF CommitLapse, Claims
  <1>2. ASSUME CommitDiscard(l) PROVE IInv'
    <2>1. /\ req' \in [Loops -> Requests \union {NoRequest}]
          /\ req'[l] = NoRequest
          /\ \A k \in Loops \ {l} : req'[k] = req[k]
          /\ answers' \in SUBSET [draft : Drafts, code : Codes, task : Nat]
      BY <1>0, <1>2, AnswerKeepsOthers DEF CommitDiscard, Strength, Codes
    <2>2. /\ holder' \in [Resources -> Loops \union {Nobody}]
          /\ \A res \in Resources, k \in Loops \ {l} : holder[res] = k => holder'[res] = k
      BY <1>2, ReleaseKeepsOthers DEF CommitDiscard, Answer
    <2>3. \A a \in answers' : a \in answers \/ (a.draft = Target(l) /\ a.code = "DRAFT_CANCELLED")
      BY <1>2 DEF CommitDiscard, Answer
    <2> QED
      BY <1>0, <1>2, <2>1, <2>2, <2>3, CancelInv DEF CommitDiscard, Claims, At
  <1> QED
    BY <1>1, <1>2

\* The number that is not taken yet is the next one.
LEMMA TheNextNumber ==
    ASSUME TypeOK, NumbersAreDense, NEW n \in 1..(counter + 1), \A t \in tasks : t.id # n
    PROVE  n = counter + 1
  <1>1. n \notin 1..counter
    BY DEF NumbersAreDense
  <1>2. counter \in Nat
    BY DEF TypeOK
  <1> QED
    BY <1>1, <1>2

\* create_from_draft's commit: the claimed draft has had no task, and the
\* task has the next number.
LEMMA CommitTaskInv == ASSUME IInv, NEW l \in Loops, CommitTask(l) PROVE IInv'
  <1> USE DEF IInv
  <1> DEFINE d == Target(l)
             n == req[l].seq
             new == [id |-> n, draft |-> d]
  <1>0. /\ req[l] \in Requests /\ req[l].pc = "insert" /\ d \in Drafts
        /\ draft[d].state = "ACTIVE"
    BY Served DEF CommitTask, At, Target, Requests, Strength, ClaimsHold, Claims
  <1>1. n = counter + 1 /\ counter \in Nat
    <2>1. n \in 1..(counter + 1)
      BY <1>0 DEF Strength, NumbersFit
    <2> QED
      BY <2>1, TheNextNumber DEF CommitTask, Safety, TypeOK
  <1>2. /\ tasks' = tasks \union {new} /\ counter' = n
        /\ draft' = [draft EXCEPT ![d] = [state |-> "CONSUMED", task |-> n]]
        /\ UNCHANGED <<stale, served, overlapped>>
    BY DEF CommitTask
  <1>3. PICK code \in {"TASK_CREATED", "ERROR"}, task \in {n, 0} :
           /\ Answer(l, code, task)
           /\ code = "TASK_CREATED" => task = n
    BY DEF CommitTask
  <1>4. code \in Codes /\ task \in Nat
    BY <1>1 DEF Codes
  <1>5. /\ req' \in [Loops -> Requests \union {NoRequest}]
        /\ req'[l] = NoRequest
        /\ \A k \in Loops \ {l} : req'[k] = req[k]
        /\ holder' \in [Resources -> Loops \union {Nobody}]
        /\ \A k \in Loops : req'[k].pc \in Claims =>
              /\ k # l
              /\ holder'[LockOf(req'[k].draft)] = k
              /\ draft[req'[k].draft].state = "ACTIVE"
        /\ answers' \in SUBSET [draft : Drafts, code : Codes, task : Nat]
    BY <1>0, <1>3, <1>4, AnswerKeepsOthers DEF Strength
  <1>6. answers' = answers \union {[draft |-> d, code |-> code, task |-> task]}
    BY <1>3 DEF Answer
  <1> HIDE DEF n
  <1>7. /\ draft' \in [Drafts -> [state : States, task : Nat]]
        /\ draft'[d] = [state |-> "CONSUMED", task |-> n]
        /\ \A e \in Drafts \ {d} : draft'[e] = draft[e]
    <2>1. n \in Nat
      BY <1>1
    <2> QED
      BY <1>0, <1>2, <2>1 DEF TypeOK, States
  <1>8. \A t \in tasks : t.draft \in Drafts \ {d} /\ t.id # n
    BY <1>0 DEF Strength, TasksEndDrafts, TypeOK, CommitTask, n
  <1>9. TypeOK'
    <2>1. n \in Nat \ {0}
      BY <1>1
    <2> QED
      BY <1>0, <1>2, <1>5, <1>7, <2>1 DEF TypeOK
  <1>10. ClaimsHold'
    <2> SUFFICES ASSUME NEW k \in Loops, req'[k].pc \in Claims
                 PROVE  /\ holder'[LockOf(req'[k].draft)] = k
                        /\ draft'[req'[k].draft].state = "ACTIVE"
      BY DEF ClaimsHold, Target
    <2>1. k # l /\ req'[k] = req[k] /\ req[k].pc \in Claims
      BY <1>5
    <2>2. Target(k) \in Drafts /\ Target(k) # d
      <3>1. Target(k) \in Drafts
        BY <2>1, Served DEF Claims, Requests, Target
      <3> QED
        BY <1>0, <2>1, <3>1, ClaimsExclude DEF Strength, Claims
    <2> QED
      BY <1>5, <1>7, <2>1, <2>2 DEF Target
  <1>11. NumbersFit'
    <2> SUFFICES ASSUME NEW k \in Loops, req'[k].pc \in {"number", "insert"}
                 PROVE  req'[k].seq \in 1..(counter' + 1)
      BY DEF NumbersFit
    <2>1. req'[k] = req[k] /\ req[k].seq \in 1..(counter + 1)
      BY <1>5 DEF Strength, NumbersFit, NoRequest
    <2> QED
      BY <1>1, <1>2, <2>1
  <1>12. LapsesEnd' /\ OneAtATime'
    BY <1>0, <1>2, <1>5, RequestsAreRequests
    DEF Strength, LapsesEnd, OneAtATime, At, NoRequest
  <1>13. TasksEndDrafts'
    BY <1>2, <1>7, <1>8 DEF Strength, TasksEndDrafts
  <1>14. DiscardsAreFresh'
    <2> SUFFICES ASSUME ~overlapped, NEW k \in Loops, req'[k].pc = "discard" PROVE FALSE
      BY <1>2 DEF DiscardsAreFresh, At
    <2>1. k # l /\ req'[k] = req[k]
      BY <1>5 DEF NoRequest
    <2>2. req[k] # NoRequest /\ req[l] # NoRequest
      BY <1>0, <2>1, RequestsAreRequests DEF NoRequest
    <2> QED
      BY <2>1, <2>2 DEF Strength, OneAtATime
  <1>15. CancelledForGood'
    <2> SUFFICES ASSUME NEW a \in answers', a.code = "DRAFT_CANCELLED"
                 PROVE  draft'[a.draft].state = "CANCELLED"
      BY DEF CancelledForGood
    <2>1. a \in answers /\ draft[a.draft].state = "CANCELLED" /\ a.draft \in Drafts
      BY <1>6 DEF Strength, CancelledForGood, TypeOK
    <2> QED
      BY <1>0, <1>7, <2>1
  <1>16. OneTaskPerDraft'
    BY <1>2, <1>8 DEF Safety, OneTaskPerDraft
  <1>17. NumbersAreDense'
    <2>1. {t.id : t \in tasks'} = {t.id : t \in tasks} \union {n}
      <3>1. new \in tasks' /\ new.id = n /\ \A t \in tasks' : t \in tasks \/ t = new
        BY <1>2
      <3>2. \A t \in tasks : t \in tasks'
        BY <1>2
      <3> HIDE DEF new
      <3> QED
        BY <3>1, <3>2, Zenon
    <2>2. 1..(counter + 1) = 1..counter \union {counter + 1}
      BY <1>1
    <2> QED
      BY <1>1, <1>2, <2>1, <2>2 DEF Safety, NumbersAreDense, n
  <1>18. DraftNamesItsTask'
    BY <1>2, <1>7, <1>8 DEF Safety, DraftNamesItsTask
  <1>19. AnswersAreTrue'
    <2>1. ASSUME NEW a \in answers', a.code = "TASK_CREATED"
          PROVE  [id |-> a.task, draft |-> a.draft] \in tasks'
      <3>1. CASE a \in answers
        BY <1>2, <2>1, <3>1 DEF Safety, AnswersAreTrue
      <3>2. CASE a = [draft |-> d, code |-> code, task |-> task]
        BY <1>2, <1>3, <2>1, <3>2 DEF n
      <3> QED
        BY <1>6, <3>1, <3>2
    <2>2. ASSUME NEW a \in answers', a.code = "DRAFT_CANCELLED", ~overlapped, NEW t \in tasks'
          PROVE  t.draft # a.draft
      <3>1. a \in answers /\ draft[a.draft].state = "CANCELLED"
        BY <1>6, <2>2 DEF Strength, CancelledForGood
      <3>2. CASE t \in tasks
        BY <2>2, <3>1, <3>2 DEF Safety, AnswersAreTrue
      <3>3. CASE t = new
        BY <1>0, <3>1, <3>3
      <3> QED
        BY <1>2, <3>2, <3>3
    <2> QED
      BY <1>2, <2>1, <2>2 DEF AnswersAreTrue
  <1> QED
    BY <1>9, <1>10, <1>11, <1>12, <1>13, <1>14, <1>15, <1>16, <1>17, <1>18, <1>19
    DEF Strength, Safety

---------------------------------------------------------------------------
(* What people and time do.                                                *)

\* A new draft has neither task nor request.
LEMMA StashInv == ASSUME IInv, NEW d \in Drafts, Stash(d) PROVE IInv'
  <1> USE DEF IInv
  <1>1. /\ draft' \in [Drafts -> [state : States, task : Nat]]
        /\ draft[d].state = "ABSENT"
        /\ draft'[d].state = "ACTIVE"
        /\ \A e \in Drafts : draft'[e].task = draft[e].task
        /\ \A e \in Drafts \ {d} : draft'[e] = draft[e]
    BY DEF Stash, TypeOK, States
  <1>2. TypeOK'
    BY <1>1 DEF Stash, TypeOK
  <1>3. \A k \in Loops : req[k].pc # "idle" => Target(k) \in Drafts
    BY Served DEF Target, Requests
  <1>4. ClaimsHold' /\ DiscardsAreFresh'
    BY <1>1, <1>3 DEF Stash, Strength, ClaimsHold, DiscardsAreFresh, At, Claims, Target
  <1>5. NumbersFit' /\ LapsesEnd' /\ OneAtATime'
    BY DEF Stash, Strength, NumbersFit, LapsesEnd, OneAtATime, At
  <1>6. TasksEndDrafts' /\ CancelledForGood' /\ DraftNamesItsTask'
    BY <1>1 DEF Stash, Strength, TasksEndDrafts, CancelledForGood, TypeOK, Safety,
       DraftNamesItsTask
  <1>7. OneTaskPerDraft' /\ NumbersAreDense' /\ AnswersAreTrue'
    BY DEF Stash, Safety, OneTaskPerDraft, NumbersAreDense, AnswersAreTrue
  <1> QED
    BY <1>2, <1>4, <1>5, <1>6, <1>7 DEF Strength, Safety

\* Nothing of the invariant depends on the time alone.
LEMMA ExpireInv == ASSUME IInv, NEW d \in Drafts, Expire(d) PROVE IInv'
  BY DEF IInv, Expire, TypeOK, Strength, NumbersFit, LapsesEnd, OneAtATime, At,
     ClaimsHold, DiscardsAreFresh, Target, TasksEndDrafts, CancelledForGood, Safety,
     DraftNamesItsTask, OneTaskPerDraft, NumbersAreDense, AnswersAreTrue

\* A request that starts has claimed nothing, and is noted if it is not alone.
LEMMA StartInv ==
    ASSUME IInv, NEW l \in Loops, NEW op \in {"confirm", "cancel"}, NEW d \in Drafts,
           NEW p \in People, Start(l, op, d, p)
    PROVE  IInv'
  <1> USE DEF IInv
  <1> DEFINE r == [pc |-> op, draft |-> d, actor |-> p, seq |-> 0, after |-> op]
  <1>1. r \in Requests /\ r.pc \notin Claims \union {"lapse", "discard"}
    BY DEF Requests, Pcs, Claims
  <1>2. req' = [req EXCEPT ![l] = r]
    BY DEF Start
  <1> HIDE DEF r
  <1>3. /\ req' \in [Loops -> Requests \union {NoRequest}]
        /\ req'[l] = r
        /\ \A k \in Loops \ {l} : req'[k] = req[k]
    BY <1>1, <1>2 DEF TypeOK
  <1>4. TypeOK'
    BY <1>3, DraftAssumption DEF Start, TypeOK
  <1>5. ClaimsHold' /\ NumbersFit' /\ LapsesEnd'
    BY <1>1, <1>3 DEF Start, Strength, ClaimsHold, NumbersFit, LapsesEnd, At, Claims, Target
  <1>6. DiscardsAreFresh'
    BY <1>1, <1>3 DEF Start, Strength, DiscardsAreFresh, At, Target
  <1>7. OneAtATime'
    BY <1>3 DEF Start, Strength, OneAtATime
  <1>8. TasksEndDrafts' /\ CancelledForGood' /\ OneTaskPerDraft' /\ DraftNamesItsTask'
    BY DEF Start, Strength, TasksEndDrafts, CancelledForGood, Safety, OneTaskPerDraft,
       DraftNamesItsTask
  <1>9. NumbersAreDense' /\ AnswersAreTrue'
    BY DEF Start, Safety, NumbersAreDense, AnswersAreTrue
  <1> QED
    BY <1>4, <1>5, <1>6, <1>7, <1>8, <1>9 DEF Strength, Safety

---------------------------------------------------------------------------
(* The theorems.                                                           *)

\* In the beginning there is no draft, no task and no request.
LEMMA InitInv == Init => IInv
  <1> SUFFICES ASSUME Init PROVE IInv
    OBVIOUS
  <1>1. TypeOK
    <2>1. served \in 0..MaxRequests /\ counter \in Nat
      BY DraftAssumption DEF Init
    <2>2. draft \in [Drafts -> [state : States, task : Nat]]
      BY DEF Init, States
    <2>3. /\ tasks \in SUBSET [id : Nat \ {0}, draft : Drafts]
          /\ answers \in SUBSET [draft : Drafts, code : Codes, task : Nat]
      BY DEF Init
    <2> QED
      BY <2>1, <2>2, <2>3 DEF Init, TypeOK
  <1>2. Strength
    BY DEF Init, Strength, ClaimsHold, NumbersFit, LapsesEnd, TasksEndDrafts, OneAtATime,
       DiscardsAreFresh, CancelledForGood, At, NoRequest, Claims
  <1>3. Safety
    BY DEF Init, Safety, OneTaskPerDraft, DraftNamesItsTask, NumbersAreDense, AnswersAreTrue
  <1> QED
    BY <1>1, <1>2, <1>3 DEF IInv

\* Every step keeps the invariant.
LEMMA StepInv == IInv /\ [Next]_vars => IInv'
  <1> SUFFICES ASSUME IInv, [Next]_vars PROVE IInv'
    OBVIOUS
  <1>1. ASSUME NEW d \in Drafts, Stash(d) \/ Expire(d) PROVE IInv'
    BY <1>1, StashInv, ExpireInv
  <1>2. ASSUME NEW l \in Loops, NEW op \in {"confirm", "cancel"}, NEW d \in Drafts,
               NEW p \in People, Start(l, op, d, p)
        PROVE  IInv'
    BY <1>2, StartInv
  <1>3. ASSUME NEW l \in Loops, Serve(l) PROVE IInv'
    <2>1. CASE \/ Peek(l) \/ ClaimRead(l) \/ CancelRead(l)
               \/ Refuse(l) \/ Completed(l) \/ Expired(l) \/ Policy(l)
      BY <2>1, ReadInv
    <2>2. CASE ClaimUpdate(l) \/ ReadCounter(l) \/ WriteCounter(l)
      BY <2>2, ClaimInv
    <2>3. CASE CommitLapse(l) \/ CommitDiscard(l)
      BY <2>3, CancelWritesInv
    <2>4. CASE CommitTask(l)
      BY <2>4, CommitTaskInv
    <2>5. CASE DuplicateId(l)
      BY <2>5, FailInv DEF DuplicateId
    <2> QED
      BY <1>3, <2>1, <2>2, <2>3, <2>4, <2>5 DEF Serve
  <1>4. ASSUME NEW l \in Loops, Fail(l) PROVE IInv'
    BY <1>4, FailInv
  <1>5. ASSUME UNCHANGED vars PROVE IInv'
    BY <1>5 DEF vars, IInv, TypeOK, Strength, NumbersFit, LapsesEnd, OneAtATime, At,
       ClaimsHold, DiscardsAreFresh, Target, TasksEndDrafts, CancelledForGood, Safety,
       DraftNamesItsTask, OneTaskPerDraft, NumbersAreDense, AnswersAreTrue
  <1> QED
    BY <1>1, <1>2, <1>3, <1>4, <1>5 DEF Next

\* The inductive invariant holds, with any number of processes.
THEOREM Invariant == Spec => []IInv
  <1> QED
    BY InitInv, StepInv, PTL DEF Spec

\* Drafts, tasks, requests and locks have the values the code can give them.
THEOREM TypeCorrect == Spec => []TypeOK
  <1>1. IInv => TypeOK
    BY DEF IInv
  <1> QED
    BY <1>1, Invariant, PTL

\* A draft becomes one task at most, and no two tasks share a number, however
\* many processes confirm at once (take_draft_in_session, next_sequence).
THEOREM OneTaskOfADraft == Spec => []OneTaskPerDraft
  <1>1. IInv => OneTaskPerDraft
    BY DEF IInv, Safety
  <1> QED
    BY <1>1, Invariant, PTL

\* A consumed draft names its task, although another process may cancel it by
\* primary key on what it read before (record_draft_task_id, discard_draft).
THEOREM DraftsNameTheirTasks == Spec => []DraftNamesItsTask
  <1>1. IInv => DraftNamesItsTask
    BY DEF IInv, Safety
  <1> QED
    BY <1>1, Invariant, PTL

\* The numbers of a department and year have neither gaps nor repetitions
\* (next_sequence, FR-WF-02).
THEOREM NumbersAlwaysDense == Spec => []NumbersAreDense
  <1>1. IInv => NumbersAreDense
    BY DEF IInv, Safety
  <1> QED
    BY <1>1, Invariant, PTL

\* What a requester was told of a task, and of a cancellation as long as no
\* two processes served at once, is and stays true (application/drafts.py).
THEOREM AnswersAlwaysTrue == Spec => []AnswersAreTrue
  <1>1. IInv => AnswersAreTrue
    BY DEF IInv, Safety
  <1> QED
    BY <1>1, Invariant, PTL

---------------------------------------------------------------------------
(* Who holds a lock, and who waits for whom.                               *)

\* A lock is held by a request that has claimed a draft: the lock of that
\* draft, or that of the counter once the number is written.
HoldersClaim ==
    \A r \in Resources, l \in Loops : holder[r] = l =>
       /\ req[l].pc \in Claims
       /\ WriteLock \/ r = Target(l) \/ (r = "counter" /\ req[l].pc = "insert")

\* Who starts or ends a request, or goes on without a claim, holds nothing
\* afterwards that it has no claim for.
LEMMA HoldersKept ==
    ASSUME HoldersClaim, NEW l \in Loops,
           \A k \in Loops \ {l} : req'[k] = req[k],
           \A r \in Resources : holder'[r] \in Loops \ {l} => holder'[r] = holder[r],
           \A r \in Resources : holder'[r] = l =>
              /\ req'[l].pc \in Claims
              /\ WriteLock \/ r = req'[l].draft \/ (r = "counter" /\ req'[l].pc = "insert")
    PROVE  HoldersClaim'
  <1> SUFFICES ASSUME NEW r \in Resources, NEW k \in Loops, holder'[r] = k
               PROVE  /\ req'[k].pc \in Claims
                      /\ \/ WriteLock \/ r = req'[k].draft
                         \/ (r = "counter" /\ req'[k].pc = "insert")
    BY DEF HoldersClaim, Target
  <1>1. CASE k = l
    BY <1>1
  <1>2. CASE k # l
    BY <1>2 DEF HoldersClaim, Target
  <1> QED
    BY <1>1, <1>2

\* The end of a request releases what it held.
LEMMA HoldersAnswer ==
    ASSUME TypeOK, HoldersClaim, NEW l \in Loops, NEW code, NEW task, Answer(l, code, task)
    PROVE  HoldersClaim'
  <1>1. \A k \in Loops \ {l} : req'[k] = req[k]
    BY DEF TypeOK, Answer
  <1>2. holder' = [r \in Resources |-> IF holder[r] = l THEN Nobody ELSE holder[r]]
    BY DEF Answer, ReleaseAll
  <1>3. \A r \in Resources : holder'[r] # l
    BY <1>2, DraftAssumption
  <1>4. \A r \in Resources : holder'[r] \in Loops \ {l} => holder'[r] = holder[r]
    BY <1>2, DraftAssumption
  <1> QED
    BY <1>1, <1>3, <1>4, HoldersKept

\* A request without a claim goes on without a lock.
LEMMA HoldersMove ==
    ASSUME TypeOK, HoldersClaim, NEW l \in Loops, req[l].pc \notin Claims,
           \A k \in Loops \ {l} : req'[k] = req[k], UNCHANGED holder
    PROVE  HoldersClaim'
  <1>1. \A r \in Resources : holder'[r] # l
    BY DEF HoldersClaim
  <1> QED
    BY <1>1, HoldersKept

LEMMA HoldersStep == ASSUME IInv, HoldersClaim, [Next]_vars PROVE HoldersClaim'
  <1>0. TypeOK
    BY DEF IInv
  <1>1. ASSUME UNCHANGED <<req, holder>> PROVE HoldersClaim'
    BY <1>1 DEF HoldersClaim, Target
  <1>2. ASSUME NEW d \in Drafts, Stash(d) \/ Expire(d) PROVE HoldersClaim'
    BY <1>1, <1>2 DEF Stash, Expire
  <1>3. ASSUME NEW l \in Loops, NEW op \in {"confirm", "cancel"}, NEW d \in Drafts,
               NEW p \in People, Start(l, op, d, p)
        PROVE  HoldersClaim'
    <2>1. req[l].pc \notin Claims /\ \A k \in Loops \ {l} : req'[k] = req[k]
      BY <1>0, <1>3 DEF Start, TypeOK, NoRequest, Claims
    <2> QED
      BY <1>0, <1>3, <2>1, HoldersMove DEF Start
  <1>4. ASSUME NEW l \in Loops, Serve(l) \/ Fail(l) PROVE HoldersClaim'
    <2>1. CASE \/ Refuse(l) \/ Completed(l) \/ Expired(l) \/ CommitTask(l)
               \/ CommitDiscard(l) \/ DuplicateId(l) \/ Fail(l)
      <3>1. \E code, task : Answer(l, code, task)
        BY <2>1 DEF Refuse, Completed, Expired, CommitTask, CommitDiscard, DuplicateId, Fail
      <3> QED
        BY <1>0, <3>1, HoldersAnswer
    <2>2. CASE Peek(l) \/ ClaimRead(l) \/ CancelRead(l) \/ CommitLapse(l)
      <3>1. req[l].pc \notin Claims /\ UNCHANGED holder
        BY <2>2 DEF Peek, ClaimRead, CancelRead, CommitLapse, OwnedRow, At, Claims
      <3>2. \A k \in Loops \ {l} : req'[k] = req[k]
        BY <1>0, <2>2 DEF Peek, ClaimRead, CancelRead, CommitLapse, OwnedRow, Goto, TypeOK
      <3> QED
        BY <1>0, <3>1, <3>2, HoldersMove
    <2>3. CASE Policy(l)
      <3>1. CASE Answer(l, "ASSIGNMENT_DENIED", 0)
        BY <1>0, <3>1, HoldersAnswer
      <3>2. CASE Goto(l, "claim") /\ UNCHANGED holder
        <4>1. req[l].pc \notin Claims /\ \A k \in Loops \ {l} : req'[k] = req[k]
          BY <1>0, <2>3, <3>2 DEF Policy, At, Claims, Goto, TypeOK
        <4> QED
          BY <1>0, <3>2, <4>1, HoldersMove
      <3> QED
        BY <2>3, <3>1, <3>2 DEF Policy
    <2>4. CASE ClaimUpdate(l) \/ ReadCounter(l) \/ WriteCounter(l)
      <3>0. /\ req[l] \in Requests
            /\ holder \in [Resources -> Loops \union {Nobody}]
            /\ \A k \in Loops \ {l} : req'[k] = req[k]
        <4>1. req[l] \in Requests
          BY <1>0, <2>4, Served DEF ClaimUpdate, ReadCounter, WriteCounter, At
        <4>2. \A k \in Loops \ {l} : req'[k] = req[k]
          BY <1>0, <2>4 DEF ClaimUpdate, ReadCounter, WriteCounter, Goto, TypeOK
        <4> QED
          BY <1>0, <4>1, <4>2 DEF TypeOK
      <3>1. CASE ClaimUpdate(l) /\ draft[Target(l)].state # "ACTIVE"
        <4>1. req[l].pc \notin Claims /\ UNCHANGED holder
          BY <3>1 DEF ClaimUpdate, At, Claims
        <4> QED
          BY <1>0, <3>0, <4>1, HoldersMove
      <3>2. CASE ClaimUpdate(l) /\ draft[Target(l)].state = "ACTIVE"
        <4>1. /\ req'[l].pc = "count" /\ req'[l].draft = Target(l)
          BY <1>0, <3>0, <3>2 DEF ClaimUpdate, Goto, TypeOK, Requests, Target
        <4>2. \A r \in Resources : holder[r] # l
          BY <3>2 DEF HoldersClaim, ClaimUpdate, At, Claims
        <4>3. /\ \A r \in Resources : holder'[r] = l => r = LockOf(Target(l))
              /\ \A r \in Resources : holder'[r] # l => holder'[r] = holder[r]
          BY <3>0, <3>2, <4>2 DEF ClaimUpdate, Acquire
        <4>4. \A r \in Resources : holder'[r] = l => WriteLock \/ r = req'[l].draft
          BY <4>1, <4>3 DEF LockOf
        <4> QED
          BY <3>0, <4>1, <4>3, <4>4, HoldersKept DEF Claims
      <3>3. CASE ReadCounter(l)
        <4>1. req'[l].pc = "number" /\ req'[l].draft = Target(l)
          BY <1>0, <3>0, <3>3 DEF ReadCounter, TypeOK, Requests, Target
        <4>2. req[l].pc = "count" /\ UNCHANGED holder
          BY <3>3 DEF ReadCounter, At
        <4>3. \A r \in Resources : holder'[r] = l => WriteLock \/ r = req'[l].draft
          BY <4>1, <4>2 DEF HoldersClaim
        <4> QED
          BY <3>0, <4>1, <4>2, <4>3, HoldersKept DEF Claims
      <3>4. CASE WriteCounter(l)
        <4>1. req'[l].pc = "insert" /\ req'[l].draft = Target(l)
          BY <1>0, <3>0, <3>4 DEF WriteCounter, Goto, TypeOK, Requests, Target
        <4>2. \A r \in Resources : holder[r] = l => WriteLock \/ r = Target(l)
          BY <3>4 DEF HoldersClaim, WriteCounter, At
        <4>3. /\ \A r \in Resources : holder'[r] = l => holder[r] = l \/ r = LockOf("counter")
              /\ \A r \in Resources : holder'[r] # l => holder'[r] = holder[r]
          BY <3>0, <3>4 DEF WriteCounter, Acquire
        <4>4. \A r \in Resources : holder'[r] = l => WriteLock \/ r = req'[l].draft \/ r = "counter"
          BY <4>1, <4>2, <4>3 DEF LockOf
        <4> QED
          BY <3>0, <4>1, <4>3, <4>4, HoldersKept DEF Claims
      <3> QED
        BY <2>4, <3>1, <3>2, <3>3, <3>4
    <2> QED
      BY <1>4, <2>1, <2>2, <2>3, <2>4 DEF Serve
  <1> QED
    BY <1>1, <1>2, <1>3, <1>4 DEF Next, vars

\* Whoever is waited for has a claim, and holds what is waited for.
LEMMA AwaitedClaims ==
    ASSUME TypeOK, HoldersClaim, NEW l \in Loops, NEW k \in Loops, WaitsFor(l, k)
    PROVE  /\ req[k].pc \in Claims
           /\ ~WriteLock /\ req[l].pc = "number" => req[k].pc = "insert"
  <1>1. PICK r \in Needs(l) : holder[LockOf(r)] = k
    BY DEF WaitsFor
  <1>2. req[l].pc # "idle" /\ (req[l].pc = "number" => r = "counter")
    BY <1>1 DEF Needs
  <1>3. LockOf(r) \in Resources
    <2>1. Target(l) \in Drafts
      BY <1>2, Served DEF Requests, Target
    <2> QED
      BY <1>1, <2>1, LocksAreResources DEF Needs
  <1>4. req[k].pc \in Claims
    BY <1>1, <1>3 DEF HoldersClaim
  <1>5. ASSUME ~WriteLock, req[l].pc = "number" PROVE req[k].pc = "insert"
    <2>1. LockOf(r) = "counter"
      BY <1>2, <1>5 DEF LockOf
    <2>2. Target(k) \in Drafts
      BY <1>4, Served DEF Claims, Requests, Target
    <2> QED
      BY <1>1, <1>3, <1>5, <2>1, <2>2, DraftAssumption DEF HoldersClaim
  <1> QED
    BY <1>4, <1>5

\* Who has claimed a draft waits for the counter at most, and on a
\* single-writer database for nobody.
LEMMA ClaimantsWait ==
    ASSUME IInv, NEW l \in Loops, NEW k \in Loops, req[l].pc \in Claims, WaitsFor(l, k)
    PROVE  ~WriteLock /\ req[l].pc = "number"
  <1>1. req[l].pc = "number"
    BY DEF WaitsFor, Needs, Claims
  <1>2. ASSUME WriteLock PROVE FALSE
    <2>1. \A r : LockOf(r) = "database"
      BY <1>2 DEF LockOf
    <2>2. holder["database"] = l
      BY <2>1 DEF IInv, Strength, ClaimsHold
    <2> QED
      BY <2>1, <2>2 DEF WaitsFor
  <1> QED
    BY <1>1, <1>2

\* Of any processes the one that has got furthest with its claim waits for
\* none of them: draft, counter and nothing else is the order of the locks.
LEMMA FurthestGoesOn == ASSUME IInv, HoldersClaim PROVE NoCircularWait
  <1> SUFFICES ASSUME NEW S \in SUBSET Loops, S # {}
               PROVE  \E l \in S : \A k \in S : ~WaitsFor(l, k)
    BY DEF NoCircularWait
  <1>0. TypeOK
    BY DEF IInv
  <1>1. CASE \E l \in S : req[l].pc \in {"count", "insert"}
    BY <1>1, ClaimantsWait DEF Claims
  <1>2. CASE \E l \in S : req[l].pc = "number" /\ \A k \in S : req[k].pc # "insert"
    <2>1. PICK l \in S : req[l].pc = "number"
      BY <1>2
    <2>2. ASSUME NEW k \in S, WaitsFor(l, k) PROVE FALSE
      <3>1. ~WriteLock
        BY <2>1, <2>2, ClaimantsWait DEF Claims
      <3>2. req[k].pc = "insert"
        BY <1>0, <2>1, <2>2, <3>1, AwaitedClaims
      <3> QED
        BY <1>2, <3>2
    <2> QED
      BY <2>2
  <1>3. CASE \A l \in S : req[l].pc \notin Claims
    BY <1>0, <1>3, AwaitedClaims
  <1> QED
    BY <1>1, <1>2, <1>3 DEF Claims

\* No processes wait for each other in a circle, however many there are and
\* whichever locks the database takes (take_draft_in_session, next_sequence).
THEOREM NobodyWaitsInACircle == Spec => []NoCircularWait
  <1>1. Init => HoldersClaim
    BY DraftAssumption DEF Init, HoldersClaim
  <1>2. IInv /\ HoldersClaim /\ [Next]_vars => HoldersClaim'
    BY HoldersStep
  <1>3. IInv /\ HoldersClaim => NoCircularWait
    BY FurthestGoesOn
  <1> QED
    BY <1>1, <1>2, <1>3, Invariant, PTL DEF Spec

---------------------------------------------------------------------------
(* DraftConfirmation implements DraftPromise.                              *)

\* A request that is about to cancel has found its draft, and as long as no
\* two processes served at once, the draft is still active (_owned_row,
\* discard_draft).
CancelsFit ==
    \A l \in Loops : req[l].pc \in {"lapse", "discard"} =>
       /\ draft[Target(l)].state # "ABSENT"
       /\ ~overlapped => draft[Target(l)].state = "ACTIVE"

\* No step forgets a draft, nor that processes have overlapped.
LEMMA DraftsStay ==
    ASSUME IInv, [Next]_vars
    PROVE  /\ \A d \in Drafts : draft[d].state # "ABSENT" => draft'[d].state # "ABSENT"
           /\ overlapped => overlapped'
  <1>0. draft \in [Drafts -> [state : States, task : Nat]]
    BY DEF IInv, TypeOK
  <1>1. ASSUME UNCHANGED draft PROVE \A d \in Drafts : draft[d].state # "ABSENT" => draft'[d].state # "ABSENT"
    BY <1>1
  <1>2. ASSUME NEW d \in Drafts, Stash(d) \/ Expire(d)
        PROVE  /\ \A e \in Drafts : draft[e].state # "ABSENT" => draft'[e].state # "ABSENT"
               /\ overlapped => overlapped'
    BY <1>0, <1>2 DEF Stash, Expire
  <1>3. ASSUME NEW l \in Loops, NEW op \in {"confirm", "cancel"}, NEW d \in Drafts,
               NEW p \in People, Start(l, op, d, p)
        PROVE  UNCHANGED draft /\ (overlapped => overlapped')
    BY <1>3 DEF Start
  <1>4. ASSUME NEW l \in Loops, Serve(l) \/ Fail(l)
        PROVE  /\ \A d \in Drafts : draft[d].state # "ABSENT" => draft'[d].state # "ABSENT"
               /\ overlapped' = overlapped
    <2>1. CASE CommitLapse(l) \/ CommitDiscard(l) \/ CommitTask(l)
      <3>1. Target(l) \in Drafts
        BY <2>1, Served DEF IInv, CommitLapse, CommitDiscard, CommitTask, At, Target, Requests
      <3>2. \/ draft' = [draft EXCEPT ![Target(l)].state = "CANCELLED"]
            \/ draft' = [draft EXCEPT ![Target(l)] = [state |-> "CONSUMED", task |-> req[l].seq]]
        BY <2>1 DEF CommitLapse, CommitDiscard, CommitTask
      <3>3. draft'[Target(l)].state \in {"CANCELLED", "CONSUMED"}
        BY <1>0, <3>1, <3>2
      <3>4. \A d \in Drafts \ {Target(l)} : draft'[d] = draft[d]
        BY <1>0, <3>1, <3>2
      <3> QED
        BY <2>1, <3>3, <3>4 DEF CommitLapse, CommitDiscard, CommitTask
    <2>2. CASE UNCHANGED <<draft, overlapped>>
      BY <2>2
    <2> QED
      BY <1>4, <2>1, <2>2 DEF Serve, Fail, Peek, ClaimRead, CancelRead, OwnedRow, Refuse,
         Completed, Expired, Policy, ClaimUpdate, ReadCounter, WriteCounter, DuplicateId
  <1>5. CASE UNCHANGED vars
    BY <1>5 DEF vars
  <1> QED
    BY <1>1, <1>2, <1>3, <1>4, <1>5 DEF Next

\* Only reading an active draft leads to the write of a cancellation.
LEMMA CancelsAreRead ==
    ASSUME IInv, NEW l \in Loops, Serve(l) \/ Fail(l),
           req'[l].pc \in {"lapse", "discard"}
    PROVE  /\ UNCHANGED draft /\ Target(l)' = Target(l)
           /\ draft[Target(l)].state = "ACTIVE"
  <1>0. TypeOK /\ (Serve(l) => req[l].pc # "idle")
    BY DEF IInv, Serve, Peek, ClaimRead, CancelRead, CommitLapse, Refuse, Completed, Expired,
       Policy, ClaimUpdate, ReadCounter, WriteCounter, CommitTask, DuplicateId, CommitDiscard, At
  <1>1. CASE \E code, task : Answer(l, code, task)
    BY <1>0, <1>1 DEF Answer, TypeOK, NoRequest
  <1>2. CASE \E pc \in Pcs \ {"lapse", "discard"} : Goto(l, pc)
    <2>1. PICK pc \in Pcs \ {"lapse", "discard"} : Goto(l, pc)
      BY <1>2
    <2>2. req[l] \in Requests \/ req[l] = NoRequest
      BY <1>0 DEF TypeOK
    <2>3. req'[l] = [req[l] EXCEPT !.pc = pc]
      BY <1>0, <2>1 DEF TypeOK, Goto
    <2>4. req'[l].pc = pc
      BY <2>2, <2>3 DEF Requests, NoRequest
    <2> QED
      BY <2>4
  <1>3. CASE ReadCounter(l)
    <2>1. req[l] \in Requests
      BY <1>0, <1>3, Served DEF ReadCounter, At
    <2> QED
      BY <1>0, <1>3, <2>1 DEF ReadCounter, TypeOK, Requests
  <1>4. CASE Peek(l) \/ ClaimRead(l) \/ CancelRead(l)
    <2>1. req[l] \in Requests
      BY <1>0, <1>4, Served DEF Peek, ClaimRead, CancelRead, At
    <2>2. PICK live \in {"policy", "update", "discard"}, dead \in {"completed", "expired"} :
             OwnedRow(l, live, dead)
      BY <1>4 DEF Peek, ClaimRead, CancelRead
    <2> DEFINE d == Target(l)
               r == IF draft[d].state = "ACTIVE" /\ d \in stale
                      THEN [req[l] EXCEPT !.pc = "lapse", !.after = dead]
                      ELSE [req[l] EXCEPT !.pc = IF draft[d].state = "ACTIVE" THEN live ELSE dead]
    <2>3. r.draft = req[l].draft
          /\ (draft[d].state # "ACTIVE" => r.pc \notin {"lapse", "discard"})
      BY <2>1 DEF Requests
    <2>4. req'[l] = r
      BY <1>0, <2>2 DEF OwnedRow, TypeOK, Target
    <2> HIDE DEF r
    <2> QED
      BY <2>2, <2>3, <2>4 DEF OwnedRow, Target
  <1>5. ASSUME CommitLapse(l) PROVE \E pc \in Pcs \ {"lapse", "discard"} : Goto(l, pc)
    BY <1>5 DEF IInv, Strength, LapsesEnd, CommitLapse, Pcs
  <1>6. ASSUME ClaimUpdate(l) \/ WriteCounter(l)
        PROVE  \E pc \in Pcs \ {"lapse", "discard"} : Goto(l, pc)
    BY <1>6 DEF ClaimUpdate, WriteCounter, Pcs
  <1>7. ASSUME Policy(l)
        PROVE  \/ \E code, task : Answer(l, code, task)
               \/ \E pc \in Pcs \ {"lapse", "discard"} : Goto(l, pc)
    BY <1>7 DEF Policy, Pcs
  <1>8. ASSUME \/ Refuse(l) \/ Completed(l) \/ Expired(l) \/ CommitTask(l)
               \/ CommitDiscard(l) \/ DuplicateId(l) \/ Fail(l)
        PROVE  \E code, task : Answer(l, code, task)
    BY <1>8 DEF Refuse, Completed, Expired, CommitTask, CommitDiscard, DuplicateId, Fail
  <1> QED
    BY <1>1, <1>2, <1>3, <1>4, <1>5, <1>6, <1>7, <1>8 DEF Serve

\* A step of a process changes no other request.
LEMMA OthersStay ==
    ASSUME TypeOK, NEW l \in Loops, Serve(l) \/ Fail(l)
    PROVE  /\ \A k \in Loops \ {l} : req'[k] = req[k]
           /\ req[l] # NoRequest
  <1>1. req[l] # NoRequest
    BY DEF Serve, Peek, ClaimRead, CancelRead, CommitLapse, Refuse, Completed, Expired,
       Policy, ClaimUpdate, ReadCounter, WriteCounter, CommitTask, DuplicateId, CommitDiscard,
       Fail, At, NoRequest
  <1>2. \E r : req' = [req EXCEPT ![l] = r]
    <2>1. CASE Peek(l) \/ ClaimRead(l) \/ CancelRead(l)
      <3>1. PICK live, dead : OwnedRow(l, live, dead)
        BY <2>1 DEF Peek, ClaimRead, CancelRead
      <3> QED
        BY <3>1 DEF OwnedRow
    <2>2. CASE \E pc : Goto(l, pc)
      BY <2>2 DEF Goto
    <2>3. CASE \E code, task : Answer(l, code, task)
      BY <2>3 DEF Answer
    <2>4. CASE ReadCounter(l)
      BY <2>4 DEF ReadCounter
    <2> QED
      BY <2>1, <2>2, <2>3, <2>4 DEF Serve, CommitLapse, Refuse, Completed, Expired, Policy,
         ClaimUpdate, WriteCounter, CommitTask, DuplicateId, CommitDiscard, Fail
  <1> QED
    BY <1>1, <1>2 DEF TypeOK

LEMMA CancelsStep == ASSUME IInv, CancelsFit, [Next]_vars PROVE CancelsFit'
  <1>0. TypeOK
    BY DEF IInv
  <1> SUFFICES ASSUME NEW l \in Loops, req'[l].pc \in {"lapse", "discard"}
               PROVE  /\ draft'[req'[l].draft].state # "ABSENT"
                      /\ ~overlapped' => draft'[req'[l].draft].state = "ACTIVE"
    BY DEF CancelsFit, Target
  <1>1. ASSUME req'[l] = req[l],
               ~overlapped' => UNCHANGED draft
        PROVE  /\ draft'[req'[l].draft].state # "ABSENT"
               /\ ~overlapped' => draft'[req'[l].draft].state = "ACTIVE"
    <2>1. Target(l) \in Drafts
      BY <1>0, <1>1, Served DEF Requests, Target
    <2> QED
      BY <1>1, <2>1, DraftsStay DEF CancelsFit, Target
  <1>2. ASSUME NEW d \in Drafts, Stash(d) \/ Expire(d)
        PROVE  /\ draft'[req'[l].draft].state # "ABSENT"
               /\ ~overlapped' => draft'[req'[l].draft].state = "ACTIVE"
    <2>1. req'[l] = req[l] /\ overlapped' = overlapped /\ Target(l) \in Drafts
      <3>1. req'[l] = req[l] /\ overlapped' = overlapped
        BY <1>2 DEF Stash, Expire
      <3> QED
        BY <1>0, <3>1, Served DEF Requests, Target
    <2>2. draft'[Target(l)] = draft[Target(l)]
      BY <1>0, <1>2, <2>1 DEF Stash, Expire, CancelsFit, TypeOK
    <2> QED
      BY <2>1, <2>2 DEF CancelsFit, Target
  <1>3. ASSUME NEW k \in Loops, NEW op \in {"confirm", "cancel"}, NEW d \in Drafts,
               NEW p \in People, Start(k, op, d, p)
        PROVE  req'[l] = req[l] /\ UNCHANGED draft
    <2>1. k # l
      BY <1>0, <1>3 DEF Start, TypeOK
    <2> QED
      BY <1>0, <1>3, <2>1 DEF Start, TypeOK
  <1>4. ASSUME NEW k \in Loops, Serve(k) \/ Fail(k)
        PROVE  /\ draft'[req'[l].draft].state # "ABSENT"
               /\ ~overlapped' => draft'[req'[l].draft].state = "ACTIVE"
    <2>1. CASE k = l
      BY <1>4, <2>1, CancelsAreRead DEF Target
    <2>2. CASE k # l
      <3>1. req'[l] = req[l] /\ req[k] # NoRequest
        BY <1>0, <1>4, <2>2, OthersStay
      <3>2. req[l] # NoRequest
        BY <3>1 DEF NoRequest
      <3>3. overlapped
        BY <2>2, <3>1, <3>2 DEF IInv, Strength, OneAtATime
      <3>4. overlapped'
        BY <3>3, DraftsStay
      <3> QED
        BY <1>1, <3>1, <3>4
    <2> QED
      BY <2>1, <2>2
  <1>5. CASE UNCHANGED vars
    BY <1>1, <1>5 DEF vars
  <1> QED
    BY <1>1, <1>2, <1>3, <1>4, <1>5 DEF Next

\* The list of the drafts of the tasks, by their numbers.
MadeFits == /\ counter \in Nat /\ Made \in Seq(Drafts) /\ Len(Made) = counter
            /\ \A t \in tasks : t.id \in 1..counter /\ Made[t.id] = t.draft
LEMMA MadeIs == ASSUME IInv PROVE MadeFits
  <1>1. counter \in Nat /\ tasks \in SUBSET [id : Nat \ {0}, draft : Drafts]
    BY DEF IInv, TypeOK
  <1>2. /\ \A t \in tasks : t.id \in 1..counter
        /\ \A n \in 1..counter : \E t \in tasks : t.id = n
    BY DEF IInv, Safety, NumbersAreDense
  <1>3. \A t, u \in tasks : t.id = u.id => t = u
    BY DEF IInv, Safety, OneTaskPerDraft
  <1>4. ASSUME NEW n \in 1..counter
        PROVE  (CHOOSE t \in tasks : t.id = n) \in tasks /\ (CHOOSE t \in tasks : t.id = n).id = n
    BY <1>2
  <1>5. Made \in [1..counter -> Drafts]
    BY <1>1, <1>4 DEF Made
  <1>6. Made \in Seq(Drafts) /\ Len(Made) = counter
    BY <1>1, <1>5
  <1>7. ASSUME NEW t \in tasks PROVE Made[t.id] = t.draft
    <2>1. Made[t.id] = (CHOOSE u \in tasks : u.id = t.id).draft
      BY <1>2 DEF Made
    <2>2. (CHOOSE u \in tasks : u.id = t.id) = t
      BY <1>2, <1>3, <1>4
    <2> QED
      BY <2>1, <2>2
  <1> QED
    BY <1>1, <1>2, <1>6, <1>7 DEF MadeFits

\* A task with the next number is appended to it.
LEMMA MadeGrows ==
    ASSUME IInv, MadeFits', NEW d \in Drafts, counter' = counter + 1,
           tasks' = tasks \union {[id |-> counter + 1, draft |-> d]}
    PROVE  Made' = Append(Made, d)
  <1>1. /\ counter \in Nat /\ Made \in Seq(Drafts) /\ Len(Made) = counter
        /\ \A t \in tasks : t.id \in 1..counter /\ Made[t.id] = t.draft
    BY MadeIs DEF MadeFits
  <1>2. /\ Made' \in Seq(Drafts) /\ Len(Made') = counter + 1
        /\ \A t \in tasks' : Made'[t.id] = t.draft
    BY DEF MadeFits
  <1>3. Made'[counter + 1] = d
    <2>1. PICK t \in tasks' : t = [id |-> counter + 1, draft |-> d]
      OBVIOUS
    <2> QED
      BY <1>2, <2>1
  <1>4. ASSUME NEW n \in 1..counter PROVE Made'[n] = Made[n]
    <2>1. PICK t \in tasks : t.id = n
      BY DEF IInv, Safety, NumbersAreDense
    <2> QED
      BY <1>1, <1>2, <2>1
  <1> HIDE DEF Made
  <1>5. PICK m \in Seq(Drafts) : m = Made /\ Len(m) = counter
    BY <1>1
  <1>6. PICK w \in Seq(Drafts) : w = Made' /\ Len(w) = counter + 1
    BY <1>2
  <1>7. /\ Append(m, d) \in Seq(Drafts) /\ Len(Append(m, d)) = counter + 1
        /\ Append(m, d)[counter + 1] = d
        /\ \A n \in 1..counter : Append(m, d)[n] = m[n]
    BY <1>1, <1>5
  <1>8. \A n \in 1..(counter + 1) : w[n] = Append(m, d)[n]
    BY <1>1, <1>3, <1>4, <1>5, <1>6, <1>7
  <1>9. w = Append(m, d)
    <2>1. w \in [1..(counter + 1) -> Drafts] /\ Append(m, d) \in [1..(counter + 1) -> Drafts]
      <3>1. \A q \in Seq(Drafts) : q \in [1..Len(q) -> Drafts]
        OBVIOUS
      <3> QED
        BY <1>6, <1>7, <3>1
    <2> QED
      BY <1>8, <2>1
  <1> QED
    BY <1>5, <1>6, <1>9

\* The rows of the promise are those of the drafts and tasks.
LEMMA SameRows ==
    ASSUME UNCHANGED <<draft, counter, tasks>> PROVE UNCHANGED <<StateOf, Made>>
  BY DEF StateOf, Made

\* A step that writes and tells nothing of drafts and tasks.
LEMMA Stutters ==
    ASSUME UNCHANGED <<draft, counter, tasks, answers, overlapped>>
    PROVE  UNCHANGED Promise!vars
  BY SameRows DEF Promise!vars, Told

\* What an answer adds to what is told of tasks and cancellations.
LEMMA ToldMore ==
    ASSUME TypeOK, NEW l \in Loops, NEW code, NEW task, Answer(l, code, task)
    PROVE  /\ code \in {"TASK_CREATED", "DRAFT_CANCELLED"} =>
                 Told' = Told \union {[draft |-> Target(l), code |-> code, task |-> task]}
           /\ code \notin {"TASK_CREATED", "DRAFT_CANCELLED"} => Told' = Told
  <1> DEFINE a == [draft |-> Target(l), code |-> code, task |-> task]
  <1>1. answers' = answers \union {a} /\ a.code = code
    BY DEF Answer
  <1> HIDE DEF a
  <1>2. Told' = {b \in answers \union {a} : b.code \in {"TASK_CREATED", "DRAFT_CANCELLED"}}
    BY <1>1 DEF Told
  <1>3. code \in {"TASK_CREATED", "DRAFT_CANCELLED"} => Told' = Told \union {a}
    BY <1>1, <1>2 DEF Told
  <1>4. code \notin {"TASK_CREATED", "DRAFT_CANCELLED"} => Told' = Told
    BY <1>1, <1>2 DEF Told
  <1> QED
    BY <1>3, <1>4 DEF a

\* The state of one draft changes.
LEMMA StateChanges ==
    ASSUME TypeOK, NEW d \in Drafts, NEW s, NEW task,
           \/ draft' = [draft EXCEPT ![d].state = s]
           \/ draft' = [draft EXCEPT ![d] = [state |-> s, task |-> task]]
    PROVE  StateOf' = [StateOf EXCEPT ![d] = s] /\ StateOf[d] = draft[d].state
  <1>1. draft \in [Drafts -> [state : States, task : Nat]]
    BY DEF TypeOK
  <1>2. draft'[d].state = s
    BY <1>1
  <1>3. \A e \in Drafts \ {d} : draft'[e] = draft[e]
    BY <1>1
  <1> QED
    BY <1>2, <1>3 DEF StateOf

Stands == [Promise!Next]_Promise!vars

\* An answer that writes no row: an error or a refusal tells nothing, and the
\* task a consumed draft has become is on the list.
LEMMA AnswerStands ==
    ASSUME IInv, NEW l \in Loops, NEW code, NEW task, Answer(l, code, task),
           UNCHANGED <<draft, counter, tasks, overlapped>>,
           \/ code \notin {"TASK_CREATED", "DRAFT_CANCELLED"}
           \/ /\ code = "TASK_CREATED" /\ Target(l) \in Drafts
              /\ draft[Target(l)].state = "CONSUMED" /\ draft[Target(l)].task = task
    PROVE  Stands
  <1>0. TypeOK /\ UNCHANGED <<StateOf, Made>>
    BY SameRows DEF IInv
  <1>1. CASE code \notin {"TASK_CREATED", "DRAFT_CANCELLED"}
    <2>1. Told' = Told
      BY <1>0, <1>1, ToldMore
    <2> QED
      BY <1>0, <2>1 DEF Stands, Promise!vars
  <1>2. CASE code = "TASK_CREATED" /\ Target(l) \in Drafts
             /\ draft[Target(l)].state = "CONSUMED" /\ draft[Target(l)].task = task
    <2>1. PICK d \in Drafts : d = Target(l)
      BY <1>2
    <2>2. Told' = Told \union {Promise!Created(d, task)}
      BY <1>0, <1>2, <2>1, ToldMore DEF Promise!Created
    <2>3. [id |-> task, draft |-> d] \in tasks
      BY <1>2, <2>1 DEF IInv, Safety, DraftNamesItsTask
    <2>4. task \in 1..Len(Made) /\ Made[task] = d
      BY <2>3, MadeIs DEF MadeFits
    <2>5. StateOf[d] = "CONSUMED"
      BY <1>2, <2>1 DEF StateOf
    <2>6. Promise!Tell(Promise!Created(d, task))
      BY <2>2 DEF Promise!Tell
    <2>7. Promise!Repeat(d)
      BY <1>0, <2>4, <2>5, <2>6 DEF Promise!Repeat
    <2> QED
      BY <2>7 DEF Stands, Promise!Next
  <1> QED
    BY <1>1, <1>2

\* What the claim, the number and the insert come to: one step.
LEMMA CommitTaskStands ==
    ASSUME IInv, MadeFits', NEW l \in Loops, CommitTask(l)
    PROVE  Stands
  <1>0. TypeOK
    BY DEF IInv
  <1>1. /\ req[l].pc = "insert" /\ Target(l) \in Drafts
        /\ draft[Target(l)].state = "ACTIVE"
    BY Served DEF IInv, CommitTask, At, Target, Requests, Strength, ClaimsHold, Claims
  <1>2. PICK d \in Drafts : d = Target(l)
    BY <1>1
  <1>3. req[l].seq = counter + 1
    <2>1. req[l].seq \in 1..(counter + 1)
      BY <1>1 DEF IInv, Strength, NumbersFit
    <2> QED
      BY <1>0, <2>1, TheNextNumber DEF CommitTask, IInv, Safety
  <1>4. /\ draft' = [draft EXCEPT ![d] = [state |-> "CONSUMED", task |-> counter + 1]]
        /\ counter' = counter + 1
        /\ tasks' = tasks \union {[id |-> counter + 1, draft |-> d]}
        /\ UNCHANGED overlapped
    BY <1>2, <1>3 DEF CommitTask
  <1>5. StateOf[d] = "ACTIVE" /\ StateOf' = [StateOf EXCEPT ![d] = "CONSUMED"]
    BY <1>0, <1>1, <1>2, <1>4, StateChanges
  <1>6. Made' = Append(Made, d) /\ Len(Made) + 1 = counter + 1
    BY <1>4, MadeGrows, MadeIs DEF MadeFits
  <1>7. Answer(l, "TASK_CREATED", counter + 1) \/ Answer(l, "ERROR", 0)
    BY <1>3 DEF CommitTask
  <1>8. Promise!Tell(Promise!Created(d, counter + 1))
    <2>1. \/ Told' = Told
          \/ Told' = Told \union {[draft |-> Target(l), code |-> "TASK_CREATED", task |-> counter + 1]}
      BY <1>0, <1>7, ToldMore
    <2> QED
      BY <1>2, <2>1 DEF Promise!Tell, Promise!Created
  <1>9. Promise!Make(d)
    BY <1>4, <1>5, <1>6, <1>8 DEF Promise!Make
  <1> QED
    BY <1>9 DEF Stands, Promise!Next

\* The write of a cancellation or of a lapse cancels the draft.
LEMMA CancelStands ==
    ASSUME IInv, CancelsFit, NEW l \in Loops, CommitLapse(l) \/ CommitDiscard(l)
    PROVE  Stands
  <1>0. TypeOK
    BY DEF IInv
  <1>1. /\ req[l].pc \in {"lapse", "discard"} /\ Target(l) \in Drafts
        /\ UNCHANGED <<counter, tasks, overlapped>>
        /\ draft' = [draft EXCEPT ![Target(l)].state = "CANCELLED"]
    BY <1>0, Served DEF CommitLapse, CommitDiscard, At, Target, Requests
  <1>2. PICK d \in Drafts : d = Target(l)
    BY <1>1
  <1>3. StateOf[d] = draft[d].state /\ StateOf' = [StateOf EXCEPT ![d] = "CANCELLED"]
    BY <1>0, <1>1, <1>2, StateChanges
  <1>4. draft[d].state = "ACTIVE" \/ (overlapped /\ draft[d].state \in {"CONSUMED", "CANCELLED"})
    <2>1. draft[d].state \in States /\ overlapped \in BOOLEAN
      BY <1>0 DEF TypeOK
    <2> QED
      BY <1>1, <1>2, <2>1 DEF CancelsFit, States
  <1>5. Promise!Tell(Promise!Cancelled(d))
    <2>1. CASE CommitLapse(l)
      BY <2>1 DEF CommitLapse, Told, Promise!Tell
    <2>2. CASE CommitDiscard(l)
      <3>1. Told' = Told \union {[draft |-> Target(l), code |-> "DRAFT_CANCELLED", task |-> 0]}
        BY <1>0, <2>2, ToldMore DEF CommitDiscard
      <3> QED
        BY <1>2, <3>1 DEF Promise!Tell, Promise!Cancelled
    <2> QED
      BY <2>1, <2>2
  <1>6. UNCHANGED Made
    BY <1>1 DEF Made
  <1>7. Promise!Cancel(d)
    BY <1>1, <1>3, <1>4, <1>5, <1>6 DEF Promise!Cancel
  <1> QED
    BY <1>7 DEF Stands, Promise!Next

LEMMA StepStands == ASSUME IInv, MadeFits', CancelsFit, [Next]_vars PROVE Stands
  <1>0. TypeOK
    BY DEF IInv
  <1>1. ASSUME UNCHANGED <<draft, counter, tasks, answers, overlapped>> PROVE Stands
    BY <1>1, Stutters DEF Stands
  <1>2. ASSUME NEW d \in Drafts, Stash(d) PROVE Stands
    <2>1. StateOf[d] = "ABSENT" /\ StateOf' = [StateOf EXCEPT ![d] = "ACTIVE"]
      BY <1>0, <1>2, StateChanges DEF Stash
    <2>2. UNCHANGED <<Made, Told, overlapped>>
      BY <1>2 DEF Stash, Made, Told
    <2>3. Promise!Stash(d)
      BY <2>1, <2>2 DEF Promise!Stash
    <2> QED
      BY <2>3 DEF Stands, Promise!Next
  <1>3. ASSUME NEW l \in Loops, NEW op \in {"confirm", "cancel"}, NEW d \in Drafts,
               NEW p \in People, Start(l, op, d, p)
        PROVE  Stands
    <2>1. UNCHANGED <<StateOf, Made, Told>>
      BY <1>3, SameRows DEF Start, Told
    <2>2. overlapped' \in {overlapped, TRUE}
      BY <1>0, <1>3 DEF Start, TypeOK
    <2> QED
      BY <2>1, <2>2 DEF Stands, Promise!Next, Promise!Overlap, Promise!vars
  <1>4. ASSUME NEW l \in Loops, Serve(l) \/ Fail(l) PROVE Stands
    <2>1. CASE Refuse(l) \/ Expired(l) \/ DuplicateId(l) \/ Fail(l)
      <3>1. \E code \in {"NOT_DRAFT_REQUESTER", "DRAFT_EXPIRED", "ERROR"} : Answer(l, code, 0)
        BY <2>1 DEF Refuse, Expired, DuplicateId, Fail
      <3>2. UNCHANGED <<draft, counter, tasks, overlapped>>
        BY <2>1 DEF Refuse, Expired, DuplicateId, Fail
      <3> QED
        BY <3>1, <3>2, AnswerStands
    <2>2. CASE Completed(l)
      <3>1. Target(l) \in Drafts /\ UNCHANGED <<draft, counter, tasks, overlapped>>
        BY <1>0, <2>2, Served DEF Completed, At, Target, Requests
      <3>2. CASE draft[Target(l)].state = "CONSUMED" /\ draft[Target(l)].task # 0
        BY <2>2, <3>1, <3>2, AnswerStands DEF Completed
      <3>3. CASE ~(draft[Target(l)].state = "CONSUMED" /\ draft[Target(l)].task # 0)
        BY <2>2, <3>1, <3>3, AnswerStands DEF Completed
      <3> QED
        BY <3>2, <3>3
    <2>3. CASE Policy(l)
      <3>1. CASE Answer(l, "ASSIGNMENT_DENIED", 0)
        BY <2>3, <3>1, AnswerStands DEF Policy
      <3>2. CASE UNCHANGED answers
        BY <1>1, <2>3, <3>2 DEF Policy
      <3> QED
        BY <2>3, <3>1, <3>2 DEF Policy
    <2>4. CASE \/ Peek(l) \/ ClaimRead(l) \/ CancelRead(l)
               \/ ClaimUpdate(l) \/ ReadCounter(l) \/ WriteCounter(l)
      BY <1>1, <2>4 DEF Peek, ClaimRead, CancelRead, OwnedRow, ClaimUpdate, ReadCounter, WriteCounter
    <2>5. CASE CommitLapse(l) \/ CommitDiscard(l)
      BY <2>5, CancelStands
    <2>6. CASE CommitTask(l)
      BY <2>6, CommitTaskStands
    <2> QED
      BY <1>4, <2>1, <2>2, <2>3, <2>4, <2>5, <2>6 DEF Serve
  <1>5. ASSUME NEW d \in Drafts, Expire(d) PROVE Stands
    BY <1>1, <1>5 DEF Expire
  <1>6. CASE UNCHANGED vars
    BY <1>1, <1>6 DEF vars
  <1> QED
    BY <1>2, <1>3, <1>4, <1>5, <1>6 DEF Next

LEMMA InitStands == ASSUME Init PROVE Promise!Init /\ CancelsFit
  <1>1. StateOf = [d \in Drafts |-> "ABSENT"]
    BY DEF Init, StateOf
  <1>2. Made = << >>
    <2>1. 1..counter = {}
      BY DEF Init
    <2> QED
      BY <2>1 DEF Made
  <1>3. Told = {}
    BY DEF Init, Told
  <1> QED
    BY <1>1, <1>2, <1>3 DEF Init, Promise!Init, CancelsFit, NoRequest

\* The drafts, tasks and answers of any number of processes are those of the
\* promise: the claim, the number, the insert and the commit come to one step
\* of an active draft, and nothing takes a task back or doubles it
\* (application/drafts.py, bot/drafts.py, create_from_draft).
THEOREM PromiseIsKept == Spec => ImplementsPromise
  <1>1. Init => Promise!Init /\ CancelsFit
    BY InitStands
  <1>2. IInv /\ CancelsFit /\ [Next]_vars => CancelsFit'
    BY CancelsStep
  <1>3. IInv => MadeFits
    BY MadeIs
  <1>4. IInv /\ MadeFits' /\ CancelsFit /\ [Next]_vars => [Promise!Next]_Promise!vars
    BY StepStands DEF Stands
  <1> QED
    BY <1>1, <1>2, <1>3, <1>4, Invariant, PTL DEF Spec, ImplementsPromise, Promise!Spec
=============================================================================
