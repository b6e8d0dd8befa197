-------------------------- MODULE LlmGateway_proofs --------------------------
(***************************************************************************)
(* Proofs about LlmGateway for any number of turns, attempts and rounds of *)
(* tools, any threshold, any capacity of the buckets, any interval and any *)
(* limit of a day.                                                         *)
(***************************************************************************)
EXTENDS LlmGateway, FiniteSetTheorems, TLAPS

---------------------------------------------------------------------------
(* The inductive invariant.                                                *)

Places == {"new", "ask", "rpm", "tpm", "nap", "wake", "call", "over"}
Positions == [pc : Places, attempt : 1..LastAttempt, stage : 1..MaxStages,
              made : 0..DailyLimit, blind : BOOLEAN, paced : BOOLEAN, late : BOOLEAN]

\* A turn that has sent since the last pause finds the time of the last
\* request set, and is not among those who have slept.
PacedWaits(r) == r.paced => MinInterval # "off" /\ spacing /\ r.pc # "wake"

\* A turn that has sent since the totals reached the limit passes the check
\* of the totals only if the store cannot be asked.
Cleared == {"rpm", "tpm", "nap", "wake"}
LateIsBlind(r) == r.late => AtLimit /\ (r.pc \in Cleared => r.blind)

TurnsFit ==
    /\ turn \in [Turns -> Positions]
    /\ \A t \in Turns : PacedWaits(turn[t]) /\ LateIsBlind(turn[t])

\* Only a breaker that is not closed has a clock, and only the end of
\* open_seconds after the last failure lets it be half open.
ClockRests ==
    /\ breaker.cooled => breaker.state # "closed" /\ rested
    /\ breaker.state = "half_open" => rested

\* Every failure in a row is that of a turn that is over.
Finished == {t \in Turns : turn[t].pc = "over"}
FailuresAreOfTurns == streak <= Cardinality(Finished)

BreakerFits ==
    /\ breaker \in [state : {"closed", "open", "half_open"}, failures : Nat, cooled : BOOLEAN]
    /\ streak \in Nat /\ rested \in BOOLEAN
    /\ BreakerCountsFailedTurns /\ ClockRests

GovernorFits == rpm \in 0..RpmCap /\ tpm \in 0..TpmCap /\ spacing \in BOOLEAN
UsageFits == usage \in 0..DailyLimit /\ record \in [Turns -> 0..DailyLimit]

IInv == TurnsFit /\ FailuresAreOfTurns /\ BreakerFits /\ GovernorFits /\ UsageFits

---------------------------------------------------------------------------
(* The turns.                                                              *)

LEMMA Constants ==
    /\ MaxTurns \in Nat /\ MaxStages \in Nat /\ 1 <= MaxStages
    /\ Threshold \in Nat /\ 1 <= Threshold
    /\ MaxAttempts \in Nat /\ 1 <= MaxAttempts
    /\ LastAttempt \in Nat /\ 1 <= LastAttempt
    /\ RpmCap \in Nat /\ TpmCap \in Nat /\ DailyLimit \in Nat /\ 1 <= DailyLimit
  BY GatewayAssumption DEF GatewayAssumption, LastAttempt

LEMMA FinishedAreFinite ==
    /\ IsFiniteSet(Finished) /\ Cardinality(Finished) \in Nat
    /\ Cardinality(Finished) <= MaxTurns
  <1>1. IsFiniteSet(1..MaxTurns) /\ Cardinality(1..MaxTurns) = MaxTurns
    BY FS_Interval, Constants
  <1>2. Finished \subseteq 1..MaxTurns
    BY DEF Finished, Turns
  <1> QED
    BY <1>1, <1>2, FS_Subset, FS_CardinalityType

\* No turn that is over goes on.
LEMMA FailuresStay ==
    ASSUME FailuresAreOfTurns, Finished \subseteq Finished', streak' \in {0, streak},
           streak \in Nat
    PROVE  FailuresAreOfTurns'
  <1>1. IsFiniteSet(Finished') /\ Cardinality(Finished') \in Nat
    <2>1. IsFiniteSet(1..MaxTurns)
      BY FS_Interval, Constants
    <2>2. Finished' \subseteq 1..MaxTurns
      BY DEF Finished, Turns
    <2> QED
      BY <2>1, <2>2, FS_Subset, FS_CardinalityType
  <1>2. Cardinality(Finished) <= Cardinality(Finished')
    BY <1>1, FS_Subset
  <1> QED
    BY <1>1, <1>2, FinishedAreFinite DEF FailuresAreOfTurns

\* A turn that was not over makes a step: the interval it waits for is not
\* over, and the totals do not fall.
LEMMA StepOfTurn ==
    ASSUME IInv, NEW t \in Turns, turn[t].pc # "over", NEW r \in Positions, GoesOn(t, r),
           MinInterval # "off" /\ spacing => spacing', usage' = usage,
           PacedWaits(r)', LateIsBlind(r)', streak' \in {0, streak}
    PROVE  TurnsFit' /\ FailuresAreOfTurns'
  <1>1. /\ turn' \in [Turns -> Positions] /\ turn'[t] = r
        /\ \A k \in Turns \ {t} : turn'[k] = turn[k]
    BY DEF GoesOn, IInv, TurnsFit
  <1>2. ASSUME NEW k \in Turns
        PROVE  (PacedWaits(turn[k]) /\ LateIsBlind(turn[k]))'
    <2>1. CASE k = t
      BY <1>1, <2>1 DEF PacedWaits, LateIsBlind
    <2>2. CASE k # t
      BY <1>1, <2>2 DEF IInv, TurnsFit, PacedWaits, LateIsBlind, AtLimit
    <2> QED
      BY <2>1, <2>2
  <1>3. Finished \subseteq Finished'
    BY <1>1 DEF Finished
  <1>4. FailuresAreOfTurns'
    BY <1>3, FailuresStay DEF IInv, BreakerFits
  <1> QED
    BY <1>1, <1>2, <1>4 DEF TurnsFit

LEMMA StandsSomewhere ==
    ASSUME IInv, NEW t \in Turns
    PROVE  turn[t] \in Positions /\ PacedWaits(turn[t]) /\ LateIsBlind(turn[t])
  BY DEF IInv, TurnsFit

LEMMA OverFits ==
    /\ Over \in Positions /\ Over.pc = "over" /\ ~Over.paced /\ ~Over.late
    /\ New \in Positions /\ New.pc = "new" /\ ~New.paced /\ ~New.late
  <1>1. 1 \in 1..LastAttempt /\ 1 \in 1..MaxStages /\ 0 \in 0..DailyLimit
    BY Constants
  <1>2. New \in Positions /\ New.pc = "new" /\ ~New.paced /\ ~New.late
    BY <1>1 DEF New, Positions, Places
  <1>3. Over \in Positions /\ Over.pc = "over"
    BY <1>2 DEF Over, Positions, Places
  <1>4. ~Over.paced /\ ~Over.late
    BY DEF Over, New
  <1> QED
    BY <1>2, <1>3, <1>4

\* A turn ends.
LEMMA StepToOver ==
    ASSUME IInv, NEW t \in Turns, turn[t].pc # "over", GoesOn(t, Over),
           UNCHANGED <<spacing, usage>>, streak' \in {0, streak}
    PROVE  TurnsFit' /\ FailuresAreOfTurns'
  <1>1. PICK r \in Positions : r = Over
    BY OverFits
  <1>2. PacedWaits(r)' /\ LateIsBlind(r)'
    BY <1>1, OverFits DEF PacedWaits, LateIsBlind
  <1> QED
    BY <1>1, <1>2, StepOfTurn

\* A turn goes on without sending.
LEMMA StepToWait ==
    ASSUME IInv, NEW t \in Turns, turn[t].pc # "over", NEW r \in Positions, GoesOn(t, r),
           UNCHANGED <<spacing, usage, streak>>, r.paced = turn[t].paced, r.late = turn[t].late,
           r.pc # "wake", r.late /\ r.pc \in Cleared => r.blind
    PROVE  TurnsFit' /\ FailuresAreOfTurns'
  <1>1. PacedWaits(r)' /\ LateIsBlind(r)'
    BY StandsSomewhere DEF PacedWaits, LateIsBlind, AtLimit
  <1> QED
    BY <1>1, StepOfTurn

\* A turn sends its request.
LEMMA StepToCall ==
    ASSUME IInv, NEW t \in Turns, turn[t].pc # "over", GoesOn(t, Sent(t)),
           UNCHANGED <<usage, streak>>, MinInterval # "off" => spacing'
    PROVE  TurnsFit' /\ FailuresAreOfTurns'
  <1>1. PICK q \in Positions : turn[t] = q /\ PacedWaits(q) /\ LateIsBlind(q)
    BY StandsSomewhere
  <1>2. PICK made \in 0..DailyLimit : made = Minimum(DailyLimit, q.made + 1)
    <2>1. q.made \in 0..DailyLimit
      BY DEF Positions
    <2> QED
      BY <2>1, Constants DEF Minimum
  <1>3. PICK r \in Positions : /\ GoesOn(t, r) /\ r.pc = "call"
                               /\ r.paced => MinInterval # "off"
                               /\ r.late => AtLimit
    <2> DEFINE paced == MinInterval # "off"
               late == q.late \/ (AtLimit /\ ~q.blind)
               e == [q EXCEPT !.pc = "call", !.made = made, !.blind = FALSE,
                              !.paced = paced, !.late = late]
    <2>1. GoesOn(t, e)
      BY <1>1, <1>2 DEF Sent, Moved
    <2>2. paced \in BOOLEAN /\ late \in BOOLEAN /\ (late => AtLimit)
      BY <1>1 DEF LateIsBlind, Positions
    <2> HIDE DEF paced, late
    <2>3. e \in Positions /\ e.pc = "call"
      BY <2>2 DEF Positions, Places
    <2>4. e.paced = paced /\ e.late = late
      BY DEF Positions
    <2>5. (e.paced => paced) /\ (e.late => late)
      BY <2>4, Zenon
    <2> HIDE DEF e
    <2> QED
      BY <2>1, <2>2, <2>3, <2>5 DEF paced
  <1>4. PacedWaits(r)'
    BY <1>3 DEF PacedWaits
  <1>5. LateIsBlind(r)'
    BY <1>3 DEF LateIsBlind, AtLimit, Cleared
  <1> QED
    BY <1>1, <1>3, <1>4, <1>5, StepOfTurn

---------------------------------------------------------------------------
(* The circuit breaker.                                                    *)

LEMMA VerdictsStay == ASSUME BreakerFits, UNCHANGED verdicts PROVE BreakerFits'
  BY DEF BreakerFits, verdicts, BreakerCountsFailedTurns, ClockRests

LEMMA AskedFits ==
    ASSUME BreakerFits, breaker' = Asked(breaker), UNCHANGED <<streak, rested>>
    PROVE  BreakerFits'
  <1>1. CASE breaker.state = "open" /\ breaker.cooled
    <2>1. breaker' = [breaker EXCEPT !.state = "half_open"]
      BY <1>1 DEF Asked
    <2> QED
      BY <1>1, <2>1 DEF BreakerFits, BreakerCountsFailedTurns, ClockRests
  <1>2. CASE ~(breaker.state = "open" /\ breaker.cooled)
    BY <1>2, VerdictsStay DEF Asked, verdicts
  <1> QED
    BY <1>1, <1>2

LEMMA SuccessFits ==
    ASSUME BreakerFits, breaker' = AfterSuccess(breaker), streak' = 0, UNCHANGED rested
    PROVE  BreakerFits'
  <1>1. /\ breaker'.state = "closed" /\ breaker'.failures = 0 /\ ~breaker'.cooled
        /\ breaker' \in [state : {"closed", "open", "half_open"}, failures : Nat,
                          cooled : BOOLEAN]
    BY DEF AfterSuccess, Closed
  <1>2. 0 < Threshold
    BY Constants
  <1> QED
    BY <1>1, <1>2 DEF BreakerFits, BreakerCountsFailedTurns, ClockRests

LEMMA FailureFits ==
    ASSUME BreakerFits, breaker' = AfterFailure(breaker), streak' = streak + 1, rested' = FALSE
    PROVE  BreakerFits'
  <1>1. breaker.failures \in Nat /\ breaker.failures = streak /\ streak + 1 \in Nat
    BY DEF BreakerFits, BreakerCountsFailedTurns
  <1> DEFINE n == streak + 1
  <1>2. n \in Nat
    BY <1>1
  <1>3. CASE n >= Threshold
    <2>1. breaker' = [state |-> "open", failures |-> n, cooled |-> FALSE]
      BY <1>1, <1>3 DEF AfterFailure
    <2>2. ~(n < Threshold)
      BY <1>2, <1>3, Constants
    <2> HIDE DEF n
    <2>3. /\ breaker'.state = "open" /\ breaker'.failures = n /\ ~breaker'.cooled
          /\ breaker' \in [state : {"closed", "open", "half_open"}, failures : Nat,
                            cooled : BOOLEAN]
      BY <1>2, <2>1
    <2> QED
      BY <1>2, <2>2, <2>3 DEF n, BreakerFits, BreakerCountsFailedTurns, ClockRests
  <1>4. CASE n < Threshold
    <2>1. streak < Threshold /\ ~(n >= Threshold)
      BY <1>1, <1>4, Constants
    <2>2. breaker.state = "closed" /\ ~breaker.cooled
      BY <2>1 DEF BreakerFits, BreakerCountsFailedTurns, ClockRests
    <2>3. breaker' = [breaker EXCEPT !.failures = n]
      BY <1>1, <2>1 DEF AfterFailure
    <2> HIDE DEF n
    <2>4. /\ breaker'.state = "closed" /\ breaker'.failures = n /\ ~breaker'.cooled
          /\ breaker' \in [state : {"closed", "open", "half_open"}, failures : Nat,
                            cooled : BOOLEAN]
      BY <1>2, <2>2, <2>3 DEF BreakerFits
    <2> QED
      BY <1>2, <1>4, <2>4 DEF n, BreakerFits, BreakerCountsFailedTurns, ClockRests
  <1> QED
    BY <1>2, <1>3, <1>4, Constants

LEMMA OpenSecondsPassInv == ASSUME IInv, OpenSecondsPass PROVE IInv'
  <1>1. BreakerFits'
    <2>1. CASE breaker.state = "open"
      BY <2>1 DEF OpenSecondsPass, IInv, BreakerFits, BreakerCountsFailedTurns, ClockRests
    <2>2. CASE breaker.state # "open"
      BY <2>2 DEF OpenSecondsPass, IInv, BreakerFits, BreakerCountsFailedTurns, ClockRests
    <2> QED
      BY <2>1, <2>2
  <1>2. TurnsFit' /\ FailuresAreOfTurns'
    BY DEF OpenSecondsPass, governor, IInv, TurnsFit, FailuresAreOfTurns, Finished,
       PacedWaits, LateIsBlind, AtLimit
  <1> QED
    BY <1>1, <1>2 DEF OpenSecondsPass, governor, IInv, GovernorFits, UsageFits

LEMMA HealthInv == ASSUME IInv, Health PROVE IInv'
  <1>1. TurnsFit' /\ FailuresAreOfTurns'
    BY DEF Health, governor, IInv, TurnsFit, FailuresAreOfTurns, Finished,
       PacedWaits, LateIsBlind, AtLimit
  <1> QED
    BY <1>1, AskedFits DEF Health, governor, IInv, GovernorFits, UsageFits

LEMMA BeginInv == ASSUME IInv, NEW t \in Turns, Begin(t) PROVE IInv'
  <1>1. PICK q \in Positions : turn[t] = q /\ q.pc = "new"
    BY StandsSomewhere DEF Begin, At
  <1>2. TurnsFit' /\ FailuresAreOfTurns'
    <2>1. CASE GoesOn(t, Over)
      BY <1>1, <2>1, StepToOver DEF Begin, governor
    <2>2. CASE GoesOn(t, Moved(t, "ask"))
      <3> DEFINE r == [q EXCEPT !.pc = "ask"]
      <3>1. GoesOn(t, r)
        BY <1>1, <2>2 DEF Moved
      <3>2. r \in Positions /\ r.pc = "ask" /\ r.paced = q.paced /\ r.late = q.late
        BY DEF Positions, Places
      <3> HIDE DEF r
      <3> QED
        BY <1>1, <3>1, <3>2, StepToWait DEF Begin, governor, Cleared
    <2> QED
      BY <2>1, <2>2 DEF Begin
  <1> QED
    BY <1>2, AskedFits DEF Begin, governor, IInv, GovernorFits, UsageFits

LEMMA SucceedInv == ASSUME IInv, NEW t \in Turns, Succeed(t) PROVE IInv'
  <1>1. PICK q \in Positions : turn[t] = q /\ q.pc = "call"
    BY StandsSomewhere DEF Succeed, At
  <1>2. TurnsFit' /\ FailuresAreOfTurns'
    BY <1>1, StepToOver DEF Succeed
  <1>3. BreakerFits'
    BY SuccessFits DEF Succeed, IInv
  <1>4. tpm' \in 0..TpmCap
    BY Constants DEF Succeed, IInv, GovernorFits
  <1>5. q.made \in 0..DailyLimit /\ record' = [record EXCEPT ![t] = q.made]
    BY <1>1 DEF Positions, Succeed
  <1> QED
    BY <1>2, <1>3, <1>4, <1>5 DEF Succeed, IInv, GovernorFits, UsageFits

LEMMA FailInv == ASSUME IInv, NEW t \in Turns, Fail(t) PROVE IInv'
  <1>1. turn[t].pc # "over" /\ turn' = [turn EXCEPT ![t] = Over]
    BY DEF Fail, Erred, TimedOut, At, GoesOn
  <1>2. /\ turn' \in [Turns -> Positions] /\ turn'[t] = Over
        /\ \A k \in Turns \ {t} : turn'[k] = turn[k]
    BY <1>1, OverFits DEF IInv, TurnsFit
  <1>3. TurnsFit'
    <2> SUFFICES ASSUME NEW k \in Turns PROVE (PacedWaits(turn[k]) /\ LateIsBlind(turn[k]))'
      BY <1>2 DEF TurnsFit
    <2>1. CASE k = t
      BY <1>2, <2>1, OverFits DEF PacedWaits, LateIsBlind
    <2>2. CASE k # t
      BY <1>2, <2>2 DEF Fail, IInv, TurnsFit, PacedWaits, LateIsBlind, AtLimit
    <2> QED
      BY <2>1, <2>2
  <1>4. FailuresAreOfTurns'
    <2>1. Finished' = Finished \union {t} /\ t \notin Finished
      BY <1>1, <1>2, OverFits DEF Finished
    <2>2. Cardinality(Finished') = Cardinality(Finished) + 1
      BY <2>1, FinishedAreFinite, FS_AddElement
    <2> QED
      BY <2>2, FinishedAreFinite DEF Fail, IInv, BreakerFits, FailuresAreOfTurns
  <1>5. BreakerFits'
    BY FailureFits DEF Fail, IInv
  <1>6. UsageFits'
    <2>1. 1 \in 0..DailyLimit
      BY Constants
    <2> QED
      BY <2>1 DEF Fail, IInv, UsageFits
  <1> QED
    BY <1>3, <1>4, <1>5, <1>6 DEF Fail, IInv, GovernorFits

---------------------------------------------------------------------------
(* The governor.                                                           *)

LEMMA CapCheckInv == ASSUME IInv, NEW t \in Turns, CapCheck(t) PROVE IInv'
  <1>1. PICK q \in Positions : turn[t] = q /\ q.pc = "ask" /\ LateIsBlind(q)
    BY StandsSomewhere DEF CapCheck, At
  <1>2. CASE ~AtLimit /\ GoesOn(t, Moved(t, "rpm"))
    <2> DEFINE r == [q EXCEPT !.pc = "rpm"]
    <2>1. GoesOn(t, r)
      BY <1>1, <1>2 DEF Moved
    <2>2. r \in Positions /\ r.pc = "rpm" /\ r.paced = q.paced /\ r.late = q.late
      BY DEF Positions, Places
    <2>3. ~q.late
      BY <1>1, <1>2 DEF LateIsBlind
    <2> HIDE DEF r
    <2>4. ~r.late
      BY <2>2, <2>3, Zenon
    <2>5. TurnsFit' /\ FailuresAreOfTurns'
      BY <1>1, <2>1, <2>2, <2>4, StepToWait DEF CapCheck, governor, verdicts
    <2> QED
      BY <2>5, VerdictsStay DEF CapCheck, governor, IInv, GovernorFits, UsageFits
  <1>3. CASE GoesOn(t, [Moved(t, "rpm") EXCEPT !.blind = TRUE])
    <2> DEFINE r == [q EXCEPT !.pc = "rpm", !.blind = TRUE]
    <2>1. GoesOn(t, r)
      BY <1>1, <1>3 DEF Moved
    <2>2. r \in Positions /\ r.pc = "rpm" /\ r.paced = q.paced /\ r.late = q.late /\ r.blind
      BY DEF Positions, Places
    <2> HIDE DEF r
    <2>3. TurnsFit' /\ FailuresAreOfTurns'
      BY <1>1, <2>1, <2>2, StepToWait DEF CapCheck, governor, verdicts
    <2> QED
      BY <2>3, VerdictsStay DEF CapCheck, governor, IInv, GovernorFits, UsageFits
  <1> QED
    BY <1>2, <1>3 DEF CapCheck

\* A turn that has passed the check goes on to wait.
LEMMA StepToNextWait ==
    ASSUME IInv, NEW t \in Turns, turn[t].pc \in Cleared, NEW pc \in {"tpm", "nap"},
           GoesOn(t, Moved(t, pc)), UNCHANGED <<spacing, usage, streak>>
    PROVE  TurnsFit' /\ FailuresAreOfTurns'
  <1>1. PICK q \in Positions : turn[t] = q /\ q.pc \in Cleared /\ LateIsBlind(q)
    BY StandsSomewhere
  <1> DEFINE r == [q EXCEPT !.pc = pc]
  <1>2. GoesOn(t, r)
    BY <1>1 DEF Moved
  <1>3. /\ r \in Positions /\ r.pc = pc
        /\ r.paced = q.paced /\ r.late = q.late /\ r.blind = q.blind
    BY DEF Positions, Places
  <1> HIDE DEF r
  <1>4. r.late => r.blind
    BY <1>1, <1>3, Zenon DEF LateIsBlind
  <1>5. turn[t].pc # "over" /\ r.pc # "wake"
    BY <1>1, <1>3 DEF Cleared
  <1> QED
    BY <1>1, <1>2, <1>3, <1>4, <1>5, StepToWait

LEMMA PayTpmFits ==
    ASSUME IInv, NEW t \in Turns, turn[t].pc \in {"rpm", "tpm"}, PayTpm(t),
           UNCHANGED <<usage, streak>>
    PROVE  TurnsFit' /\ FailuresAreOfTurns' /\ tpm' \in 0..TpmCap /\ spacing' \in BOOLEAN
  <1>1. tpm' \in 0..TpmCap
    BY Constants DEF PayTpm, IInv, GovernorFits
  <1>2. CASE Naps
    BY <1>1, <1>2, StepToNextWait DEF PayTpm, Cleared, IInv, GovernorFits
  <1>3. CASE ~Naps
    <2>1. GoesOn(t, Sent(t)) /\ spacing' = (MinInterval # "off")
      BY <1>3 DEF PayTpm
    <2>2. spacing' \in BOOLEAN /\ (MinInterval # "off" => spacing')
      BY <2>1
    <2> QED
      BY <1>1, <2>1, <2>2, StepToCall
  <1> QED
    BY <1>2, <1>3

LEMMA TakeRpmInv == ASSUME IInv, NEW t \in Turns, TakeRpm(t) PROVE IInv'
  <1>1. rpm' \in 0..RpmCap
    BY Constants DEF TakeRpm, IInv, GovernorFits
  <1>2. /\ TurnsFit' /\ FailuresAreOfTurns'
        /\ tpm' \in 0..TpmCap /\ spacing' \in BOOLEAN
    <2>1. CASE PayTpm(t)
      BY <2>1, PayTpmFits DEF TakeRpm, At, verdicts
    <2>2. CASE tpm = 0 /\ GoesOn(t, Moved(t, "tpm")) /\ UNCHANGED <<tpm, spacing>>
      BY <2>2, StepToNextWait DEF TakeRpm, At, verdicts, Cleared, IInv, GovernorFits
    <2> QED
      BY <2>1, <2>2 DEF TakeRpm
  <1> QED
    BY <1>1, <1>2, VerdictsStay DEF TakeRpm, IInv, GovernorFits, UsageFits

LEMMA TakeTpmInv == ASSUME IInv, NEW t \in Turns, TakeTpm(t) PROVE IInv'
  <1>1. /\ TurnsFit' /\ FailuresAreOfTurns'
        /\ tpm' \in 0..TpmCap /\ spacing' \in BOOLEAN
    BY PayTpmFits DEF TakeTpm, At, verdicts
  <1> QED
    BY <1>1, VerdictsStay DEF TakeTpm, IInv, GovernorFits, UsageFits

LEMMA WakeInv == ASSUME IInv, NEW t \in Turns, Wake(t) PROVE IInv'
  <1>1. TurnsFit' /\ FailuresAreOfTurns'
    BY StepToCall DEF Wake, At, verdicts
  <1> QED
    BY <1>1, VerdictsStay DEF Wake, IInv, GovernorFits, UsageFits

LEMMA RefuseInv == ASSUME IInv, NEW t \in Turns, Refuse(t) PROVE IInv'
  <1>1. TurnsFit' /\ FailuresAreOfTurns'
    BY StepToOver DEF Refuse, At, verdicts
  <1> QED
    BY <1>1, VerdictsStay DEF Refuse, IInv, GovernorFits, UsageFits

LEMMA IntervalEndsInv == ASSUME IInv, IntervalEnds PROVE IInv'
  <1>1. ASSUME NEW t \in Turns
        PROVE  /\ turn'[t] \in Positions /\ (PacedWaits(turn[t]) /\ LateIsBlind(turn[t]))'
               /\ turn[t].pc = "over" <=> turn'[t].pc = "over"
    <2>1. PICK q \in Positions : turn[t] = q /\ LateIsBlind(q)
      BY StandsSomewhere
    <2>2. PICK pc \in Places : /\ pc = IF q.pc = "nap" THEN "wake" ELSE q.pc
                               /\ pc \in Cleared <=> q.pc \in Cleared
      BY DEF Positions, Places, Cleared
    <2>3. PICK r \in Positions : r = [q EXCEPT !.pc = pc, !.paced = FALSE]
      BY DEF Positions
    <2>4. turn'[t] = r
      BY <2>1, <2>2, <2>3 DEF IntervalEnds, At
    <2>5. r.pc = pc /\ ~r.paced /\ r.late = q.late /\ r.blind = q.blind
      BY <2>3 DEF Positions
    <2>6. LateIsBlind(r)
      BY <2>1, <2>2, <2>5, Zenon DEF LateIsBlind
    <2>7. AtLimit' = AtLimit
      BY DEF IntervalEnds, AtLimit
    <2>8. (PacedWaits(turn[t]) /\ LateIsBlind(turn[t]))'
      BY <2>4, <2>5, <2>6, <2>7 DEF PacedWaits, LateIsBlind
    <2> QED
      BY <2>1, <2>2, <2>4, <2>5, <2>8
  <1>2. TurnsFit'
    BY <1>1 DEF IntervalEnds, TurnsFit
  <1>3. FailuresAreOfTurns'
    <2>1. Finished' = Finished
      BY <1>1 DEF Finished
    <2> QED
      BY <2>1 DEF IntervalEnds, verdicts, IInv, FailuresAreOfTurns
  <1> QED
    BY <1>2, <1>3, VerdictsStay DEF IntervalEnds, IInv, GovernorFits, UsageFits

LEMMA RefillInv == ASSUME IInv, Refill PROVE IInv'
  <1>1. rpm' \in 0..RpmCap /\ tpm' \in 0..TpmCap
    BY Constants DEF Refill, IInv, GovernorFits
  <1>2. TurnsFit' /\ FailuresAreOfTurns'
    BY DEF Refill, verdicts, IInv, TurnsFit, FailuresAreOfTurns, Finished,
       PacedWaits, LateIsBlind, AtLimit
  <1> QED
    BY <1>1, <1>2, VerdictsStay DEF Refill, IInv, GovernorFits, UsageFits

---------------------------------------------------------------------------
(* The attempts of a turn, and its usage.                                  *)

LEMMA CallToolInv == ASSUME IInv, NEW t \in Turns, CallTool(t) PROVE IInv'
  <1>1. PICK q \in Positions : turn[t] = q /\ q.pc = "call" /\ q.stage < MaxStages
    BY StandsSomewhere DEF CallTool, At
  <1>2. PICK stage \in 1..MaxStages : stage = q.stage + 1
    <2>1. q.stage \in 1..MaxStages
      BY DEF Positions
    <2> QED
      BY <1>1, <2>1, Constants
  <1> DEFINE r == [q EXCEPT !.pc = "ask", !.stage = stage]
  <1>3. GoesOn(t, r)
    BY <1>1, <1>2 DEF CallTool, Moved
  <1>4. r \in Positions /\ r.pc = "ask" /\ r.paced = q.paced /\ r.late = q.late
    BY DEF Positions, Places
  <1> HIDE DEF r
  <1>5. TurnsFit' /\ FailuresAreOfTurns'
    BY <1>1, <1>3, <1>4, StepToWait DEF CallTool, governor, verdicts, Cleared
  <1> QED
    BY <1>5, VerdictsStay DEF CallTool, governor, IInv, GovernorFits, UsageFits

LEMMA RetryInv == ASSUME IInv, NEW t \in Turns, Retry(t) PROVE IInv'
  <1>1. PICK q \in Positions : turn[t] = q /\ q.pc # "over" /\ q.attempt < LastAttempt
    BY StandsSomewhere DEF Retry, Erred, TimedOut, At, AnotherAttempt
  <1>2. PICK attempt \in 1..LastAttempt : attempt = q.attempt + 1
    <2>1. q.attempt \in 1..LastAttempt
      BY DEF Positions
    <2> QED
      BY <1>1, <2>1, Constants
  <1>3. 1 \in 1..MaxStages
    BY Constants
  <1> DEFINE r == [q EXCEPT !.pc = "ask", !.attempt = attempt, !.stage = 1, !.blind = FALSE]
  <1>4. GoesOn(t, r)
    BY <1>1, <1>2 DEF Retry, Again, Moved
  <1>5. r \in Positions /\ r.pc = "ask" /\ r.paced = q.paced /\ r.late = q.late
    BY <1>3 DEF Positions, Places
  <1> HIDE DEF r
  <1>6. TurnsFit' /\ FailuresAreOfTurns'
    BY <1>1, <1>4, <1>5, StepToWait DEF Retry, verdicts, Cleared
  <1> QED
    BY <1>6, VerdictsStay DEF Retry, IInv, GovernorFits, UsageFits

\* Whatever the totals become, a turn stays late only if they are at the
\* limit.
LEMMA CountedFits ==
    ASSUME IInv, NEW n \in 0..DailyLimit, Counted(n)
    PROVE  TurnsFit' /\ FailuresAreOfTurns' /\ BreakerFits' /\ GovernorFits'
           /\ usage' \in 0..DailyLimit
  <1>1. ASSUME NEW t \in Turns
        PROVE  /\ turn'[t] \in Positions /\ (PacedWaits(turn[t]) /\ LateIsBlind(turn[t]))'
               /\ turn[t].pc = "over" <=> turn'[t].pc = "over"
    <2>1. PICK q \in Positions : turn[t] = q /\ PacedWaits(q) /\ LateIsBlind(q)
      BY StandsSomewhere
    <2> DEFINE late == q.late /\ n >= DailyLimit
    <2>2. late \in BOOLEAN
      OBVIOUS
    <2>3. turn'[t] = [q EXCEPT !.late = late]
      BY <2>1 DEF Counted
    <2> HIDE DEF late
    <2>4. PICK r \in Positions : r = [q EXCEPT !.late = late]
      BY <2>2 DEF Positions
    <2>5. r.pc = q.pc /\ r.paced = q.paced /\ r.blind = q.blind /\ r.late = late
      BY <2>4 DEF Positions
    <2>6. r.late => q.late /\ n >= DailyLimit
      BY <2>5, Zenon DEF late
    <2>7. PacedWaits(r)
      BY <2>1, <2>5, Zenon DEF PacedWaits
    <2>8. r.late => (r.pc \in Cleared => r.blind)
      BY <2>1, <2>5, <2>6, Zenon DEF LateIsBlind
    <2>9. (PacedWaits(turn[t]) /\ LateIsBlind(turn[t]))'
      BY <2>3, <2>4, <2>6, <2>7, <2>8 DEF Counted, governor, PacedWaits, LateIsBlind, AtLimit
    <2> QED
      BY <2>1, <2>3, <2>4, <2>5, <2>9
  <1>2. TurnsFit'
    BY <1>1 DEF Counted, TurnsFit
  <1>3. FailuresAreOfTurns'
    <2>1. Finished' = Finished
      BY <1>1 DEF Finished
    <2> QED
      BY <2>1 DEF Counted, verdicts, IInv, FailuresAreOfTurns
  <1> QED
    BY <1>2, <1>3, VerdictsStay DEF Counted, governor, IInv, GovernorFits

LEMMA RecordUsageInv == ASSUME IInv, NEW t \in Turns, RecordUsage(t) PROVE IInv'
  <1>1. PICK n \in 0..DailyLimit : Counted(n)
    <2>1. CASE Counted(usage)
      BY <2>1 DEF IInv, UsageFits
    <2>2. CASE \E seen \in 0..usage : Counted(Minimum(DailyLimit, seen + record[t]))
      <3>1. PICK seen \in 0..usage : Counted(Minimum(DailyLimit, seen + record[t]))
        BY <2>2
      <3>2. seen + record[t] \in Nat
        BY Constants DEF IInv, UsageFits
      <3>3. Minimum(DailyLimit, seen + record[t]) \in 0..DailyLimit
        BY <3>2, Constants DEF Minimum
      <3> QED
        BY <3>1, <3>3
    <2> QED
      BY <2>1, <2>2 DEF RecordUsage
  <1>2. record' \in [Turns -> 0..DailyLimit]
    BY Constants DEF RecordUsage, IInv, UsageFits
  <1> QED
    BY <1>1, <1>2, CountedFits DEF IInv, UsageFits

LEMMA MidnightInv == ASSUME IInv, Midnight PROVE IInv'
  <1>1. 0 \in 0..DailyLimit
    BY Constants
  <1> QED
    BY <1>1, CountedFits DEF Midnight, IInv, UsageFits

---------------------------------------------------------------------------
(* The theorems.                                                           *)

LEMMA InitInv == Init => IInv
  <1> SUFFICES ASSUME Init PROVE IInv
    OBVIOUS
  <1>1. TurnsFit
    BY OverFits DEF Init, TurnsFit, PacedWaits, LateIsBlind
  <1>2. FailuresAreOfTurns
    BY FinishedAreFinite DEF Init, FailuresAreOfTurns
  <1>3. BreakerFits
    <2>1. breaker.state = "closed" /\ breaker.failures = 0 /\ ~breaker.cooled
      BY DEF Init, Closed
    <2>2. breaker \in [state : {"closed", "open", "half_open"}, failures : Nat, cooled : BOOLEAN]
      BY DEF Init, Closed
    <2>3. 0 < Threshold
      BY Constants
    <2> QED
      BY <2>1, <2>2, <2>3 DEF Init, BreakerFits, BreakerCountsFailedTurns, ClockRests
  <1>4. GovernorFits /\ UsageFits
    <2>1. RpmCap \in 0..RpmCap /\ TpmCap \in 0..TpmCap /\ 0 \in 0..DailyLimit
      BY Constants
    <2> QED
      BY <2>1 DEF Init, GovernorFits, UsageFits
  <1> QED
    BY <1>1, <1>2, <1>3, <1>4 DEF IInv

LEMMA ProceedInv == ASSUME IInv, NEW t \in Turns, Proceed(t) PROVE IInv'
  BY CapCheckInv, TakeRpmInv, TakeTpmInv, WakeInv, RefuseInv, SucceedInv, CallToolInv,
     RetryInv, FailInv DEF Proceed

LEMMA StutterInv == ASSUME IInv, UNCHANGED vars PROVE IInv'
  <1>1. TurnsFit' /\ FailuresAreOfTurns'
    BY DEF vars, IInv, TurnsFit, FailuresAreOfTurns, Finished, PacedWaits, LateIsBlind, AtLimit
  <1> QED
    BY <1>1, VerdictsStay DEF vars, verdicts, IInv, GovernorFits, UsageFits

\* Every step keeps the inductive invariant.
THEOREM Invariant == Spec => []IInv
  <1>1. IInv /\ [Next]_vars => IInv'
    BY BeginInv, ProceedInv, RecordUsageInv, OpenSecondsPassInv, HealthInv, IntervalEndsInv,
       RefillInv, MidnightInv, StutterInv DEF Next
  <1> QED
    BY InitInv, <1>1, PTL DEF Spec

\* Everything keeps its type, and no more failures are counted than turns.
THEOREM TypeCorrect == Spec => []TypeOK
  <1>1. IInv => TypeOK
    <2> SUFFICES ASSUME IInv PROVE TypeOK
      OBVIOUS
    <2>1. streak \in 0..MaxTurns
      BY FinishedAreFinite, Constants DEF IInv, BreakerFits, FailuresAreOfTurns
    <2>2. breaker \in [state : {"closed", "open", "half_open"}, failures : 0..MaxTurns,
                        cooled : BOOLEAN]
      BY <2>1 DEF IInv, BreakerFits, BreakerCountsFailedTurns
    <2>3. turn \in [Turns -> Positions]
      BY DEF IInv, TurnsFit
    <2> QED
      BY <2>1, <2>2, <2>3 DEF IInv, BreakerFits, GovernorFits, UsageFits, TypeOK,
         Positions, Places
  <1> QED
    BY Invariant, <1>1, PTL

\* The breaker counts the turns that failed in a row and is closed exactly
\* below the threshold.
THEOREM BreakerAlwaysCounts == Spec => []BreakerCountsFailedTurns
  <1>1. IInv => BreakerCountsFailedTurns
    BY DEF IInv, BreakerFits
  <1> QED
    BY Invariant, <1>1, PTL

---------------------------------------------------------------------------
(* What a step may never do.                                               *)

\* A turn gets somewhere else by a step of its own, or at the end of the nap.
LEMMA OwnStep ==
    ASSUME IInv, Next, NEW t \in Turns, turn'[t].pc # turn[t].pc
    PROVE  Begin(t) \/ Proceed(t) \/ turn'[t].pc = "wake"
  <1>1. turn \in [Turns -> Positions]
    BY DEF IInv, TurnsFit
  <1>2. ASSUME NEW k \in Turns, k # t, Begin(k) \/ Proceed(k) PROVE FALSE
    <2>1. \E r : turn' = [turn EXCEPT ![k] = r]
      BY <1>2 DEF Begin, Proceed, CapCheck, TakeRpm, TakeTpm, PayTpm, Wake, Refuse, Succeed,
         CallTool, Retry, Fail, GoesOn
    <2> QED
      BY <1>1, <1>2, <2>1
  <1>3. ASSUME NEW n, Counted(n) PROVE FALSE
    <2>1. turn'[t] = [turn[t] EXCEPT !.late = @ /\ n >= DailyLimit]
      BY <1>3 DEF Counted
    <2> QED
      BY <1>1, <2>1 DEF Positions
  <1>4. ASSUME IntervalEnds, turn'[t].pc # "wake" PROVE FALSE
    <2>1. turn'[t] = [turn[t] EXCEPT !.pc = IF At(t, "nap") THEN "wake" ELSE @, !.paced = FALSE]
      BY <1>4 DEF IntervalEnds
    <2> QED
      BY <1>1, <1>4, <2>1 DEF Positions
  <1> QED
    BY <1>2, <1>3, <1>4 DEF Next, RecordUsage, Midnight, OpenSecondsPass, Health, Refill

\* After a threshold of failures in a row, no turn begins before open_seconds
\* have passed since the last of them.
THEOREM BreakerRests == Spec => RestsAfterFailures
  <1>1. ASSUME IInv, Next, NEW t \in Turns, At(t, "new"), turn'[t].pc = "ask"
        PROVE  streak < Threshold \/ rested
    <2>1. Begin(t) \/ Proceed(t)
      BY <1>1, OwnStep DEF At
    <2>2. Begin(t)
      BY <1>1, <2>1 DEF At, Proceed, CapCheck, TakeRpm, TakeTpm, Wake, Refuse, Succeed,
         CallTool, Retry, Erred, TimedOut, Fail
    <2>3. turn'[t] = IF breaker'.state = "open" THEN Over ELSE Moved(t, "ask")
      BY <1>1, <2>2 DEF Begin, GoesOn, IInv, TurnsFit
    <2>4. breaker'.state # "open" /\ breaker' = Asked(breaker)
      BY <1>1, <2>2, <2>3, OverFits DEF Begin
    <2> QED
      BY <1>1, <2>4 DEF Asked, IInv, BreakerFits, BreakerCountsFailedTurns, ClockRests
  <1>2. IInv /\ [Next]_vars =>
          [\A t \in Turns : At(t, "new") /\ turn'[t].pc = "ask" =>
              streak < Threshold \/ rested]_vars
    BY <1>1
  <1> QED
    BY Invariant, <1>2, PTL DEF Spec, RestsAfterFailures

\* A turn that sends has not sent since the last pause, and if the totals are
\* at the limit it has not sent since they are, unless it could not ask.
LEMMA SendsFreely ==
    ASSUME IInv, Next, NEW t \in Turns, Sends(t)
    PROVE  ~turn[t].paced /\ (turn[t].late => turn[t].blind)
  <1>1. turn[t].pc # "call" /\ turn'[t].pc = "call"
    BY DEF Sends, At
  <1>2. turn \in [Turns -> Positions]
    BY DEF IInv, TurnsFit
  <1>3. Begin(t) \/ Proceed(t)
    BY <1>1, OwnStep
  <1>4. ASSUME NEW r, GoesOn(t, r), r.pc # "call" PROVE FALSE
    BY <1>1, <1>2, <1>4 DEF GoesOn
  <1>5. \A pc \in Places \ {"call"} : Moved(t, pc).pc # "call"
    BY <1>2 DEF Moved, Positions
  <1>6. ~Begin(t)
    BY <1>4, <1>5, OverFits DEF Begin, Places
  <1>7. ~CapCheck(t)
    <2>1. [Moved(t, "rpm") EXCEPT !.blind = TRUE].pc = "rpm"
      BY <1>2 DEF Moved, Positions
    <2> QED
      BY <1>4, <1>5, <2>1 DEF CapCheck, Places
  <1>8. ~Refuse(t) /\ ~Succeed(t) /\ ~Fail(t)
    BY <1>4, OverFits DEF Refuse, Succeed, Fail
  <1>9. ~Retry(t)
    <2>1. Again(t).pc = "ask"
      BY <1>2 DEF Again, Moved, Positions
    <2> QED
      BY <1>4, <2>1 DEF Retry
  <1>10. ~CallTool(t)
    BY <1>1 DEF CallTool, At
  <1>11. CASE Wake(t)
    BY <1>11, StandsSomewhere DEF Wake, At, PacedWaits, LateIsBlind, Cleared
  <1>12. CASE TakeRpm(t) \/ TakeTpm(t)
    <2>1. turn[t].pc \in Cleared
      BY <1>12 DEF TakeRpm, TakeTpm, At, Cleared
    <2>2. PayTpm(t)
      BY <1>4, <1>5, <1>12 DEF TakeRpm, TakeTpm, Places
    <2>3. ~Naps
      BY <1>4, <1>5, <2>2 DEF PayTpm, Places
    <2> QED
      BY <2>1, <2>3, StandsSomewhere DEF Naps, PacedWaits, LateIsBlind
  <1> QED
    BY <1>3, <1>6, <1>7, <1>8, <1>9, <1>10, <1>11, <1>12 DEF Proceed

\* A turn never sends twice without the interval between.
THEOREM TurnsArePaced == Spec => OncePerInterval
  <1>1. IInv /\ [Next]_vars => [\A t \in Turns : Sends(t) => ~turn[t].paced]_vars
    BY SendsFreely
  <1> QED
    BY Invariant, <1>1, PTL DEF Spec, OncePerInterval

\* Once the day's totals have reached the limit, a turn that is under way
\* sends one more request at most, unless the store could not be asked.
THEOREM LimitsStopTurns == Spec => LimitStopsEachTurn
  <1>1. IInv /\ [Next]_vars =>
          [\A t \in Turns : Sends(t) /\ AtLimit /\ ~turn[t].blind => ~turn[t].late]_vars
    BY SendsFreely
  <1> QED
    BY Invariant, <1>1, PTL DEF Spec, LimitStopsEachTurn
=============================================================================
