----------------------------- MODULE LlmGateway -----------------------------
(***************************************************************************)
(* The calls of the language model: ResilientGroqModel (ai/gateway.py)     *)
(* with its retries and its fallback model, the circuit breaker            *)
(* (ai/circuit_breaker.py), the governor that every request to the         *)
(* provider passes (ai/governor.py) and the daily usage rows               *)
(* (storage/llm_usage.py).                                                 *)
(*                                                                         *)
(* Turns of all conversations share one process: breaker, buckets and the  *)
(* time of the last request.  A turn runs until it waits for a bucket, for *)
(* the interval or for the provider; any of these may take long, so a step *)
(* below is what happens between two of them.  Clocks are flags: cooled    *)
(* and spacing tell whether the time in question has passed.  A request is *)
(* one call of the hooked client method; retries inside the client pass    *)
(* no governor and are left out.                                           *)
(***************************************************************************)
EXTENDS Naturals, FiniteSets

CONSTANTS MaxTurns,     \* bound: turns, in the order in which they begin
          MaxInFlight,  \* bound: turns under way at a time
          MaxStages,    \* bound: requests of an attempt, one for each round of tools
          Threshold,    \* llm_circuit_failure_threshold
          MaxAttempts,  \* llm_retry_max_attempts
          Fallback,     \* llm_fallback_enabled
          RpmCap,       \* capacity of the request bucket
          TpmCap,       \* capacity of the token bucket
          MinInterval,  \* the minimum interval: off, short, or longer than max_wait
          DailyLimit    \* llm_daily_request_limit; requests are counted up to it

ASSUME GatewayAssumption ==
    /\ MaxTurns \in Nat /\ MaxInFlight \in Nat /\ MaxStages \in Nat \ {0}
    /\ Threshold \in Nat \ {0} /\ MaxAttempts \in Nat \ {0}
    /\ Fallback \in BOOLEAN
    /\ RpmCap \in Nat \ {0} /\ TpmCap \in Nat \ {0}
    /\ MinInterval \in {"off", "short", "long"}
    /\ DailyLimit \in Nat \ {0}

Turns == 1..MaxTurns

VARIABLES turn,     \* the turns: where they are, attempt, round of tools, requests made
          breaker,  \* its state, failures in a row, and whether open_seconds are over
          rpm,      \* whole tokens in the request bucket
          tpm,      \* whole tokens in the token bucket
          spacing,  \* the interval since the last request is not over
          usage,    \* committed: requests counted today, up to the limit
          record,   \* what the threads of turns that are over are to count
          streak,   \* ghost: turns that failed since the last that succeeded
          rested    \* ghost: open_seconds have passed since the last failed turn
vars == <<turn, breaker, rpm, tpm, spacing, usage, record, streak, rested>>
governor == <<rpm, tpm, spacing>>
verdicts == <<breaker, streak, rested>>

Minimum(m, n) == IF m < n THEN m ELSE n

\* The attempt after the last with the primary model is the fallback's.
LastAttempt == IF Fallback THEN MaxAttempts + 1 ELSE MaxAttempts
Primary(t) == turn[t].attempt <= MaxAttempts

\* blind: the store could not be asked for the totals.  Ghosts: paced, it
\* sent a request since the last pause; late, it sent one since the totals
\* reached the limit.
New == [pc |-> "new", attempt |-> 1, stage |-> 1, made |-> 0,
        blind |-> FALSE, paced |-> FALSE, late |-> FALSE]
Over == [New EXCEPT !.pc = "over"]
At(t, pc) == turn[t].pc = pc
GoesOn(t, r) == turn' = [turn EXCEPT ![t] = r]
Moved(t, pc) == [turn[t] EXCEPT !.pc = pc]

---------------------------------------------------------------------------
(* The circuit breaker.                                                    *)

\* allow_request and the state property: an open breaker is half open once
\* its time is over, and stays so until a verdict.
Asked(b) ==
    IF b.state = "open" /\ b.cooled THEN [b EXCEPT !.state = "half_open"] ELSE b

Closed == [state |-> "closed", failures |-> 0, cooled |-> FALSE]

\* Mutant of AfterSuccess: only the success of a probe counts.
AfterSuccessOfProbe(b) == IF b.state = "half_open" THEN Closed ELSE b

\* record_success closes it, from any state.
AfterSuccess(b) == Closed

\* Mutant of AfterFailure: a breaker that is not closed keeps its clock.
AfterFailureKeepsClock(b) ==
    IF b.failures + 1 >= Threshold
      THEN [state |-> "open", failures |-> b.failures + 1, cooled |-> b.cooled]
      ELSE [b EXCEPT !.failures = @ + 1]

\* record_failure opens it at the threshold, and sets opened_at again at
\* each failure that follows.
AfterFailure(b) ==
    IF b.failures + 1 >= Threshold
      THEN [state |-> "open", failures |-> b.failures + 1, cooled |-> FALSE]
      ELSE [b EXCEPT !.failures = @ + 1]

\* open_seconds pass.
OpenSecondsPass ==
    /\ ~rested
    /\ rested' = TRUE
    /\ breaker' = [breaker EXCEPT !.cooled = (breaker.state = "open")]
    /\ UNCHANGED <<turn, usage, record, streak>> /\ UNCHANGED governor

\* /health reads the state.
Health ==
    /\ Asked(breaker) # breaker
    /\ breaker' = Asked(breaker)
    /\ UNCHANGED <<turn, usage, record, streak, rested>> /\ UNCHANGED governor

---------------------------------------------------------------------------
(* The governor: acquire, before every request to the provider.            *)

AtLimit == usage >= DailyLimit

\* Mutant of CapCheck: the totals are asked at the first request only.
CapCheckOnce(t) ==
    /\ At(t, "ask")
    /\ ~AtLimit \/ turn[t].made > 0
    /\ GoesOn(t, Moved(t, "rpm"))
    /\ UNCHANGED <<usage, record>> /\ UNCHANGED governor /\ UNCHANGED verdicts

\* _check_daily_caps: the day's total is below the limit, or the store
\* cannot be asked (and with no limit set it is not).
CapCheck(t) ==
    /\ At(t, "ask")
    /\ \/ ~AtLimit /\ GoesOn(t, Moved(t, "rpm"))
       \/ GoesOn(t, [Moved(t, "rpm") EXCEPT !.blind = TRUE])
    /\ UNCHANGED <<usage, record>> /\ UNCHANGED governor /\ UNCHANGED verdicts

\* Mutant of Naps: the interval is not waited for.
NapsNever == FALSE
Naps == MinInterval # "off" /\ spacing

\* The request goes out, and its time is the last.
Sent(t) == [Moved(t, "call") EXCEPT !.made = Minimum(DailyLimit, @ + 1), !.blind = FALSE,
                !.paced = (MinInterval # "off"), !.late = @ \/ (AtLimit /\ ~turn[t].blind)]

\* The token bucket gives one, since nobody passes an estimate; then the
\* rest of the interval since the last request is waited for, if any is left.
PayTpm(t) ==
    /\ tpm > 0
    /\ tpm' = tpm - 1
    /\ IF Naps THEN GoesOn(t, Moved(t, "nap")) /\ UNCHANGED spacing
               ELSE GoesOn(t, Sent(t)) /\ spacing' = (MinInterval # "off")

\* The request bucket gives a token, and the turn does not stop before it has
\* to wait.
TakeRpm(t) ==
    /\ At(t, "rpm")
    /\ rpm > 0
    /\ rpm' = rpm - 1
    /\ \/ PayTpm(t)
       \/ tpm = 0 /\ GoesOn(t, Moved(t, "tpm")) /\ UNCHANGED <<tpm, spacing>>
    /\ UNCHANGED <<usage, record>> /\ UNCHANGED verdicts

TakeTpm(t) ==
    /\ At(t, "tpm")
    /\ PayTpm(t)
    /\ UNCHANGED <<rpm, usage, record>> /\ UNCHANGED verdicts

\* The rest of the interval that the sleepers had read is over.
IntervalEnds ==
    /\ spacing
    /\ spacing' = FALSE
    /\ turn' = [t \in Turns |-> [turn[t] EXCEPT !.pc = IF At(t, "nap") THEN "wake" ELSE @,
                                               !.paced = FALSE]]
    /\ UNCHANGED <<rpm, tpm, usage, record>> /\ UNCHANGED verdicts

\* A sleeper sends, without another look at the time of the last request.
Wake(t) ==
    /\ At(t, "wake")
    /\ GoesOn(t, Sent(t))
    /\ spacing' = TRUE
    /\ UNCHANGED <<rpm, tpm, usage, record>> /\ UNCHANGED verdicts

\* A limit is reached, or a bucket stayed empty for max_wait, or the rest of
\* the interval is longer: the turn fails, and nothing is counted.
Refuse(t) ==
    /\ \/ At(t, "ask") /\ AtLimit
       \/ At(t, "rpm") /\ rpm = 0
       \/ At(t, "tpm") /\ tpm = 0
       \/ At(t, "nap") /\ MinInterval = "long"
    /\ GoesOn(t, Over)
    /\ UNCHANGED <<rpm, tpm, spacing, usage, record>> /\ UNCHANGED verdicts

\* Mutant of Refill: the capacity does not bound the bucket.
RefillOver ==
    /\ rpm <= RpmCap /\ rpm' = rpm + 1
    /\ UNCHANGED <<turn, tpm, spacing, usage, record>> /\ UNCHANGED verdicts

\* The buckets are refilled as time passes.
Refill ==
    /\ \/ rpm < RpmCap /\ rpm' = rpm + 1 /\ UNCHANGED tpm
       \/ tpm < TpmCap /\ tpm' = tpm + 1 /\ UNCHANGED rpm
    /\ UNCHANGED <<turn, spacing, usage, record>> /\ UNCHANGED verdicts

---------------------------------------------------------------------------
(* generate_text.                                                          *)

InFlight == {t \in Turns : turn[t].pc \notin {"new", "over"}}

\* A turn begins, or the open breaker refuses it.
Begin(t) ==
    /\ At(t, "new")
    /\ \A s \in Turns : At(s, "new") => t <= s
    /\ Cardinality(InFlight) < MaxInFlight
    /\ breaker' = Asked(breaker)
    /\ GoesOn(t, IF breaker'.state = "open" THEN Over ELSE Moved(t, "ask"))
    /\ UNCHANGED <<usage, record, streak, rested>> /\ UNCHANGED governor

\* The last round is answered: by the provider, or in its stead by the
\* terminal response of a tool.  The answer is paid for in tokens and counted.
Succeed(t) ==
    /\ At(t, "call")
    /\ GoesOn(t, Over)
    /\ breaker' = AfterSuccess(breaker)
    /\ streak' = 0
    /\ tpm' \in 0..tpm
    /\ record' = [record EXCEPT ![t] = turn[t].made]
    /\ UNCHANGED <<rpm, spacing, usage, rested>>

\* The model calls a tool and is to be asked again with its result.
CallTool(t) ==
    /\ At(t, "call")
    /\ turn[t].stage < MaxStages
    /\ GoesOn(t, [Moved(t, "ask") EXCEPT !.stage = @ + 1])
    /\ UNCHANGED <<usage, record>> /\ UNCHANGED governor /\ UNCHANGED verdicts

\* The provider fails: with an error worth a retry, with another, or not at
\* all within the time of an attempt, which includes the governor's waits.
\* The fallback's only attempt has no such time.
Erred(t) == At(t, "call")
TimedOut(t) == Primary(t) /\ turn[t].pc \in {"rpm", "tpm", "nap", "call"}

\* Mutant of Again: the attempts are not counted.
AgainUncounted(t) == [Moved(t, "ask") EXCEPT !.stage = 1]

\* The next attempt, from the first round.
Again(t) == [Moved(t, "ask") EXCEPT !.attempt = @ + 1, !.stage = 1, !.blind = FALSE]
AnotherAttempt(t) == turn[t].attempt < LastAttempt

Retry(t) ==
    /\ Erred(t) \/ TimedOut(t)
    /\ AnotherAttempt(t)
    /\ GoesOn(t, Again(t))
    /\ UNCHANGED <<rpm, tpm, spacing, usage, record>> /\ UNCHANGED verdicts

\* No attempt is left, or the error is not worth one.  Whatever the turn
\* made of requests, it is counted as one of the primary model.
Fail(t) ==
    /\ Erred(t) \/ (TimedOut(t) /\ ~AnotherAttempt(t))
    /\ GoesOn(t, Over)
    /\ breaker' = AfterFailure(breaker)
    /\ streak' = streak + 1
    /\ rested' = FALSE
    /\ record' = [record EXCEPT ![t] = 1]
    /\ UNCHANGED <<rpm, tpm, spacing, usage>>

---------------------------------------------------------------------------
(* record_usage, in a thread for each turn.                                *)

\* The total of the rows changes.
Counted(n) ==
    /\ usage' = n
    /\ turn' = [t \in Turns |-> [turn[t] EXCEPT !.late = @ /\ n >= DailyLimit]]
    /\ UNCHANGED governor /\ UNCHANGED verdicts

\* The sum is written over whatever other threads have written since the row
\* was read; or the insertion of the row collides or the store fails, which
\* is only logged.
RecordUsage(t) ==
    /\ record[t] > 0
    /\ \/ \E seen \in 0..usage : Counted(Minimum(DailyLimit, seen + record[t]))
       \/ Counted(usage)
    /\ record' = [record EXCEPT ![t] = 0]

\* The date changes: there are no rows of the day yet.
Midnight ==
    /\ usage > 0
    /\ Counted(0)
    /\ UNCHANGED record

---------------------------------------------------------------------------
Init ==
    /\ turn = [t \in Turns |-> New]
    /\ breaker = Closed
    /\ rpm = RpmCap /\ tpm = TpmCap
    /\ spacing = FALSE
    /\ usage = 0 /\ record = [t \in Turns |-> 0]
    /\ streak = 0 /\ rested = TRUE

Proceed(t) ==
    \/ CapCheck(t) \/ TakeRpm(t) \/ TakeTpm(t) \/ Wake(t) \/ Refuse(t)
    \/ Succeed(t) \/ CallTool(t) \/ Retry(t) \/ Fail(t)

Next ==
    \/ \E t \in Turns : Begin(t) \/ Proceed(t) \/ RecordUsage(t)
    \/ OpenSecondsPass \/ Health \/ IntervalEnds \/ Refill \/ Midnight

\* A turn that has begun goes on: every wait and every request has a time
\* limit or an answer; and the interval ends.
Fairness == (\A t \in Turns : WF_vars(Proceed(t))) /\ WF_vars(IntervalEnds)

Spec == Init /\ [][Next]_vars /\ Fairness

---------------------------------------------------------------------------
TypeOK ==
    /\ turn \in [Turns -> [pc : {"new", "ask", "rpm", "tpm", "nap", "wake", "call", "over"},
                           attempt : 1..LastAttempt, stage : 1..MaxStages, made : 0..DailyLimit,
                           blind : BOOLEAN, paced : BOOLEAN, late : BOOLEAN]]
    /\ breaker \in [state : {"closed", "open", "half_open"}, failures : 0..MaxTurns,
                     cooled : BOOLEAN]
    /\ rpm \in 0..RpmCap /\ tpm \in 0..TpmCap
    /\ spacing \in BOOLEAN /\ rested \in BOOLEAN
    /\ usage \in 0..DailyLimit /\ record \in [Turns -> 0..DailyLimit]
    /\ streak \in 0..MaxTurns

\* The breaker is closed exactly as long as fewer turns than the threshold
\* have failed in a row, and a refusal by our own limits is no failure:
\* record_failure, record_success and the except clauses of generate_text.
BreakerCountsFailedTurns ==
    /\ breaker.failures = streak
    /\ breaker.state = "closed" <=> streak < Threshold

\* After a threshold of failures in a row, no turn begins before open_seconds
\* have passed since the last of them, be it that of a probe.  One success,
\* even of a turn that began before, lets them in again.
RestsAfterFailures ==
    [][\A t \in Turns : At(t, "new") /\ turn'[t].pc = "ask" =>
          streak < Threshold \/ rested]_vars

\* A step in which the turn sends a request.
Sends(t) == ~At(t, "call") /\ turn'[t].pc = "call"

\* Callers who slept for the same interval send together, but a turn never
\* sends twice without the interval between: _last_request_at in acquire.
OncePerInterval ==
    [][\A t \in Turns : Sends(t) => ~turn[t].paced]_vars

\* Once the day's totals have reached the limit, a turn that is under way
\* sends one more request at most, unless the store could not be asked.
LimitStopsEachTurn ==
    [][\A t \in Turns : Sends(t) /\ AtLimit /\ ~turn[t].blind => ~turn[t].late]_vars

\* Every turn that begins ends, through waits, retries and the fallback: with
\* finitely many of them, there comes a time when none is under way.
TurnsEnd == InFlight # {} ~> InFlight = {}
=============================================================================
