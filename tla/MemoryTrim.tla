----------------------------- MODULE MemoryTrim -----------------------------
(***************************************************************************)
(* The conversation memory that a model call is given: trim_messages       *)
(* (ai/memory_trim.py).  A message is [kind, size], its size being the     *)
(* length of its content, below 10^9.  A limit of 0 is no limit.           *)
(***************************************************************************)
EXTENDS Naturals, FiniteSets, Sequences, SequencesExt

CONSTANTS Conversations,  \* lists of messages
          Limits          \* [turns, result, chars]: limits that may be set

\* What a conversation is made of.
Memories == [kind : {"user", "model", "result"}, size : Nat]
ASSUME ConversationsAssumption ==
    /\ Conversations \subseteq Seq(Memories)
    /\ Limits \subseteq [turns : Nat, result : Nat, chars : Nat]

\* _split_into_turns: where the turns begin.  The first may begin without a
\* message of the user.
Starts(ms) == {i \in DOMAIN ms : i = 1 \/ ms[i].kind = "user"}
From(ms, i) == SubSeq(ms, i, Len(ms))

\* _content_chars.
Chars(ms) == FoldLeft(LAMBDA sum, m : sum + m.size, 0, ms)

\* The length of the note "\n...[truncated N chars]" that takes the place of
\* what is omitted: it grows with the digits of N.
Powers == {1, 10, 100, 1000, 10000, 100000, 1000000, 10000000, 100000000}
Digits(n) == Cardinality({p \in Powers : p <= n})
Note(omitted) == 22 + Digits(omitted)

\* _truncate_tool_result.
Truncated(m, limit) ==
    IF limit > 0 /\ m.kind = "result" /\ m.size > limit
      THEN [m EXCEPT !.size = limit + Note(m.size - limit)] ELSE m

\* The last turns, at most as many as the limit.
LastTurns(ms, limit) ==
    IF limit > 0 /\ Cardinality(Starts(ms)) > limit
      THEN From(ms, CHOOSE i \in Starts(ms) :
                        Cardinality({j \in Starts(ms) : j >= i}) = limit)
      ELSE ms

\* Mutant of WithinBudget: the last turn is dropped as well.
WithinBudgetOrNothing(ms, limit) ==
    LET fits == {i \in Starts(ms) : Chars(From(ms, i)) <= limit}
    IN  IF limit = 0 THEN ms
        ELSE IF fits = {} THEN << >>
        ELSE From(ms, CHOOSE i \in fits : \A j \in fits : i <= j)

\* The oldest turns are dropped until the rest fits or is the last turn.
WithinBudget(ms, limit) ==
    LET fits == {i \in Starts(ms) : \/ Chars(From(ms, i)) <= limit
                                    \/ \A j \in Starts(ms) : j <= i}
    IN  IF limit = 0 \/ ms = << >> THEN ms
        ELSE From(ms, CHOOSE i \in fits : \A j \in fits : i <= j)

\* trim_messages: without a limit of turns or of characters, the limit of a
\* tool result is not looked at either.
Trimmed(ms, maxTurns, maxResult, maxChars) ==
    IF maxTurns = 0 /\ maxChars = 0 THEN ms
    ELSE LET kept == LastTurns(ms, maxTurns)
         IN  WithinBudget([i \in DOMAIN kept |-> Truncated(kept[i], maxResult)], maxChars)

---------------------------------------------------------------------------
\* What is kept of a list ms, r being what trimming returns: the newest
\* messages, in their order and of them only tool results shortened, from the
\* first message of a turn on, so that no result is kept without its call; the
\* newest turn, whatever its size; nothing beyond the limits but the newest
\* turn; and as much as the limits allow.  The next call of the model trims
\* again what this one left, notes and all: that may change a note's length,
\* and for a character drop a turn, but once only, so that a conversation in
\* which nothing is said does not wear away.
KeepsTheNewestThatFit(ms, r, maxTurns, maxResult, maxChars) ==
    LET off == Len(ms) - Len(r)
        short == [i \in DOMAIN ms |-> Truncated(ms[i], maxResult)]
        within(s) == /\ maxTurns > 0 => Cardinality(Starts(s)) <= maxTurns
                     /\ maxChars > 0 => Chars(s) <= maxChars
    IN  /\ off \in 0..Len(ms)
        /\ \A i \in DOMAIN r : r[i] \in {ms[i + off], short[i + off]}
        /\ ms # << >> => off + 1 \in Starts(ms)
        /\ within(r) \/ Cardinality(Starts(r)) = 1
        /\ \A i \in Starts(ms) : i <= off => ~within(From(short, i))
        /\ LET again == Trimmed(r, maxTurns, maxResult, maxChars)
           IN  Trimmed(again, maxTurns, maxResult, maxChars) = again
=============================================================================
