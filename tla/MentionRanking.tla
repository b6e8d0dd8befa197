--------------------------- MODULE MentionRanking ---------------------------
(***************************************************************************)
(* Which of the people that a search of the directory finds for a name is  *)
(* meant: the weights and the margin of bot/mention_scoring.py.            *)
(*                                                                         *)
(* A candidate is [id, exact, mail, dept, boss, name]: whether the name is *)
(* exactly one of its identities, the domain of its addresses, its         *)
(* department and its manager, and the place of its name in the alphabet.  *)
(* The requester is [id, dept].                                            *)
(***************************************************************************)
EXTENDS Integers, FiniteSets, Sequences

CONSTANTS NoDept,      \* no department is known
          Kinds,       \* [exact, mail, dept, boss]: the kinds of candidates
          MaxFound,    \* bound: candidates that a search returns
          NameOrders,  \* the places that their names may have in the alphabet
          Askers       \* requesters

ASSUME RankingAssumption == /\ MaxFound \in Nat
                            /\ NameOrders \subseteq [1..MaxFound -> Nat]

\* The people that a search returns, in its order.
Found(kinds, order) ==
    [i \in DOMAIN kinds |-> [id |-> i, exact |-> kinds[i].exact, mail |-> kinds[i].mail,
                             dept |-> kinds[i].dept, boss |-> kinds[i].boss, name |-> order[i]]]

WEIGHT_EXACT == 4
WEIGHT_PRIMARY_DOMAIN == 3
WEIGHT_ONMICROSOFT_PENALTY == 2
WEIGHT_DEPARTMENT == 3
WEIGHT_DIRECT_REPORT == 5
AUTO_PICK_MARGIN == 2

Given(holds, weight) == IF holds THEN weight ELSE 0

\* score_candidate.
Score(c, requester) ==
    Given(c.exact, WEIGHT_EXACT)
    + Given(c.mail = "primary", WEIGHT_PRIMARY_DOMAIN)
    - Given(c.mail = "onmicrosoft", WEIGHT_ONMICROSOFT_PENALTY)
    + Given(requester.dept # NoDept /\ c.dept = requester.dept, WEIGHT_DEPARTMENT)
    + Given(c.boss = requester.id, WEIGHT_DIRECT_REPORT)

\* The order of the ranking: by falling score, then by name, and otherwise as
\* in the list, since sorted is stable.
Before(cands, requester, i, j) ==
    LET score(k) == Score(cands[k], requester)
    IN  \/ score(i) > score(j)
        \/ /\ score(i) = score(j)
           /\ \/ cands[i].name < cands[j].name
              \/ cands[i].name = cands[j].name /\ i < j

\* The first in the ranking of these places of the list.
First(places, cands, requester) ==
    CHOOSE i \in places : \A j \in places \ {i} : Before(cands, requester, i, j)

\* Mutant of Margin: the first of the ranked is ahead without a margin.
MarginOfNone(top, second) == top > 0
\* The rules by which the first of the ranked is picked; the code has a third,
\* for a positive second score, which asks for the same margin.
Margin(top, second) ==
    /\ ~(top <= 0 /\ second <= 0)
    /\ \/ top - second >= AUTO_PICK_MARGIN
       \/ second = 0 /\ top >= WEIGHT_EXACT

\* rank_and_pick: whom it picks, if anybody.
RankAndPick(cands, requester) ==
    LET exact == {i \in DOMAIN cands : cands[i].exact}
        top == First(DOMAIN cands, cands, requester)
        second == First(DOMAIN cands \ {top}, cands, requester)
        ahead == Margin(Score(cands[top], requester), Score(cands[second], requester))
    IN  IF Len(cands) <= 1 THEN {cands[i].id : i \in DOMAIN cands}
        ELSE IF Cardinality(exact) = 1 THEN {cands[i].id : i \in exact}
        ELSE IF ahead THEN {cands[top].id} ELSE {}

---------------------------------------------------------------------------
\* What the rules amount to, of a set of candidates: the only one, the only
\* exact one, or, where no single one is exact, one with a positive score
\* that is ahead of every other by the margin.
ClearWinner(c, cands, requester) ==
    \/ cands = {c}
    \/ {d \in cands : d.exact} = {c}
    \/ /\ Cardinality({d \in cands : d.exact}) # 1
       /\ Score(c, requester) > 0
       /\ \A d \in cands \ {c} :
             Score(c, requester) >= Score(d, requester) + AUTO_PICK_MARGIN

\* The pick does not depend on the order in which the directory lists people,
\* nor on their names: it is the clear winner, and nobody is picked if there
\* is none.  cands is a list without repetitions.
PicksTheClearWinner(cands, requester) ==
    LET people == {cands[i] : i \in DOMAIN cands}
    IN  RankAndPick(cands, requester)
          = {c.id : c \in {d \in people : ClearWinner(d, people, requester)}}
=============================================================================
