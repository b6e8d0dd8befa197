-------------------------- MODULE MCAssigneeChoice --------------------------
(***************************************************************************)
(* A group conversation of ann and ben.  Sam is sam or tom, and sam a      *)
(* report of ann's: she finds her Sam without a card, as long as the       *)
(* directory says so, and ben does not.  Of Lee nothing is found.          *)
(***************************************************************************)
EXTENDS AssigneeChoice

CONSTANTS ann, ben, sam, tom
TurnSymmetry == Permutations(Turns)

MCNames == {"Sam", "Lee"}
MCMessages == {[names |-> <<"Lee", "Sam">>, mentions |-> {}],
               [names |-> <<"Lee">>, mentions |-> {<<"Sam", tom>>}]}
MCSearches == [n \in MCNames |-> {IF n = "Sam" THEN <<sam, tom>> ELSE << >>}]
MCExact == {}
MCMail == [p \in {ann, ben, sam, tom} |-> "other"]
MCGraphDept == [p \in {ann, ben, sam, tom} |-> NoDept]

Profile(dept, manager, active) ==
    [listed |-> TRUE, dept |-> dept, manager |-> manager, active |-> active]
Directory == [p \in {ann, ben, sam, tom} |->
    CASE p = ann -> Profile("CEO", Nobody, TRUE)
      [] p = ben -> Profile("FIN", Nobody, TRUE)
      [] p = sam -> Profile("IT", ann, TRUE)
      [] p = tom -> Profile("IT", ben, FALSE)]
Edge(from, to, both) == [from |-> [id |-> Nobody, dept |-> from],
                         to |-> [id |-> Nobody, dept |-> to], both |-> both]
Policy == [deny |-> {}, edges |-> {Edge("IT", "FIN", TRUE)},
           ceo |-> TRUE, same |-> TRUE, cross |-> FALSE]
\* Later, tom is active and in the department of ben, from which an edge bars
\* him; sam reports to ben; and the edge that allowed is gone.
MCArtefacts ==
    {[profiles |-> Directory, rules |-> Policy],
     [profiles |-> [Directory EXCEPT ![tom].dept = "FIN", ![sam].manager = ben, ![tom].active = TRUE],
      rules |-> [Policy EXCEPT !.edges = {},
                               !.deny = {[Edge("FIN", "FIN", FALSE) EXCEPT !.to.id = tom]}]]}

---------------------------------------------------------------------------
(* The inputs of the pure algorithms, tried in the initial states.         *)

\* Up to three candidates with every reason for and against them, and the
\* orders of their names: that of the list, the other one, all alike.
MCKinds == [exact : BOOLEAN, mail : {"primary", "onmicrosoft", "other"},
            dept : {NoDept, "IT"}, boss : {ann, Nobody}]
MCNameOrders == {<<1, 2, 3>>, <<3, 2, 1>>, <<1, 1, 1>>}
MCAskers == {[id |-> ann, dept |-> "IT"]}

\* Up to four messages, short and long, under every combination of limits.
MCConversations ==
    UNION {[1..n -> [kind : {"user", "model", "result"}, size : {1, 4}]] : n \in 0..4}
MCLimits == [turns : 0..2, result : {0, 1}, chars : {0, 2, 26}]
=============================================================================
