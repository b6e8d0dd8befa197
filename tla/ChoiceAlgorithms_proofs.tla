----------------------- MODULE ChoiceAlgorithms_proofs -----------------------
(***************************************************************************)
(* Proofs about the pure algorithms of AssigneeChoice, for lists of any    *)
(* length: the ranking of bot/mention_scoring.py picks the clear winner,   *)
(* and the trimming of ai/memory_trim.py keeps the newest turns that fit.  *)
(***************************************************************************)
EXTENDS MentionRanking, MemoryTrim, SequenceTheorems, FiniteSetTheorems,
        WellFoundedInduction, TLAPS

---------------------------------------------------------------------------
(* The ranking.                                                            *)

\* A score is an integer, and at most what all weights together come to.
MaxScore == WEIGHT_EXACT + WEIGHT_PRIMARY_DOMAIN + WEIGHT_DEPARTMENT + WEIGHT_DIRECT_REPORT
LEMMA ScoreType ==
    ASSUME NEW c, NEW requester
    PROVE  Score(c, requester) \in Int /\ Score(c, requester) <= MaxScore
  <1> DEFINE a == Given(c.exact, WEIGHT_EXACT)
             b == Given(c.mail = "primary", WEIGHT_PRIMARY_DOMAIN)
             m == Given(c.mail = "onmicrosoft", WEIGHT_ONMICROSOFT_PENALTY)
             d == Given(requester.dept # NoDept /\ c.dept = requester.dept, WEIGHT_DEPARTMENT)
             e == Given(c.boss = requester.id, WEIGHT_DIRECT_REPORT)
  <1>1. a \in {0, 4} /\ b \in {0, 3} /\ m \in {0, 2} /\ d \in {0, 3} /\ e \in {0, 5}
    BY DEF Given, WEIGHT_EXACT, WEIGHT_PRIMARY_DOMAIN, WEIGHT_ONMICROSOFT_PENALTY,
           WEIGHT_DEPARTMENT, WEIGHT_DIRECT_REPORT
  <1>2. Score(c, requester) = a + b - m + d + e
    BY DEF Score
  <1> HIDE DEF a, b, m, d, e
  <1>3. MaxScore = 15
    BY DEF MaxScore, WEIGHT_EXACT, WEIGHT_PRIMARY_DOMAIN, WEIGHT_DEPARTMENT, WEIGHT_DIRECT_REPORT
  <1> QED
    BY <1>1, <1>2, <1>3

\* A set of numbers that is not empty has a least one.
LEMMA LeastNumber ==
    ASSUME NEW T \in SUBSET Nat, T # {}
    PROVE  \E n \in T : \A k \in T : n <= k
  <1>1. PICK n \in T : \A k \in T : ~(<<k, n>> \in OpToRel(<, Nat))
    BY NatLessThanWellFounded, WFMin
  <1>2. ASSUME NEW k \in T PROVE n <= k
    <2>1. n \in Nat /\ k \in Nat /\ ~(<<k, n>> \in OpToRel(<, Nat))
      BY <1>1
    <2>2. k < n => <<k, n>> \in OpToRel(<, Nat)
      BY <2>1 DEF OpToRel
    <2>3. ~(k < n)
      BY <2>1, <2>2
    <2>4. n \in Nat /\ k \in Nat
      BY <2>1
    <2> QED
      BY <2>3, <2>4
  <1> QED
    BY <1>2

---------------------------------------------------------------------------
(* Of any places of a list one is first in the ranking, and it has the     *)
(* highest score of them.                                                  *)

Rankable(cands) == /\ DOMAIN cands \subseteq Nat
                   /\ \A i \in DOMAIN cands : cands[i].name \in Nat

LEMMA SomebodyIsFirst ==
    ASSUME NEW cands, Rankable(cands), NEW requester,
           NEW places \in SUBSET DOMAIN cands, places # {}
    PROVE  \E i \in places : \A j \in places \ {i} : Before(cands, requester, i, j)
  <1> DEFINE S(i) == Score(cands[i], requester)
             Short(i) == MaxScore - S(i)
             Shorts == {Short(i) : i \in places}
  <1>1. \A i \in places : S(i) \in Int /\ S(i) <= MaxScore /\ i \in Nat /\ cands[i].name \in Nat
    BY ScoreType DEF Rankable
  <1>2. MaxScore \in Nat
    BY DEF MaxScore, WEIGHT_EXACT, WEIGHT_PRIMARY_DOMAIN, WEIGHT_DEPARTMENT, WEIGHT_DIRECT_REPORT
  <1> HIDE DEF S
  <1>3. PICK s \in Shorts : \A k \in Shorts : s <= k
    <2>1. Shorts \in SUBSET Nat /\ Shorts # {}
      BY <1>1, <1>2
    <2> HIDE DEF Shorts
    <2> QED
      BY <2>1, LeastNumber
  <1> DEFINE Tops == {i \in places : Short(i) = s}
             Numbers == {cands[i].name : i \in Tops}
  <1>4. PICK n \in Numbers : \A k \in Numbers : n <= k
    <2>1. Numbers \in SUBSET Nat /\ Numbers # {}
      BY <1>1, <1>3
    <2> HIDE DEF Numbers
    <2> QED
      BY <2>1, LeastNumber
  <1> DEFINE Firsts == {i \in Tops : cands[i].name = n}
  <1>5. PICK i \in Firsts : \A k \in Firsts : i <= k
    <2>1. Firsts \in SUBSET Nat /\ Firsts # {}
      BY <1>1, <1>4
    <2> HIDE DEF Firsts
    <2> QED
      BY <2>1, LeastNumber
  <1>6. ASSUME NEW j \in places \ {i} PROVE Before(cands, requester, i, j)
    <2>1. Short(i) = s /\ s <= Short(j)
      BY <1>3, <1>5
    <2>2. S(i) >= S(j)
      BY <1>1, <1>2, <2>1
    <2>3. S(i) = S(j) => cands[i].name <= cands[j].name
      BY <1>4, <1>5, <2>1
    <2>4. S(i) = S(j) /\ cands[i].name = cands[j].name => i <= j
      BY <1>4, <1>5, <2>1
    <2>5. i \in Nat /\ j \in Nat /\ i # j /\ cands[i].name \in Nat /\ cands[j].name \in Nat
          /\ S(i) \in Int /\ S(j) \in Int
      BY <1>1, <1>5
    <2>6. \/ S(i) > S(j)
          \/ /\ S(i) = S(j)
             /\ cands[i].name < cands[j].name \/ (cands[i].name = cands[j].name /\ i < j)
      BY <2>2, <2>3, <2>4, <2>5
    <2> QED
      BY <2>6 DEF Before, S
  <1> QED
    BY <1>5, <1>6

LEMMA FirstScoresHighest ==
    ASSUME NEW cands, Rankable(cands), NEW requester,
           NEW places \in SUBSET DOMAIN cands, places # {}
    PROVE  LET first == First(places, cands, requester)
           IN  /\ first \in places
               /\ \A j \in places : Score(cands[first], requester) >= Score(cands[j], requester)
  <1> DEFINE first == First(places, cands, requester)
  <1>1. first \in places /\ \A j \in places \ {first} : Before(cands, requester, first, j)
    BY SomebodyIsFirst DEF First
  <1> HIDE DEF first
  <1>2. ASSUME NEW j \in places
        PROVE  Score(cands[first], requester) >= Score(cands[j], requester)
    <2>1. Score(cands[first], requester) \in Int /\ Score(cands[j], requester) \in Int
      BY ScoreType
    <2>2. CASE j = first
      BY <2>1, <2>2
    <2>3. CASE j # first
      <3>1. \/ Score(cands[first], requester) > Score(cands[j], requester)
            \/ Score(cands[first], requester) = Score(cands[j], requester)
        BY <1>1, <2>3 DEF Before
      <3> QED
        BY <2>1, <3>1
    <2> QED
      BY <2>2, <2>3
  <1> QED
    BY <1>1, <1>2 DEF first

\* The margins come down to one: a positive score, ahead by AUTO_PICK_MARGIN.
LEMMA MarginIsAhead ==
    ASSUME NEW top \in Int, NEW second \in Int, top >= second
    PROVE  Margin(top, second) <=> top > 0 /\ top >= second + AUTO_PICK_MARGIN
  BY DEF Margin, AUTO_PICK_MARGIN, WEIGHT_EXACT

---------------------------------------------------------------------------
\* Of any list without repetitions rank_and_pick takes the clear winner, and
\* nobody if there is none: neither the order in which the directory lists
\* people nor their names decide.
THEOREM TheClearWinnerIsPicked ==
    ASSUME NEW S, NEW cands \in Seq(S), NEW requester,
           \A i \in DOMAIN cands : cands[i].name \in Nat,
           \A i, j \in DOMAIN cands : cands[i] = cands[j] => i = j
    PROVE  PicksTheClearWinner(cands, requester)
  <1> DEFINE people == {cands[i] : i \in DOMAIN cands}
             exact == {i \in DOMAIN cands : cands[i].exact}
             clear == {d \in people : ClearWinner(d, people, requester)}
             Sc(i) == Score(cands[i], requester)
  <1> SUFFICES RankAndPick(cands, requester) = {c.id : c \in clear}
    BY DEF PicksTheClearWinner
  <1>1. Len(cands) \in Nat /\ DOMAIN cands = 1..Len(cands)
    OBVIOUS
  <1>2. Rankable(cands) /\ IsFiniteSet(DOMAIN cands)
    <2>1. DOMAIN cands \subseteq Nat
      BY <1>1
    <2> QED
      BY <1>1, <2>1, FS_Interval DEF Rankable
  <1>3. CASE Len(cands) = 0
    <2>1. DOMAIN cands = {} /\ clear = {}
      BY <1>1, <1>3
    <2> QED
      BY <1>3, <2>1 DEF RankAndPick
  <1>4. CASE Len(cands) = 1
    <2>1. DOMAIN cands = {1} /\ people = {cands[1]}
      BY <1>1, <1>4
    <2>2. clear = {cands[1]}
      BY <2>1 DEF ClearWinner
    <2>3. RankAndPick(cands, requester) = {cands[i].id : i \in DOMAIN cands}
      BY <1>4 DEF RankAndPick
    <2> QED
      BY <2>1, <2>2, <2>3
  <1>5. CASE Len(cands) > 1
    <2>1. 1 \in DOMAIN cands /\ 2 \in DOMAIN cands /\ ~(Len(cands) <= 1)
      BY <1>1, <1>5
    <2>2. \A c \in people : people # {c}
      <3>1. cands[1] # cands[2] /\ cands[1] \in people /\ cands[2] \in people
        BY <2>1
      <3> QED
        BY <3>1
    <2>3. IsFiniteSet(exact)
      BY <1>2, FS_Subset
    <2>4. IsFiniteSet({d \in people : d.exact})
      <3>1. IsFiniteSet(people)
        <4>1. cands \in Surjection(1..Len(cands), people)
          BY <1>1 DEF Surjection
        <4> QED
          BY <1>1, <4>1, FS_NatSurjection DEF ExistsSurjection
      <3> QED
        BY <3>1, FS_Subset
    <2>5. Cardinality(exact) = 1 <=> \E i \in DOMAIN cands : exact = {i}
      BY <2>3, FS_Singleton
    <2>6. Cardinality({d \in people : d.exact}) = 1
             <=> \E c \in people : {d \in people : d.exact} = {c}
      BY <2>4, FS_Singleton
    <2>7. \A i \in DOMAIN cands : exact = {i} <=> {d \in people : d.exact} = {cands[i]}
      OBVIOUS
    <2>8. CASE Cardinality(exact) = 1
      <3>1. PICK k \in DOMAIN cands : exact = {k}
        BY <2>5, <2>8
      <3>2. {d \in people : d.exact} = {cands[k]}
        BY <2>7, <3>1
      <3>3. Cardinality({d \in people : d.exact}) = 1
        BY <2>6, <3>2
      <3>4. clear = {cands[k]}
        BY <2>2, <3>2, <3>3 DEF ClearWinner
      <3>5. RankAndPick(cands, requester) = {cands[i].id : i \in exact}
        BY <2>1, <2>8 DEF RankAndPick
      <3> QED
        BY <3>1, <3>4, <3>5
    <2>9. CASE Cardinality(exact) # 1
      <3> DEFINE top == First(DOMAIN cands, cands, requester)
                 second == First(DOMAIN cands \ {top}, cands, requester)
      <3>1. top \in DOMAIN cands /\ \A j \in DOMAIN cands : Sc(top) >= Sc(j)
        BY <1>2, <2>1, FirstScoresHighest
      <3>2. second \in DOMAIN cands \ {top} /\ \A j \in DOMAIN cands \ {top} : Sc(second) >= Sc(j)
        <4>1. DOMAIN cands \ {top} # {}
          BY <2>1
        <4> QED
          BY <1>2, <4>1, FirstScoresHighest
      <3>3. RankAndPick(cands, requester)
              = IF Margin(Sc(top), Sc(second)) THEN {cands[top].id} ELSE {}
        BY <2>1, <2>9 DEF RankAndPick
      <3>4. \A i \in DOMAIN cands : Sc(i) \in Int
        BY ScoreType
      <3> HIDE DEF top, second
      <3>5. Margin(Sc(top), Sc(second)) <=> Sc(top) > 0 /\ Sc(top) >= Sc(second) + AUTO_PICK_MARGIN
        BY <3>1, <3>2, <3>4, MarginIsAhead
      <3>6. Cardinality({d \in people : d.exact}) # 1
            /\ \A c \in people : {d \in people : d.exact} # {c}
        BY <2>5, <2>6, <2>7, <2>9
      <3>7. \A i \in DOMAIN cands : ClearWinner(cands[i], people, requester)
               <=> Sc(i) > 0 /\ \A j \in DOMAIN cands \ {i} : Sc(i) >= Sc(j) + AUTO_PICK_MARGIN
        <4>1. ASSUME NEW i \in DOMAIN cands
              PROVE  people \ {cands[i]} = {cands[j] : j \in DOMAIN cands \ {i}}
          OBVIOUS
        <4> QED
          BY <2>2, <3>6, <4>1 DEF ClearWinner
      <3> HIDE DEF Sc
      <3>8. \A i \in DOMAIN cands :
               (Sc(i) > 0 /\ \A j \in DOMAIN cands \ {i} : Sc(i) >= Sc(j) + AUTO_PICK_MARGIN)
                 <=> i = top /\ Margin(Sc(top), Sc(second))
        <4>1. ASSUME NEW i \in DOMAIN cands, i # top
              PROVE  ~(\A j \in DOMAIN cands \ {i} : Sc(i) >= Sc(j) + AUTO_PICK_MARGIN)
          <5>1. Sc(top) >= Sc(i) /\ Sc(top) \in Int /\ Sc(i) \in Int /\ top \in DOMAIN cands \ {i}
            BY <3>1, <3>4, <4>1
          <5>2. ~(Sc(i) >= Sc(top) + AUTO_PICK_MARGIN)
            BY <5>1 DEF AUTO_PICK_MARGIN
          <5> QED
            BY <5>1, <5>2
        <4>2. (\A j \in DOMAIN cands \ {top} : Sc(top) >= Sc(j) + AUTO_PICK_MARGIN)
                <=> Sc(top) >= Sc(second) + AUTO_PICK_MARGIN
          <5>1. ASSUME Sc(top) >= Sc(second) + AUTO_PICK_MARGIN, NEW j \in DOMAIN cands \ {top}
                PROVE  Sc(top) >= Sc(j) + AUTO_PICK_MARGIN
            <6>1. Sc(second) >= Sc(j)
              BY <3>2
            <6>2. Sc(top) \in Int /\ Sc(second) \in Int /\ Sc(j) \in Int
              BY <3>1, <3>2, <3>4
            <6> QED
              BY <5>1, <6>1, <6>2 DEF AUTO_PICK_MARGIN
          <5> QED
            BY <3>2, <5>1
        <4> QED
          BY <3>1, <3>5, <4>1, <4>2
      <3>9. clear = IF Margin(Sc(top), Sc(second)) THEN {cands[top]} ELSE {}
        <4>1. \A i \in DOMAIN cands : ClearWinner(cands[i], people, requester)
                 <=> i = top /\ Margin(Sc(top), Sc(second))
          BY <3>7, <3>8
        <4> QED
          BY <3>1, <4>1
      <3> QED
        BY <3>3, <3>9
    <2> QED
      BY <2>8, <2>9
  <1>6. Len(cands) = 0 \/ Len(cands) = 1 \/ Len(cands) > 1
    BY <1>1
  <1> QED
    BY <1>3, <1>4, <1>5, <1>6

---------------------------------------------------------------------------
(* Sets of places in a list.                                               *)

LEMMA GreatestNumber ==
    ASSUME NEW n \in Nat, NEW T \in SUBSET (1..n), T # {}
    PROVE  \E m \in T : \A k \in T : k <= m
  <1> DEFINE U == {n - k : k \in T}
  <1>1. U \in SUBSET Nat /\ U # {}
    <2>1. \A k \in T : n - k \in Nat
      OBVIOUS
    <2> QED
      BY <2>1
  <1> HIDE DEF U
  <1>2. PICK u \in U : \A v \in U : u <= v
    BY <1>1, LeastNumber
  <1>3. PICK m \in T : u = n - m
    BY DEF U
  <1>4. ASSUME NEW k \in T PROVE k <= m
    <2>1. u <= n - k
      BY <1>2 DEF U
    <2> QED
      BY <1>3, <2>1
  <1> QED
    BY <1>4

LEMMA PlacesAreFinite ==
    ASSUME NEW n \in Nat, NEW T \in SUBSET (1..n)
    PROVE  IsFiniteSet(T) /\ Cardinality(T) \in Nat /\ \A i \in T : i \in Nat
  <1>1. IsFiniteSet(1..n)
    BY FS_Interval
  <1>2. IsFiniteSet(T)
    BY <1>1, FS_Subset
  <1>3. Cardinality(T) \in Nat
    BY <1>2, FS_CardinalityType
  <1> QED
    BY <1>2, <1>3

\* Counted from its end, a set has each of its places.
LEMMA FromTheEnd ==
    ASSUME NEW n \in Nat, NEW S \in SUBSET (1..n), NEW l \in Nat \ {0}, Cardinality(S) >= l
    PROVE  \E i \in S : Cardinality({j \in S : j >= i}) = l
  <1> DEFINE Upper(i) == {j \in S : j >= i}
             Few == {i \in S : Cardinality(Upper(i)) <= l}
  <1>1. IsFiniteSet(S) /\ Cardinality(S) \in Nat /\ \A i \in S : i \in Nat
    BY PlacesAreFinite
  <1>2. \A i \in S : IsFiniteSet(Upper(i)) /\ Cardinality(Upper(i)) \in Nat
    BY <1>1, FS_Subset, FS_CardinalityType
  <1>3. S # {}
    BY <1>1, FS_EmptySet
  <1>4. PICK m \in S : \A k \in S : k <= m
    BY <1>3, GreatestNumber
  <1>5. m \in Few
    <2>1. Upper(m) = {m}
      <3>1. \A k \in S : k >= m <=> k = m
        BY <1>1, <1>4
      <3> QED
        BY <3>1
    <2>2. Cardinality(Upper(m)) = 1
      BY <2>1, FS_Singleton
    <2> QED
      BY <2>2
  <1> HIDE DEF Few
  <1>6. PICK i \in Few : \A k \in Few : i <= k
    <2>1. Few \in SUBSET Nat /\ Few # {}
      BY <1>1, <1>5 DEF Few
    <2> QED
      BY <2>1, LeastNumber
  <1>7. i \in S /\ Cardinality(Upper(i)) <= l
    BY DEF Few
  <1>8. ASSUME Cardinality(Upper(i)) < l PROVE FALSE
    <2> DEFINE Below == S \ Upper(i)
    <2>1. Below # {}
      <3>1. Upper(i) # S
        BY <1>1, <1>2, <1>7, <1>8
      <3> QED
        BY <3>1
    <2>2. PICK p \in Below : \A k \in Below : k <= p
      BY <2>1, GreatestNumber
    <2>3. p \in S /\ p < i /\ p \notin Upper(i)
      BY <1>1, <1>7, <2>2
    <2>4. ASSUME NEW k \in S PROVE k >= p <=> k >= i \/ k = p
      <3>1. k \in Nat /\ p \in Nat /\ i \in Nat
        BY <1>1, <1>7, <2>3
      <3>2. ~(k >= i) => k <= p
        BY <2>2
      <3> QED
        BY <2>3, <3>1, <3>2
    <2>5. Upper(p) = Upper(i) \union {p}
      BY <2>3, <2>4
    <2>6. Cardinality(Upper(p)) = Cardinality(Upper(i)) + 1
      BY <1>2, <1>7, <2>3, <2>5, FS_AddElement
    <2>7. Cardinality(Upper(i)) \in Nat
      BY <1>2, <1>7
    <2>8. Cardinality(Upper(p)) <= l
      BY <1>8, <2>6, <2>7
    <2>9. p \in Few
      BY <2>3, <2>8 DEF Few
    <2> QED
      BY <1>6, <1>7, <2>3, <2>9
  <1>9. Cardinality(Upper(i)) = l
    BY <1>2, <1>7, <1>8
  <1> QED
    BY <1>7, <1>9

---------------------------------------------------------------------------
(* The end of a conversation, from one of its turns on.                    *)

Later(ms, i) == {j \in Starts(ms) : j >= i}
Short(ms, limit) == [i \in DOMAIN ms |-> Truncated(ms[i], limit)]

LEMMA FromIs ==
    ASSUME NEW ms \in Seq(Memories), NEW i \in DOMAIN ms
    PROVE  /\ From(ms, i) \in Seq(Memories) /\ From(ms, i) # << >>
           /\ Len(From(ms, i)) = Len(ms) - i + 1
           /\ \A k \in 1..Len(ms) - i + 1 : From(ms, i)[k] = ms[i + k - 1]
  <1>1. i \in Int /\ Len(ms) \in Nat /\ DOMAIN ms = 1..Len(ms) /\ i \in 1..Len(ms)
    OBVIOUS
  <1>2. \A k \in i..Len(ms) : ms[k] \in Memories
    BY <1>1
  <1>3. /\ From(ms, i) \in Seq(Memories)
        /\ Len(From(ms, i)) = IF i <= Len(ms) THEN Len(ms) - i + 1 ELSE 0
        /\ \A k \in 1..Len(ms) - i + 1 : From(ms, i)[k] = ms[i + k - 1]
    BY <1>1, <1>2, SubSeqProperties DEF From
  <1>4. Len(From(ms, i)) = Len(ms) - i + 1 /\ Len(ms) - i + 1 > 0
    BY <1>1, <1>3
  <1>5. From(ms, i) # << >>
    BY <1>4
  <1> QED
    BY <1>3, <1>4, <1>5

LEMMA StartsAre ==
    ASSUME NEW ms \in Seq(Memories)
    PROVE  /\ Starts(ms) \in SUBSET (1..Len(ms)) /\ Starts(ms) \subseteq DOMAIN ms
           /\ Len(ms) \in Nat /\ IsFiniteSet(Starts(ms)) /\ Cardinality(Starts(ms)) \in Nat
           /\ ms # << >> => 1 \in Starts(ms) /\ \A i \in Starts(ms) : 1 <= i
           /\ From(ms, 1) = ms
  <1>1. Starts(ms) \in SUBSET (1..Len(ms)) /\ Len(ms) \in Nat /\ Starts(ms) \subseteq DOMAIN ms
    BY DEF Starts
  <1>2. IsFiniteSet(Starts(ms)) /\ Cardinality(Starts(ms)) \in Nat
    BY <1>1, PlacesAreFinite
  <1>3. ms # << >> => 1 \in Starts(ms) /\ \A i \in Starts(ms) : 1 <= i
    BY <1>1 DEF Starts
  <1>4. From(ms, 1) = ms
    BY SubSeqFull DEF From
  <1> QED
    BY <1>1, <1>2, <1>3, <1>4

\* Its turns are the later turns of the conversation.
LEMMA StartsFrom ==
    ASSUME NEW ms \in Seq(Memories), NEW i \in Starts(ms)
    PROVE  /\ Starts(From(ms, i)) = {j - i + 1 : j \in Later(ms, i)}
           /\ Cardinality(Starts(From(ms, i))) = Cardinality(Later(ms, i))
  <1> DEFINE r == From(ms, i)
             f == [j \in Later(ms, i) |-> j - i + 1]
  <1>1. /\ Len(ms) \in Nat /\ DOMAIN ms = 1..Len(ms) /\ i \in 1..Len(ms)
        /\ r \in Seq(Memories) /\ Len(r) = Len(ms) - i + 1
        /\ \A k \in 1..Len(ms) - i + 1 : r[k] = ms[i + k - 1]
    BY StartsAre, FromIs
  <1> HIDE DEF r
  <1>2. Later(ms, i) \subseteq 1..Len(ms) /\ IsFiniteSet(Later(ms, i))
    BY StartsAre, FS_Subset DEF Later
  <1>3. DOMAIN r = 1..Len(ms) - i + 1
    BY <1>1
  <1>4. ASSUME NEW k \in 1..Len(ms) - i + 1
        PROVE  k \in Starts(r) <=> i + k - 1 \in Later(ms, i)
    <2>1. i + k - 1 \in 1..Len(ms) /\ i + k - 1 >= i /\ r[k] = ms[i + k - 1]
          /\ (k # 1 => i + k - 1 # 1)
      BY <1>1
    <2>2. CASE k = 1
      BY <1>1, <1>3, <2>2 DEF Starts, Later
    <2>3. CASE k # 1
      BY <1>1, <1>3, <2>1, <2>3 DEF Starts, Later
    <2> QED
      BY <2>2, <2>3
  <1>5. \A j \in Later(ms, i) : j - i + 1 \in 1..Len(ms) - i + 1 /\ i + (j - i + 1) - 1 = j
    BY <1>1, <1>2 DEF Later
  <1>6. Starts(r) \subseteq 1..Len(ms) - i + 1
    BY <1>3 DEF Starts
  <1>7. \A k \in 1..Len(ms) - i + 1 : (i + k - 1) - i + 1 = k
    BY <1>1
  <1>8. Starts(r) = {j - i + 1 : j \in Later(ms, i)}
    BY <1>4, <1>5, <1>6, <1>7
  <1>9. f \in Bijection(Later(ms, i), Starts(r))
    <2>1. f \in [Later(ms, i) -> Starts(r)]
      BY <1>8
    <2>2. \A a, b \in Later(ms, i) : f[a] = f[b] => a = b
      BY <1>1, <1>2
    <2>3. \A k \in Starts(r) : \E j \in Later(ms, i) : f[j] = k
      BY <1>8
    <2> QED
      BY <2>1, <2>2, <2>3 DEF Bijection, Injection, IsInjective, Surjection
  <1>10. Cardinality(Starts(r)) = Cardinality(Later(ms, i))
    BY <1>2, <1>9, FS_Bijection DEF ExistsBijection
  <1> QED
    BY <1>8, <1>10 DEF r

LEMMA Offsets ==
    ASSUME NEW i \in Int, NEW k \in Int, NEW n \in Int, NEW m \in Int, m = i + k - 1, 1 <= k
    PROVE  \A x \in 1..n - m + 1 : /\ k + x - 1 \in 1..n - i + 1
                                   /\ i + (k + x - 1) - 1 = m + x - 1
  <1> TAKE x \in 1..n - m + 1
  <1>1. k + x - 1 \in 1..n - i + 1
    OBVIOUS
  <1>2. i + (k + x - 1) - 1 = m + x - 1
    OBVIOUS
  <1> QED
    BY <1>1, <1>2

LEMMA FromFrom ==
    ASSUME NEW ms \in Seq(Memories), NEW i \in Int, i \in DOMAIN ms,
           NEW k \in Int, k \in DOMAIN From(ms, i)
    PROVE  /\ i + k - 1 \in DOMAIN ms
           /\ From(From(ms, i), k) = From(ms, i + k - 1)
  <1>1. PICK n \in Nat : n = Len(ms) /\ DOMAIN ms = 1..n
    OBVIOUS
  <1>2. PICK r \in Seq(Memories) : /\ r = From(ms, i) /\ Len(r) = n - i + 1
                                   /\ \A x \in 1..n - i + 1 : r[x] = ms[i + x - 1]
    BY <1>1, FromIs
  <1>3. i \in 1..n /\ k \in 1..n - i + 1 /\ k \in DOMAIN r
    BY <1>1, <1>2
  <1>4. PICK m \in Int : m = i + k - 1 /\ m \in 1..n
    BY <1>3
  <1>5. PICK a \in Seq(Memories) : /\ a = From(r, k) /\ Len(a) = (n - i + 1) - k + 1
                                   /\ \A x \in 1..(n - i + 1) - k + 1 : a[x] = r[k + x - 1]
    <2>1. /\ From(r, k) \in Seq(Memories)
          /\ Len(From(r, k)) = Len(r) - k + 1
          /\ \A x \in 1..Len(r) - k + 1 : From(r, k)[x] = r[k + x - 1]
      BY <1>3, FromIs
    <2> QED
      BY <1>2, <2>1
  <1>6. PICK b \in Seq(Memories) : /\ b = From(ms, m) /\ Len(b) = n - m + 1
                                   /\ \A x \in 1..n - m + 1 : b[x] = ms[m + x - 1]
    <2>1. m \in DOMAIN ms
      BY <1>1, <1>4
    <2>2. /\ From(ms, m) \in Seq(Memories)
          /\ Len(From(ms, m)) = Len(ms) - m + 1
          /\ \A x \in 1..Len(ms) - m + 1 : From(ms, m)[x] = ms[m + x - 1]
      BY <2>1, FromIs
    <2> QED
      BY <1>1, <2>2
  <1>7. (n - i + 1) - k + 1 = n - m + 1
    BY <1>3, <1>4
  <1>8. \A x \in 1..n - m + 1 : /\ k + x - 1 \in 1..n - i + 1
                                /\ i + (k + x - 1) - 1 = m + x - 1
    <2>1. i \in Int /\ k \in Int /\ n \in Int /\ 1 <= k
      BY <1>3
    <2> QED
      BY <1>4, <2>1, Offsets
  <1>9. \A x \in 1..n - m + 1 : a[x] = r[k + x - 1] /\ b[x] = ms[m + x - 1]
    BY <1>5, <1>6, <1>7
  <1>10. \A x \in 1..n - m + 1 : a[x] = b[x]
    BY <1>2, <1>8, <1>9
  <1>11. a = b
    <2>1. Len(a) = Len(b) /\ \A x \in 1..Len(a) : a[x] = b[x]
      BY <1>5, <1>6, <1>7, <1>10
    <2> QED
      BY <2>1, SeqEqual
  <1> QED
    BY <1>1, <1>2, <1>4, <1>5, <1>6, <1>11

\* A number has at most nine digits, and two of them from 10 to 99.
LEMMA DigitsAre ==
    ASSUME NEW n \in Nat
    PROVE  Digits(n) \in 0..9 /\ (n \in 10..99 => Digits(n) = 2)
  <1> DEFINE below == {p \in Powers : p <= n}
             four == {1, 10, 100, 1000}
             eight == {1, 10, 100, 1000, 10000, 100000, 1000000, 10000000}
  <1>1. IsFiniteSet({1, 10}) /\ Cardinality({1, 10}) = 2
    <2>1. IsFiniteSet({1}) /\ Cardinality({1}) = 1
      BY FS_Singleton
    <2>2. {1} \union {10} = {1, 10} /\ 10 \notin {1}
      OBVIOUS
    <2> QED
      BY <2>1, <2>2, FS_AddElement
  <1>2. IsFiniteSet(four) /\ Cardinality(four) = 4
    <2>1. IsFiniteSet({1, 10, 100}) /\ Cardinality({1, 10, 100}) = 3
      <3>1. {1, 10} \union {100} = {1, 10, 100} /\ 100 \notin {1, 10}
        OBVIOUS
      <3> QED
        BY <1>1, <3>1, FS_AddElement
    <2>2. {1, 10, 100} \union {1000} = four /\ 1000 \notin {1, 10, 100}
      OBVIOUS
    <2> QED
      BY <2>1, <2>2, FS_AddElement
  <1>3. IsFiniteSet(eight) /\ Cardinality(eight) = 8
    <2>1. /\ IsFiniteSet(four \union {10000}) /\ Cardinality(four \union {10000}) = 5
      BY <1>2, FS_AddElement
    <2>2. /\ IsFiniteSet((four \union {10000}) \union {100000})
          /\ Cardinality((four \union {10000}) \union {100000}) = 6
      BY <2>1, FS_AddElement
    <2> DEFINE six == (four \union {10000}) \union {100000}
    <2>3. IsFiniteSet(six \union {1000000}) /\ Cardinality(six \union {1000000}) = 7
      BY <2>2, FS_AddElement
    <2>4. (six \union {1000000}) \union {10000000} = eight /\ 10000000 \notin six \union {1000000}
      OBVIOUS
    <2> HIDE DEF six, eight
    <2> QED
      BY <2>3, <2>4, FS_AddElement
  <1>4. IsFiniteSet(Powers) /\ Cardinality(Powers) = 9
    <2>1. eight \union {100000000} = Powers /\ 100000000 \notin eight
      BY DEF Powers
    <2> HIDE DEF eight
    <2> QED
      BY <1>3, <2>1, FS_AddElement
  <1>5. Digits(n) \in 0..9
    <2>1. /\ IsFiniteSet(below) /\ Cardinality(below) <= Cardinality(Powers)
      BY <1>4, FS_Subset
    <2>2. Cardinality(below) \in Nat
      BY <2>1, FS_CardinalityType
    <2> QED
      BY <1>4, <2>1, <2>2 DEF Digits
  <1>6. ASSUME n \in 10..99 PROVE Digits(n) = 2
    <2>1. below = {1, 10}
      BY <1>6 DEF Powers
    <2> QED
      BY <1>1, <2>1 DEF Digits
  <1> QED
    BY <1>5, <1>6

\* A note is from 22 to 31 characters long, so that a note for a note is of 24.
LEMMA NotesAre ==
    ASSUME NEW n \in Nat
    PROVE  Note(n) \in 22..31 /\ Note(Note(n)) = 24
  <1>1. Note(n) \in 22..31
    BY DigitsAre DEF Note
  <1>2. Note(n) \in Nat /\ Note(n) \in 10..99
    BY <1>1
  <1>3. Digits(Note(n)) = 2
    BY <1>2, DigitsAre
  <1> QED
    BY <1>1, <1>3 DEF Note

\* A tool result stays one, and its third shortening is its second.
LEMMA TruncatedIs ==
    ASSUME NEW m \in Memories, NEW limit \in Nat
    PROVE  /\ Truncated(m, limit) \in Memories
           /\ Truncated(m, limit).kind = m.kind
           /\ LET again == Truncated(Truncated(m, limit), limit)
              IN  Truncated(again, limit) = again
  <1>1. CASE limit > 0 /\ m.kind = "result" /\ m.size > limit
    <2>1. PICK n \in Nat : n = m.size - limit
      BY <1>1 DEF Memories
    <2>2. PICK k \in 22..31 : k = Note(n) /\ Note(k) = 24
      BY NotesAre
    <2>3. Note(24) = 24
      <3>1. Digits(24) = 2
        BY DigitsAre
      <3> QED
        BY <3>1 DEF Note
    <2>4. PICK a \in Memories : a = [kind |-> "result", size |-> limit + k]
      <3>1. limit + k \in Nat
        OBVIOUS
      <3> QED
        BY <3>1 DEF Memories
    <2>5. PICK b \in Memories : b = [kind |-> "result", size |-> limit + 24]
      <3>1. limit + 24 \in Nat
        OBVIOUS
      <3> QED
        BY <3>1 DEF Memories
    <2>6. Truncated(m, limit) = a
      <3>1. Truncated(m, limit) = [m EXCEPT !.size = limit + k]
        BY <1>1, <2>1, <2>2 DEF Truncated
      <3>2. [m EXCEPT !.size = limit + k] = a
        BY <1>1, <2>4 DEF Memories
      <3> QED
        BY <3>1, <3>2
    <2>7. a.size > limit /\ a.size - limit = k /\ a.kind = "result"
      BY <2>4
    <2>8. Truncated(a, limit) = b
      <3>1. Truncated(a, limit) = [a EXCEPT !.size = limit + 24]
        BY <1>1, <2>2, <2>7 DEF Truncated
      <3>2. [a EXCEPT !.size = limit + 24] = b
        BY <2>4, <2>5
      <3> QED
        BY <3>1, <3>2
    <2>9. b.size > limit /\ b.size - limit = 24 /\ b.kind = "result"
      BY <2>5
    <2>10. Truncated(b, limit) = b
      <3>1. Truncated(b, limit) = [b EXCEPT !.size = limit + 24]
        BY <1>1, <2>3, <2>9 DEF Truncated
      <3>2. [b EXCEPT !.size = limit + 24] = b
        BY <2>5
      <3> QED
        BY <3>1, <3>2
    <2> QED
      BY <1>1, <2>6, <2>7, <2>8, <2>10
  <1>2. CASE ~(limit > 0 /\ m.kind = "result" /\ m.size > limit)
    <2>1. Truncated(m, limit) = m
      BY <1>2 DEF Truncated
    <2> QED
      BY <2>1
  <1> QED
    BY <1>1, <1>2

LEMMA ShortIs ==
    ASSUME NEW ms \in Seq(Memories), NEW limit \in Nat
    PROVE  /\ Short(ms, limit) \in Seq(Memories) /\ Len(Short(ms, limit)) = Len(ms)
           /\ DOMAIN Short(ms, limit) = DOMAIN ms
           /\ Starts(Short(ms, limit)) = Starts(ms)
           /\ LET again == Short(Short(ms, limit), limit)
              IN  Short(again, limit) = again
           /\ ms # << >> => Short(ms, limit) # << >>
  <1> DEFINE s == Short(ms, limit)
  <1>1. /\ s = [i \in DOMAIN ms |-> Truncated(ms[i], limit)]
        /\ DOMAIN ms = 1..Len(ms) /\ Len(ms) \in Nat
        /\ \A i \in DOMAIN ms : ms[i] \in Memories
    BY DEF Short
  <1> HIDE DEF s
  <1>2. \A i \in DOMAIN ms : s[i] \in Memories /\ s[i].kind = ms[i].kind
    BY <1>1, TruncatedIs
  <1>3. s \in Seq(Memories) /\ Len(s) = Len(ms) /\ DOMAIN s = DOMAIN ms
    BY <1>1, <1>2
  <1>4. Starts(s) = Starts(ms)
    BY <1>2, <1>3 DEF Starts
  <1>5. Short(Short(Short(ms, limit), limit), limit) = Short(Short(ms, limit), limit)
    <2> DEFINE q == Short(s, limit)
    <2>1. q = [i \in DOMAIN ms |-> Truncated(Truncated(ms[i], limit), limit)]
      BY <1>1, <1>3 DEF Short
    <2> HIDE DEF q
    <2>2. Short(q, limit) = [i \in DOMAIN ms |-> Truncated(q[i], limit)]
      BY <2>1 DEF Short
    <2>3. \A i \in DOMAIN ms : Truncated(q[i], limit) = q[i]
      BY <1>1, <2>1, TruncatedIs
    <2>4. q = [i \in DOMAIN ms |-> q[i]]
      BY <2>1
    <2>5. Short(q, limit) = q
      BY <2>2, <2>3, <2>4
    <2> QED
      BY <2>5 DEF q, s
  <1>6. ms # << >> => s # << >>
    BY <1>1, <1>3
  <1> QED
    BY <1>3, <1>4, <1>5, <1>6 DEF s

LEMMA ShortFrom ==
    ASSUME NEW ms \in Seq(Memories), NEW limit \in Nat, NEW i \in DOMAIN ms
    PROVE  Short(From(ms, i), limit) = From(Short(ms, limit), i)
  <1> DEFINE r == From(ms, i)
             s == Short(ms, limit)
             a == Short(r, limit)
             b == From(s, i)
  <1>1. /\ r \in Seq(Memories) /\ Len(r) = Len(ms) - i + 1
        /\ \A k \in 1..Len(ms) - i + 1 : r[k] = ms[i + k - 1]
    BY FromIs
  <1>2. /\ s \in Seq(Memories) /\ Len(s) = Len(ms) /\ DOMAIN s = DOMAIN ms
        /\ \A k \in DOMAIN ms : s[k] = Truncated(ms[k], limit)
    BY ShortIs DEF Short
  <1>3. /\ b \in Seq(Memories) /\ Len(b) = Len(ms) - i + 1
        /\ \A k \in 1..Len(ms) - i + 1 : b[k] = s[i + k - 1]
    <2> HIDE DEF s
    <2>1. i \in DOMAIN s
      BY <1>2
    <2>2. /\ b \in Seq(Memories) /\ Len(b) = Len(s) - i + 1
          /\ \A k \in 1..Len(s) - i + 1 : b[k] = s[i + k - 1]
      BY <1>2, <2>1, FromIs
    <2> QED
      BY <1>2, <2>2
  <1>4. /\ a \in Seq(Memories) /\ Len(a) = Len(ms) - i + 1
        /\ \A k \in DOMAIN r : a[k] = Truncated(r[k], limit)
    BY <1>1, ShortIs DEF Short
  <1>5. i \in 1..Len(ms) /\ Len(ms) \in Nat /\ DOMAIN ms = 1..Len(ms)
    OBVIOUS
  <1> HIDE DEF r, s, a, b
  <1>6. ASSUME NEW k \in 1..Len(ms) - i + 1 PROVE a[k] = b[k]
    <2>1. i + k - 1 \in DOMAIN ms
      BY <1>5
    <2>2. k \in DOMAIN r
      BY <1>1
    <2> QED
      BY <1>1, <1>2, <1>3, <1>4, <2>1, <2>2
  <1>7. a = b
    <2>1. a \in Seq(Memories) /\ b \in Seq(Memories) /\ Len(a) = Len(b)
          /\ \A k \in 1..Len(a) : a[k] = b[k]
      BY <1>3, <1>4, <1>6
    <2> QED
      BY <2>1, SeqEqual
  <1> QED
    BY <1>7 DEF a, b, r, s

\* The last turns, by the limit, begin with a turn, and everything before
\* would be too many.
LEMMA LastTurnsFrom ==
    ASSUME NEW ms \in Seq(Memories), ms # << >>, NEW limit \in Nat
    PROVE  \E i \in Starts(ms) :
              /\ LastTurns(ms, limit) = From(ms, i)
              /\ limit > 0 => Cardinality(Later(ms, i)) <= limit
              /\ \A j \in Starts(ms) : j < i => limit > 0 /\ Cardinality(Later(ms, j)) > limit
  <1>1. /\ Starts(ms) \in SUBSET (1..Len(ms)) /\ Len(ms) \in Nat
        /\ IsFiniteSet(Starts(ms)) /\ Cardinality(Starts(ms)) \in Nat
        /\ 1 \in Starts(ms) /\ \A i \in Starts(ms) : i \in Nat /\ 1 <= i
        /\ From(ms, 1) = ms
    BY StartsAre
  <1>2. \A i \in Starts(ms) : IsFiniteSet(Later(ms, i)) /\ Cardinality(Later(ms, i)) \in Nat
    BY <1>1, FS_Subset, FS_CardinalityType DEF Later
  <1>3. CASE limit > 0 /\ Cardinality(Starts(ms)) > limit
    <2> DEFINE i == CHOOSE i \in Starts(ms) : Cardinality({j \in Starts(ms) : j >= i}) = limit
    <2>1. \E k \in Starts(ms) : Cardinality({j \in Starts(ms) : j >= k}) = limit
      <3> DEFINE S == Starts(ms)
                 n == Len(ms)
      <3>1. /\ limit \in Nat \ {0} /\ Cardinality(S) >= limit
            /\ S \in SUBSET (1..n) /\ n \in Nat
        BY <1>1, <1>3
      <3> HIDE DEF i, S, n
      <3>2. \E k \in S : Cardinality({j \in S : j >= k}) = limit
        BY <3>1, FromTheEnd
      <3> QED
        BY <3>2 DEF S
    <2>2. i \in Starts(ms) /\ Cardinality(Later(ms, i)) = limit
      BY <2>1 DEF Later
    <2>3. LastTurns(ms, limit) = From(ms, i)
      BY <1>3 DEF LastTurns
    <2> HIDE DEF i
    <2>4. ASSUME NEW j \in Starts(ms), j < i PROVE Cardinality(Later(ms, j)) > limit
      <3> DEFINE U == Later(ms, i) \union {j}
      <3>1. j \notin Later(ms, i) /\ U \in SUBSET Later(ms, j)
        BY <1>1, <2>2, <2>4 DEF Later
      <3>2. IsFiniteSet(U) /\ Cardinality(U) = limit + 1
        BY <1>2, <2>2, <3>1, FS_AddElement
      <3>3. Cardinality(U) <= Cardinality(Later(ms, j))
        BY <1>2, <3>1, FS_Subset
      <3>4. Cardinality(Later(ms, j)) \in Nat
        BY <1>2
      <3> HIDE DEF U
      <3> QED
        BY <3>2, <3>3, <3>4
    <2> QED
      BY <1>3, <2>2, <2>3, <2>4
  <1>4. CASE ~(limit > 0 /\ Cardinality(Starts(ms)) > limit)
    <2>1. LastTurns(ms, limit) = From(ms, 1)
      BY <1>1, <1>4 DEF LastTurns
    <2>2. Later(ms, 1) = Starts(ms)
      BY <1>1 DEF Later
    <2>3. limit > 0 => Cardinality(Later(ms, 1)) <= limit
      BY <1>1, <1>4, <2>2
    <2>4. \A j \in Starts(ms) : ~(j < 1)
      BY <1>1
    <2> QED
      BY <1>1, <2>1, <2>3, <2>4
  <1> QED
    BY <1>3, <1>4

\* What fits begins with a turn, is the last one if it is too much, and
\* everything before would be too much.
LEMMA WithinBudgetFrom ==
    ASSUME NEW ms \in Seq(Memories), ms # << >>, NEW limit \in Nat
    PROVE  \E i \in Starts(ms) :
              /\ WithinBudget(ms, limit) = From(ms, i)
              /\ \/ limit > 0 => Chars(From(ms, i)) <= limit
                 \/ \A j \in Starts(ms) : j <= i
              /\ \A j \in Starts(ms) : j < i => limit > 0 /\ ~(Chars(From(ms, j)) <= limit)
  <1>1. /\ Starts(ms) \in SUBSET (1..Len(ms)) /\ Len(ms) \in Nat
        /\ 1 \in Starts(ms) /\ \A i \in Starts(ms) : i \in Nat /\ 1 <= i
        /\ From(ms, 1) = ms
    BY StartsAre
  <1>2. CASE limit = 0
    <2>1. WithinBudget(ms, limit) = From(ms, 1)
      BY <1>1, <1>2 DEF WithinBudget
    <2>2. \A j \in Starts(ms) : ~(j < 1)
      BY <1>1
    <2> QED
      BY <1>1, <1>2, <2>1, <2>2
  <1>3. CASE limit # 0
    <2> DEFINE fits == {i \in Starts(ms) : \/ Chars(From(ms, i)) <= limit
                                           \/ \A j \in Starts(ms) : j <= i}
               i == CHOOSE i \in fits : \A j \in fits : i <= j
    <2>1. fits # {}
      <3>1. Starts(ms) # {}
        BY <1>1
      <3>2. PICK m \in Starts(ms) : \A k \in Starts(ms) : k <= m
        BY <1>1, <3>1, GreatestNumber
      <3> QED
        BY <3>2
    <2>2. \E k \in fits : \A j \in fits : k <= j
      <3>1. fits \in SUBSET Nat
        BY <1>1
      <3> HIDE DEF fits
      <3> QED
        BY <2>1, <3>1, LeastNumber
    <2>3. i \in fits /\ \A j \in fits : i <= j
      <3> HIDE DEF fits
      <3> QED
        BY <2>2
    <2>4. WithinBudget(ms, limit) = From(ms, i)
      BY <1>3 DEF WithinBudget
    <2> HIDE DEF i
    <2>5. ASSUME NEW j \in Starts(ms), j < i PROVE ~(Chars(From(ms, j)) <= limit)
      <3>1. j \in Nat /\ i \in Nat /\ ~(i <= j)
        BY <1>1, <2>3, <2>5
      <3> QED
        BY <2>3, <3>1
    <2>6. limit > 0
      BY <1>3
    <2> QED
      BY <2>3, <2>4, <2>5, <2>6
  <1> QED
    BY <1>2, <1>3

\* What lies within both limits is left as it is.
LEMMA WithinStays ==
    ASSUME NEW ms \in Seq(Memories), NEW limit \in Nat,
           limit > 0 => Chars(ms) <= limit \/ \A j \in Starts(ms) : j <= 1
    PROVE  WithinBudget(ms, limit) = ms
  <1>1. CASE limit = 0 \/ ms = << >>
    BY <1>1 DEF WithinBudget
  <1>2. CASE ~(limit = 0 \/ ms = << >>)
    <2> DEFINE fits == {i \in Starts(ms) : \/ Chars(From(ms, i)) <= limit
                                           \/ \A j \in Starts(ms) : j <= i}
    <2>1. /\ 1 \in Starts(ms) /\ \A i \in Starts(ms) : i \in Nat /\ 1 <= i
          /\ From(ms, 1) = ms
      BY <1>2, StartsAre
    <2>2. limit > 0
      BY <1>2
    <2>3. 1 \in fits /\ \A i \in fits : i \in Nat /\ 1 <= i
      BY <2>1, <2>2
    <2> HIDE DEF fits
    <2>4. \A i \in fits : (\A j \in fits : i <= j) => i = 1
      <3> SUFFICES ASSUME NEW i \in fits, \A j \in fits : i <= j PROVE i = 1
        OBVIOUS
      <3>1. i \in Nat /\ 1 <= i /\ i <= 1
        BY <2>3
      <3> QED
        BY <3>1
    <2>5. (CHOOSE i \in fits : \A j \in fits : i <= j) = 1
      BY <2>3, <2>4
    <2>6. WithinBudget(ms, limit)
            = From(ms, CHOOSE i \in fits : \A j \in fits : i <= j)
      BY <1>2 DEF WithinBudget, fits
    <2> QED
      BY <2>1, <2>5, <2>6
  <1> QED
    BY <1>1, <1>2

\* What s keeps from its turn k on fits or is the last turn, and more of it
\* would not fit.
FirstThatFits(k, s, maxTurns, maxChars) ==
    /\ k \in Starts(s)
    /\ maxTurns > 0 => Cardinality(Later(s, k)) <= maxTurns
    /\ \/ maxChars > 0 => Chars(From(s, k)) <= maxChars
       \/ Later(s, k) = {k}
    /\ \A j \in Starts(s) : j < k =>
          \/ maxTurns > 0 /\ Cardinality(Later(s, j)) > maxTurns
          \/ maxChars > 0 /\ ~(Chars(From(s, j)) <= maxChars)

\* Both limits together: what is kept begins with a turn of the conversation.
LEMMA TrimmedFrom ==
    ASSUME NEW ms \in Seq(Memories), ms # << >>,
           NEW maxTurns \in Nat, NEW maxResult \in Nat, NEW maxChars \in Nat,
           maxTurns > 0 \/ maxChars > 0
    PROVE  \E k \in Starts(ms) :
              /\ Trimmed(ms, maxTurns, maxResult, maxChars) = From(Short(ms, maxResult), k)
              /\ FirstThatFits(k, Short(ms, maxResult), maxTurns, maxChars)
  <1>1. PICK s \in Seq(Memories) : /\ s = Short(ms, maxResult) /\ s # << >>
                                   /\ Starts(s) = Starts(ms) /\ DOMAIN s = DOMAIN ms
    BY ShortIs
  <1>2. \A j \in Starts(ms) : j \in Int /\ j \in DOMAIN ms /\ 1 <= j
    BY StartsAre
  <1>3. PICK i \in Starts(ms) :
           /\ LastTurns(ms, maxTurns) = From(ms, i)
           /\ maxTurns > 0 => Cardinality(Later(ms, i)) <= maxTurns
           /\ \A j \in Starts(ms) : j < i => maxTurns > 0 /\ Cardinality(Later(ms, j)) > maxTurns
    BY LastTurnsFrom
  <1>4. i \in Int /\ i \in DOMAIN s /\ i \in Starts(s)
    BY <1>1, <1>2
  <1>5. PICK q \in Seq(Memories) : q = From(s, i) /\ q # << >> /\ q = Short(From(ms, i), maxResult)
    BY <1>1, <1>2, <1>4, FromIs, ShortFrom
  <1>6. Trimmed(ms, maxTurns, maxResult, maxChars) = WithinBudget(q, maxChars)
    BY <1>3, <1>5 DEF Trimmed, Short
  <1>7. PICK h \in Starts(q) :
           /\ WithinBudget(q, maxChars) = From(q, h)
           /\ \/ maxChars > 0 => Chars(From(q, h)) <= maxChars
              \/ \A j \in Starts(q) : j <= h
           /\ \A j \in Starts(q) : j < h => maxChars > 0 /\ ~(Chars(From(q, j)) <= maxChars)
    BY <1>5, WithinBudgetFrom
  <1>8. Starts(q) = {j - i + 1 : j \in Later(ms, i)}
    <2>1. Later(s, i) = Later(ms, i)
      BY <1>1 DEF Later
    <2> QED
      BY <1>4, <1>5, <2>1, StartsFrom
  <1>9. PICK k \in Later(ms, i) : h = k - i + 1
    BY <1>8
  <1>10. k \in Starts(ms) /\ k \in Int /\ k >= i
    BY <1>2 DEF Later
  <1>11. ASSUME NEW j \in Later(ms, i)
         PROVE  j - i + 1 \in Starts(q) /\ From(q, j - i + 1) = From(s, j)
    <2>1. j - i + 1 \in Starts(q) /\ j \in Int
      BY <1>2, <1>8 DEF Later
    <2>2. PICK g \in Int : g = j - i + 1 /\ g \in DOMAIN q /\ i + g - 1 = j
      BY <1>4, <2>1, StartsAre
    <2>3. From(From(s, i), g) = From(s, i + g - 1)
      BY <1>4, <1>5, <2>2, FromFrom
    <2> QED
      BY <1>5, <2>1, <2>2, <2>3
  <1>12. From(q, h) = From(s, k)
    BY <1>9, <1>11
  <1>13. Trimmed(ms, maxTurns, maxResult, maxChars) = From(s, k)
    BY <1>6, <1>7, <1>12
  <1>14. maxTurns > 0 => Cardinality(Later(ms, k)) <= maxTurns
    <2> SUFFICES ASSUME maxTurns > 0 PROVE Cardinality(Later(ms, k)) <= maxTurns
      OBVIOUS
    <2>1. Later(ms, k) \in SUBSET Later(ms, i)
      <3>1. ASSUME NEW j \in Starts(ms), j >= k PROVE j >= i
        BY <1>2, <1>4, <1>10, <3>1
      <3> QED
        BY <3>1 DEF Later
    <2>2. IsFiniteSet(Later(ms, i))
      BY StartsAre, FS_Subset DEF Later
    <2>3. Cardinality(Later(ms, k)) <= Cardinality(Later(ms, i)) /\ IsFiniteSet(Later(ms, k))
      BY <2>1, <2>2, FS_Subset
    <2>4. Cardinality(Later(ms, k)) \in Nat /\ Cardinality(Later(ms, i)) \in Nat
      BY <2>2, <2>3, FS_CardinalityType
    <2>5. Cardinality(Later(ms, i)) <= maxTurns
      BY <1>3
    <2> QED
      BY <2>3, <2>4, <2>5
  <1>15. \/ maxChars > 0 => Chars(From(s, k)) <= maxChars
         \/ Later(ms, k) = {k}
    <2>1. ASSUME \A j \in Starts(q) : j <= h PROVE Later(ms, k) = {k}
      <3>1. ASSUME NEW j \in Later(ms, k) PROVE j = k
        <4>1. j \in Int /\ j >= k /\ j \in Later(ms, i)
          BY <1>2, <1>4, <1>10 DEF Later
        <4>2. j - i + 1 <= k - i + 1
          BY <1>9, <1>11, <2>1, <4>1
        <4> QED
          BY <1>4, <1>10, <4>1, <4>2
      <3>2. k \in Later(ms, k)
        BY <1>10 DEF Later
      <3> QED
        BY <3>1, <3>2
    <2> QED
      BY <1>7, <1>12, <2>1
  <1>16. ASSUME NEW j \in Starts(ms), j < k
         PROVE  \/ maxTurns > 0 /\ Cardinality(Later(ms, j)) > maxTurns
                \/ maxChars > 0 /\ ~(Chars(From(s, j)) <= maxChars)
    <2>1. CASE j < i
      BY <1>3, <2>1
    <2>2. CASE ~(j < i)
      <3>1. j \in Int /\ j \in Later(ms, i)
        BY <1>2, <1>4, <2>2 DEF Later
      <3>2. j - i + 1 < h
        BY <1>4, <1>9, <1>10, <1>16, <3>1
      <3> QED
        BY <1>7, <1>11, <3>1, <3>2
    <2> QED
      BY <2>1, <2>2
  <1>17. FirstThatFits(k, s, maxTurns, maxChars)
    <2>1. \A j \in Starts(ms) : Later(s, j) = Later(ms, j)
      BY <1>1 DEF Later
    <2> QED
      BY <1>1, <1>10, <1>14, <1>15, <1>16, <2>1 DEF FirstThatFits
  <1> QED
    BY <1>1, <1>10, <1>13, <1>17

\* Trimmed twice, a conversation stays as it is.
Settled(r, maxTurns, maxResult, maxChars) ==
    LET again == Trimmed(r, maxTurns, maxResult, maxChars)
    IN  Trimmed(again, maxTurns, maxResult, maxChars) = again

\* What trimming returns of ms is a conversation, of results once shortened,
\* and is returned as it is if they cannot be shortened any more.
IsTrimmed(r, ms, maxTurns, maxResult, maxChars) ==
    /\ r \in Seq(Memories) /\ r # << >>
    /\ \E k \in DOMAIN ms : r = From(Short(ms, maxResult), k)
    /\ Short(r, maxResult) = r => Trimmed(r, maxTurns, maxResult, maxChars) = r

LEMMA TrimmedOnce ==
    ASSUME NEW ms \in Seq(Memories), ms # << >>,
           NEW maxTurns \in Nat, NEW maxResult \in Nat, NEW maxChars \in Nat,
           maxTurns > 0 \/ maxChars > 0
    PROVE  IsTrimmed(Trimmed(ms, maxTurns, maxResult, maxChars),
                     ms, maxTurns, maxResult, maxChars)
  <1>1. PICK s \in Seq(Memories) : /\ s = Short(ms, maxResult) /\ s # << >>
                                   /\ Starts(s) = Starts(ms) /\ DOMAIN s = DOMAIN ms
    BY ShortIs
  <1>2. PICK k \in Starts(ms) : /\ Trimmed(ms, maxTurns, maxResult, maxChars) = From(s, k)
                                /\ FirstThatFits(k, s, maxTurns, maxChars)
    BY <1>1, TrimmedFrom
  <1>3. k \in Int /\ k \in DOMAIN ms /\ k \in DOMAIN s /\ k \in Starts(s)
    BY <1>1, StartsAre
  <1>4. PICK r \in Seq(Memories) : r = From(s, k) /\ r # << >>
    BY <1>3, FromIs
  <1>5. /\ Starts(r) = {j - k + 1 : j \in Later(s, k)}
        /\ Cardinality(Starts(r)) = Cardinality(Later(s, k))
    BY <1>3, <1>4, StartsFrom
  <1>6. LastTurns(r, maxTurns) = r
    <2>1. maxTurns > 0 => Cardinality(Starts(r)) <= maxTurns
      BY <1>2, <1>5 DEF FirstThatFits
    <2>2. Cardinality(Starts(r)) \in Nat
      BY <1>4, StartsAre
    <2>3. ~(maxTurns > 0 /\ Cardinality(Starts(r)) > maxTurns)
      BY <2>1, <2>2
    <2> QED
      BY <2>3 DEF LastTurns
  <1>7. WithinBudget(r, maxChars) = r
    <2>1. Later(s, k) = {k} => Starts(r) = {1}
      BY <1>3, <1>5
    <2>2. maxChars > 0 => Chars(r) <= maxChars \/ \A j \in Starts(r) : j <= 1
      BY <1>2, <1>4, <2>1 DEF FirstThatFits
    <2> QED
      BY <1>4, <2>2, WithinStays
  <1>8. ASSUME Short(r, maxResult) = r PROVE Trimmed(r, maxTurns, maxResult, maxChars) = r
    <2>1. ~(maxTurns = 0 /\ maxChars = 0)
      OBVIOUS
    <2> QED
      BY <1>6, <1>7, <1>8, <2>1 DEF Trimmed, Short
  <1> QED
    BY <1>1, <1>2, <1>3, <1>4, <1>8 DEF IsTrimmed

LEMMA TrimmingSettles ==
    ASSUME NEW ms \in Seq(Memories), ms # << >>,
           NEW maxTurns \in Nat, NEW maxResult \in Nat, NEW maxChars \in Nat,
           maxTurns > 0 \/ maxChars > 0
    PROVE  Settled(Trimmed(ms, maxTurns, maxResult, maxChars), maxTurns, maxResult, maxChars)
  <1> DEFINE r == Trimmed(ms, maxTurns, maxResult, maxChars)
             q == Trimmed(r, maxTurns, maxResult, maxChars)
  <1>1. IsTrimmed(r, ms, maxTurns, maxResult, maxChars)
    BY TrimmedOnce
  <1> HIDE DEF r
  <1>2. r \in Seq(Memories) /\ r # << >>
    BY <1>1 DEF IsTrimmed
  <1>3. PICK k \in DOMAIN ms : r = From(Short(ms, maxResult), k)
    BY <1>1 DEF IsTrimmed
  <1>4. IsTrimmed(q, r, maxTurns, maxResult, maxChars)
    BY <1>2, TrimmedOnce
  <1> HIDE DEF q
  <1>5. PICK h \in DOMAIN r : q = From(Short(r, maxResult), h)
    BY <1>4 DEF IsTrimmed
  <1>6. PICK a \in Seq(Memories) : a = Short(ms, maxResult) /\ DOMAIN a = DOMAIN ms
    BY ShortIs
  <1>7. PICK b \in Seq(Memories) : b = Short(a, maxResult) /\ DOMAIN b = DOMAIN a
    BY ShortIs
  <1>8. Short(b, maxResult) = b
    BY <1>6, <1>7, ShortIs
  <1>9. Short(r, maxResult) = From(b, k)
    BY <1>3, <1>6, <1>7, ShortFrom
  <1>10. PICK c \in Seq(Memories) : c = Short(r, maxResult) /\ DOMAIN c = DOMAIN r
    BY <1>2, ShortIs
  <1>11. Short(c, maxResult) = c
    BY <1>6, <1>7, <1>8, <1>9, <1>10, ShortFrom
  <1>12. Short(q, maxResult) = q
    BY <1>5, <1>10, <1>11, ShortFrom
  <1> QED
    BY <1>4, <1>12 DEF Settled, IsTrimmed, r, q

\* An empty conversation has no characters.
LEMMA NoChars == Chars(<< >>) = 0
  <1> DEFINE F(g) == [S \in SUBSET DOMAIN << >> |->
                        IF S = {} THEN 0 ELSE g[S \ {Max(S)}] + << >>[Max(S)].size]
             sum == CHOOSE g : g = F(g)
  <1>1. Chars(<< >>) = sum[DOMAIN << >>]
    BY Zenon DEF Chars, FoldLeft, MapThenFoldSet
  <1>2. DOMAIN << >> = {}
    OBVIOUS
  <1>3. \E g : g = F(g)
    <2> DEFINE zero == [S \in SUBSET DOMAIN << >> |-> 0]
    <2>1. F(zero) = zero
      BY <1>2
    <2> QED
      BY <2>1
  <1>4. sum = F(sum)
    <2> HIDE DEF F
    <2> QED
      BY <1>3
  <1> QED
    BY <1>1, <1>2, <1>4

\* Of any conversation, under any limits, trim_messages keeps the newest turns
\* that fit, as many as the limits allow, and the newest one in any case; it
\* keeps no result without its call, and trimmed a second time, the
\* conversation stays as it is.
THEOREM TheNewestAreKept ==
    ASSUME NEW ms \in Seq(Memories),
           NEW maxTurns \in Nat, NEW maxResult \in Nat, NEW maxChars \in Nat
    PROVE  KeepsTheNewestThatFit(ms, Trimmed(ms, maxTurns, maxResult, maxChars),
                                 maxTurns, maxResult, maxChars)
  <1> DEFINE r == Trimmed(ms, maxTurns, maxResult, maxChars)
             off == Len(ms) - Len(r)
             within(c) == /\ maxTurns > 0 => Cardinality(Starts(c)) <= maxTurns
                          /\ maxChars > 0 => Chars(c) <= maxChars
  <1>1. PICK s \in Seq(Memories) :
           /\ s = Short(ms, maxResult) /\ Len(s) = Len(ms) /\ DOMAIN s = DOMAIN ms
           /\ Starts(s) = Starts(ms)
    BY ShortIs
  <1> SUFFICES /\ off \in 0..Len(ms)
               /\ \A i \in DOMAIN r : r[i] \in {ms[i + off], s[i + off]}
               /\ ms # << >> => off + 1 \in Starts(ms)
               /\ within(r) \/ Cardinality(Starts(r)) = 1
               /\ \A i \in Starts(ms) : i <= off => ~within(From(s, i))
               /\ Settled(r, maxTurns, maxResult, maxChars)
    BY <1>1 DEF KeepsTheNewestThatFit, Short, Settled
  <1>2. Len(ms) \in Nat /\ DOMAIN ms = 1..Len(ms) /\ Starts(ms) \subseteq 1..Len(ms)
    BY StartsAre
  <1>3. CASE r = ms /\ within(ms) /\ Settled(r, maxTurns, maxResult, maxChars)
    <2>1. off = 0
      BY <1>2, <1>3
    <2>2. ms # << >> => 1 \in Starts(ms)
      BY StartsAre
    <2>3. \A i \in DOMAIN ms : i + 0 = i
      BY <1>2
    <2>4. \A i \in Starts(ms) : ~(i <= 0)
      BY <1>2
    <2> HIDE DEF r
    <2> QED
      BY <1>2, <1>3, <2>1, <2>2, <2>3, <2>4
  <1>4. CASE maxTurns = 0 /\ maxChars = 0
    <2>1. \A m : Trimmed(m, maxTurns, maxResult, maxChars) = m
      BY <1>4 DEF Trimmed
    <2> QED
      BY <1>3, <1>4, <2>1 DEF Settled
  <1>5. CASE ms = << >> /\ (maxTurns > 0 \/ maxChars > 0)
    <2>1. Starts(ms) = {} /\ Cardinality(Starts(ms)) = 0
      BY <1>5, FS_EmptySet DEF Starts
    <2>2. LastTurns(ms, maxTurns) = ms
      BY <2>1 DEF LastTurns
    <2>3. Short(ms, maxResult) = << >>
      BY <1>5 DEF Short
    <2>4. r = << >>
      BY <1>5, <2>2, <2>3 DEF Trimmed, WithinBudget, Short
    <2>5. within(ms)
      BY <1>5, <2>1, NoChars
    <2>6. Settled(r, maxTurns, maxResult, maxChars)
      BY <1>5, <2>4 DEF Settled
    <2> QED
      BY <1>3, <1>5, <2>4, <2>5, <2>6
  <1>6. CASE ms # << >> /\ (maxTurns > 0 \/ maxChars > 0)
    <2>1. PICK k \in Starts(ms) :
             /\ r = From(s, k)
             /\ maxTurns > 0 => Cardinality(Later(ms, k)) <= maxTurns
             /\ \/ maxChars > 0 => Chars(From(s, k)) <= maxChars
                \/ Later(ms, k) = {k}
             /\ \A j \in Starts(ms) : j < k =>
                   \/ maxTurns > 0 /\ Cardinality(Later(ms, j)) > maxTurns
                   \/ maxChars > 0 /\ ~(Chars(From(s, j)) <= maxChars)
      <3>1. PICK k \in Starts(ms) :
               /\ r = From(Short(ms, maxResult), k)
               /\ FirstThatFits(k, Short(ms, maxResult), maxTurns, maxChars)
        BY <1>6, TrimmedFrom
      <3> HIDE DEF r
      <3>2. r = From(s, k) /\ FirstThatFits(k, s, maxTurns, maxChars)
        BY <1>1, <3>1
      <3>3. \A j \in Starts(ms) : Later(s, j) = Later(ms, j)
        BY <1>1 DEF Later
      <3> QED
        BY <1>1, <3>2, <3>3 DEF FirstThatFits
    <2>2. k \in Int /\ k \in 1..Len(ms) /\ k \in DOMAIN s
      BY <1>1, <1>2
    <2>3. /\ r \in Seq(Memories) /\ Len(r) = Len(ms) - k + 1
          /\ \A x \in 1..Len(ms) - k + 1 : r[x] = s[k + x - 1]
      <3>1. /\ From(s, k) \in Seq(Memories) /\ Len(From(s, k)) = Len(s) - k + 1
            /\ \A x \in 1..Len(s) - k + 1 : From(s, k)[x] = s[k + x - 1]
        BY <2>2, FromIs
      <3> HIDE DEF r
      <3> QED
        BY <1>1, <2>1, <3>1
    <2> HIDE DEF r
    <2>4. off = k - 1 /\ DOMAIN r = 1..Len(ms) - k + 1
      BY <1>2, <2>2, <2>3
    <2>5. \A i \in Starts(ms) : Cardinality(Starts(From(s, i))) = Cardinality(Later(ms, i))
      <3>1. \A i \in Starts(ms) : Later(s, i) = Later(ms, i)
        BY <1>1 DEF Later
      <3> QED
        BY <1>1, <3>1, StartsFrom
    <2>6. ASSUME Later(ms, k) = {k} PROVE Starts(r) = {1}
      <3>1. Starts(From(s, k)) = {j - k + 1 : j \in Later(s, k)} /\ Later(s, k) = {k}
        BY <1>1, <2>6, StartsFrom DEF Later
      <3> QED
        BY <2>1, <2>2, <3>1
    <2>7. off \in 0..Len(ms) /\ off + 1 \in Starts(ms)
      BY <1>2, <2>2, <2>4
    <2>8. \A i \in DOMAIN r : r[i] \in {ms[i + off], s[i + off]}
      <3>1. \A i \in 1..Len(ms) - k + 1 : i + (k - 1) = k + i - 1
        BY <1>2, <2>2
      <3> QED
        BY <2>3, <2>4, <3>1
    <2>9. within(r) \/ Cardinality(Starts(r)) = 1
      <3>1. Later(ms, k) = {k} => Cardinality(Starts(r)) = 1
        BY <2>6, FS_Singleton
      <3> QED
        BY <2>1, <2>5, <3>1
    <2>10. ASSUME NEW i \in Starts(ms), i <= off PROVE ~within(From(s, i))
      <3>1. i < k
        BY <1>2, <2>2, <2>4, <2>10
      <3>2. Cardinality(Later(ms, i)) \in Nat
        <4>1. IsFiniteSet(Later(ms, i))
          BY StartsAre, FS_Subset DEF Later
        <4> QED
          BY <4>1, FS_CardinalityType
      <3>3. CASE maxTurns > 0 /\ Cardinality(Later(ms, i)) > maxTurns
        <4>1. ~(Cardinality(Starts(From(s, i))) <= maxTurns)
          BY <2>5, <3>2, <3>3
        <4> QED
          BY <3>3, <4>1
      <3>4. CASE maxChars > 0 /\ ~(Chars(From(s, i)) <= maxChars)
        BY <3>4
      <3> QED
        BY <2>1, <3>1, <3>3, <3>4
    <2>11. Settled(r, maxTurns, maxResult, maxChars)
      BY <1>6, TrimmingSettles DEF r
    <2> QED
      BY <2>7, <2>8, <2>9, <2>10, <2>11
  <1>7. maxTurns = 0 \/ maxTurns > 0
    OBVIOUS
  <1>8. maxChars = 0 \/ maxChars > 0
    OBVIOUS
  <1> QED
    BY <1>4, <1>5, <1>6, <1>7, <1>8
=============================================================================
