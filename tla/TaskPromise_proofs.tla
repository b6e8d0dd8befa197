------------------------- MODULE TaskPromise_proofs -------------------------
(***************************************************************************)
(* TaskLifecycle implements TaskPromise, step by step, with one event loop *)
(* on a single-writer database and for a trail of any length.              *)
(***************************************************************************)
EXTENDS TaskLifecycle_proofs, SequenceTheorems, FiniteSetTheorems

---------------------------------------------------------------------------
(* The lifecycle entries of a trail.                                       *)

\* Every place of the abstract trail is that of an entry.
Ranked(audit) ==
    \A n \in 1..Cardinality(Kept(audit)) :
       \E i \in Kept(audit) : i >= n /\ Cardinality(Kept(audit) \intersect 1..i) = n

Bares == [event : AuditEvents, actor : People \union {NoOne}]

LEMMA KeptCounts ==
    ASSUME NEW a \in Seq(Entries)
    PROVE  /\ Kept(a) \subseteq 1..Len(a) /\ IsFiniteSet(Kept(a))
           /\ Cardinality(Kept(a)) \in Nat /\ Cardinality(Kept(a)) <= Len(a)
           /\ \A i : /\ Cardinality(Kept(a) \intersect 1..i) \in Nat
                     /\ Cardinality(Kept(a) \intersect 1..i) <= Cardinality(Kept(a))
  <1>1. Kept(a) \subseteq 1..Len(a)
    BY DEF Kept
  <1>2. IsFiniteSet(1..Len(a)) /\ Cardinality(1..Len(a)) = Len(a)
    <2> DEFINE n == Len(a)
    <2>1. n \in Nat
      BY LenProperties
    <2> HIDE DEF n
    <2>2. IsFiniteSet(1..n) /\ Cardinality(1..n) = IF 1 > n THEN 0 ELSE n - 1 + 1
      BY <2>1, FS_Interval
    <2>3. IsFiniteSet(1..n) /\ Cardinality(1..n) = n
      BY <2>1, <2>2
    <2> QED
      BY <2>3 DEF n
  <1>3. IsFiniteSet(Kept(a)) /\ Cardinality(Kept(a)) <= Len(a)
    BY <1>1, <1>2, FS_Subset
  <1>4. ASSUME NEW i
        PROVE  /\ Cardinality(Kept(a) \intersect 1..i) \in Nat
               /\ Cardinality(Kept(a) \intersect 1..i) <= Cardinality(Kept(a))
    <2>1. Kept(a) \intersect 1..i \subseteq Kept(a)
      OBVIOUS
    <2> QED
      BY <1>3, <2>1, FS_Subset, FS_CardinalityType
  <1> QED
    BY <1>1, <1>3, <1>4, FS_CardinalityType

\* An appended entry joins them if it is one, and leaves the others in place.
LEMMA KeptGrows ==
    ASSUME NEW a \in Seq(Entries), NEW e \in Entries
    PROVE  /\ Append(a, e) \in Seq(Entries)
           /\ Len(Append(a, e)) = Len(a) + 1 /\ Len(a) \in Nat
           /\ Append(a, e)[Len(a) + 1] = e
           /\ \A i \in 1..Len(a) : Append(a, e)[i] = a[i]
           /\ Kept(Append(a, e)) = IF e.event \in LifecycleEvents
                                     THEN Kept(a) \union {Len(a) + 1} ELSE Kept(a)
  <1> DEFINE b == Append(a, e)
  <1>1. /\ b \in Seq(Entries) /\ Len(b) = Len(a) + 1 /\ Len(a) \in Nat
        /\ b[Len(a) + 1] = e
        /\ \A i \in 1..Len(a) : b[i] = a[i]
    BY AppendProperties, LenProperties
  <1> HIDE DEF b
  <1>2. 1..Len(b) = (1..Len(a)) \union {Len(a) + 1}
    BY <1>1
  <1>3. Kept(b) = IF e.event \in LifecycleEvents THEN Kept(a) \union {Len(a) + 1} ELSE Kept(a)
    BY <1>1, <1>2 DEF Kept
  <1> QED
    BY <1>1, <1>3 DEF b

LEMMA NthIsKept ==
    ASSUME NEW a \in Seq(Entries), Ranked(a), NEW n \in 1..Cardinality(Kept(a))
    PROVE  Nth(Kept(a), n) \in Kept(a)
  <1>1. \E i \in Kept(a) : i >= n /\ Cardinality(Kept(a) \intersect 1..i) = n
    BY DEF Ranked
  <1> QED
    BY <1>1 DEF Nth

LEMMA TrailType ==
    ASSUME NEW a \in Seq(Entries), Ranked(a)
    PROVE  Trail(a) \in Seq(Bares) /\ Len(Trail(a)) = Cardinality(Kept(a))
  <1>1. Cardinality(Kept(a)) \in Nat
    BY KeptCounts
  <1>2. ASSUME NEW n \in 1..Cardinality(Kept(a)) PROVE Bare(a[Nth(Kept(a), n)]) \in Bares
    <2>1. a[Nth(Kept(a), n)] \in Entries
      BY NthIsKept, ElementOfSeq, KeptCounts
    <2> QED
      BY <2>1 DEF Bare, Bares, Entries
  <1>3. Trail(a) = [n \in 1..Cardinality(Kept(a)) |-> Bare(a[Nth(Kept(a), n)])]
    BY DEF Trail
  <1> QED
    BY <1>1, <1>2, <1>3

\* NOTIFIED leaves the trail as it is, and a lifecycle entry is added to it.
LEMMA TrailGrows ==
    ASSUME NEW a \in Seq(Entries), Ranked(a), NEW e \in Entries
    PROVE  /\ Ranked(Append(a, e))
           /\ Trail(Append(a, e)) = IF e.event \in LifecycleEvents
                                      THEN Append(Trail(a), Bare(e)) ELSE Trail(a)
  <1> DEFINE m == Len(a) + 1
             c == Cardinality(Kept(a))
  <1>1. PICK b \in Seq(Entries) : b = Append(a, e)
    BY KeptGrows
  <1>2. /\ Len(a) \in Nat /\ b[m] = e /\ \A i \in 1..Len(a) : b[i] = a[i]
        /\ Kept(b) = IF e.event \in LifecycleEvents THEN Kept(a) \union {m} ELSE Kept(a)
    BY <1>1, KeptGrows
  <1>3. /\ Kept(a) \subseteq 1..Len(a) /\ IsFiniteSet(Kept(a))
        /\ c \in Nat /\ c <= Len(a)
    BY KeptCounts
  <1>4. CASE e.event \notin LifecycleEvents
    <2>1. Kept(b) = Kept(a)
      BY <1>2, <1>4
    <2>2. \A n \in 1..c : b[Nth(Kept(a), n)] = a[Nth(Kept(a), n)]
      BY <1>2, <1>3, NthIsKept
    <2>3. Trail(b) = Trail(a)
      BY <2>1, <2>2 DEF Trail
    <2> QED
      BY <1>1, <1>4, <2>1, <2>3 DEF Ranked
  <1>5. CASE e.event \in LifecycleEvents
    <2>1. Kept(b) = Kept(a) \union {m} /\ m \notin Kept(a)
      BY <1>2, <1>3, <1>5
    <2>2. Cardinality(Kept(b)) = c + 1
      BY <1>3, <2>1, FS_AddElement
    <2>3. \A i \in Kept(a) : Kept(b) \intersect 1..i = Kept(a) \intersect 1..i
      BY <1>2, <1>3, <2>1
    <2>4. Kept(b) \intersect 1..m = Kept(b)
      BY <1>2, <1>3, <2>1
    <2>5. ASSUME NEW n \in 1..c, NEW i
          PROVE  (i \in Kept(b) /\ i >= n /\ Cardinality(Kept(b) \intersect 1..i) = n)
                   <=> (i \in Kept(a) /\ i >= n /\ Cardinality(Kept(a) \intersect 1..i) = n)
      <3>1. CASE i \in Kept(a)
        BY <2>1, <2>3, <3>1
      <3>2. CASE i = m
        <4>1. Cardinality(Kept(b) \intersect 1..i) = c + 1
          BY <2>2, <2>4, <3>2
        <4>2. c + 1 # n
          BY <1>3
        <4> QED
          BY <2>1, <3>2, <4>1, <4>2
      <3>3. CASE i \notin Kept(b)
        BY <2>1, <3>3
      <3> QED
        BY <2>1, <3>1, <3>2, <3>3
    <2>6. ASSUME NEW i
          PROVE  (i \in Kept(b) /\ i >= c + 1 /\ Cardinality(Kept(b) \intersect 1..i) = c + 1)
                   <=> i = m
      <3>1. CASE i \in Kept(a)
        <4>1. Cardinality(Kept(b) \intersect 1..i) = Cardinality(Kept(a) \intersect 1..i)
          BY <2>3, <3>1
        <4>2. /\ Cardinality(Kept(a) \intersect 1..i) \in Nat
              /\ Cardinality(Kept(a) \intersect 1..i) <= c
          BY KeptCounts
        <4>3. Cardinality(Kept(b) \intersect 1..i) # c + 1
          BY <1>3, <4>1, <4>2
        <4> QED
          BY <2>1, <3>1, <4>3
      <3>2. CASE i \notin Kept(a)
        <4>1. m >= c + 1
          BY <1>2, <1>3
        <4>2. Cardinality(Kept(b) \intersect 1..m) = c + 1
          BY <2>2, <2>4
        <4> QED
          BY <2>1, <3>2, <4>1, <4>2
      <3> QED
        BY <3>1, <3>2
    <2>7. \A n \in 1..c : Nth(Kept(b), n) = Nth(Kept(a), n)
      BY <2>5 DEF Nth
    <2>8. Nth(Kept(b), c + 1) = m
      BY <2>6 DEF Nth
    <2>9. Ranked(b)
      <3> SUFFICES ASSUME NEW n \in 1..(c + 1)
                   PROVE \E i \in Kept(b) : i >= n /\ Cardinality(Kept(b) \intersect 1..i) = n
        BY <2>2 DEF Ranked
      <3>1. CASE n = c + 1
        BY <2>6, <3>1
      <3>2. CASE n # c + 1
        <4>1. n \in 1..c
          BY <1>3, <3>2
        <4> QED
          BY <2>5, <4>1 DEF Ranked
      <3> QED
        BY <3>1, <3>2
    <2>10. Trail(a) \in Seq(Bares) /\ Len(Trail(a)) = c
      BY TrailType
    <2>11. Trail(b) \in Seq(Bares) /\ Len(Trail(b)) = c + 1
      BY <2>2, <2>9, TrailType
    <2>12. Bare(e) \in Bares
      BY DEF Bare, Bares, Entries
    <2>13. /\ Append(Trail(a), Bare(e)) \in Seq(Bares)
           /\ Len(Append(Trail(a), Bare(e))) = c + 1
           /\ \A n \in 1..c : Append(Trail(a), Bare(e))[n] = Trail(a)[n]
           /\ Append(Trail(a), Bare(e))[c + 1] = Bare(e)
      BY <2>10, <2>12, AppendProperties
    <2>14. ASSUME NEW n \in 1..(c + 1) PROVE Trail(b)[n] = Append(Trail(a), Bare(e))[n]
      <3>1. CASE n = c + 1
        <4>1. Trail(b)[n] = Bare(b[m])
          BY <1>3, <2>2, <2>8, <3>1 DEF Trail
        <4> QED
          BY <1>2, <2>13, <3>1, <4>1
      <3>2. CASE n # c + 1
        <4>1. n \in 1..c
          BY <1>3, <3>2
        <4>2. Nth(Kept(a), n) \in 1..Len(a)
          BY <1>3, <4>1, NthIsKept
        <4>3. Trail(b)[n] = Bare(b[Nth(Kept(a), n)])
          BY <2>2, <2>7, <4>1 DEF Trail
        <4>4. Trail(a)[n] = Bare(a[Nth(Kept(a), n)])
          BY <4>1 DEF Trail
        <4> QED
          BY <1>2, <2>13, <4>1, <4>2, <4>3, <4>4
      <3> QED
        BY <3>1, <3>2
    <2>15. Trail(b) = Append(Trail(a), Bare(e))
      BY <2>11, <2>13, <2>14, SeqEqual
    <2> QED
      BY <1>1, <1>5, <2>9, <2>15
  <1> QED
    BY <1>4, <1>5

---------------------------------------------------------------------------
(* What the repository's methods add to the trail.                         *)

\* The abstract trail of n is that of r with the entries added.
Adds(r, n, entries) ==
    /\ n \in Rows /\ Ranked(n.audit) /\ Len(n.audit) > Len(r.audit)
    /\ Trail(n.audit) = Trail(r.audit) \o entries

LEMMA Tuples ==
    ASSUME NEW x \in Bares, NEW y \in Bares, NEW z \in Bares
    PROVE  /\ <<x>> \in Seq(Bares) /\ <<x, y>> \in Seq(Bares)
           /\ <<x>> \o <<y>> = <<x, y>> /\ <<x>> \o <<y, z>> = <<x, y, z>>
           /\ <<x>>[Len(<<x>>)] = x /\ <<x, y>>[Len(<<x, y>>)] = y
           /\ <<x, y, z>>[Len(<<x, y, z>>)] = z
  <1>1. /\ <<x>> \in Seq(Bares) /\ <<x, y>> \in Seq(Bares) /\ <<y>> \in Seq(Bares)
        /\ <<y, z>> \in Seq(Bares) /\ <<x, y, z>> \in Seq(Bares)
    OBVIOUS
  <1>2. Len(<<x>>) = 1 /\ Len(<<x, y>>) = 2 /\ Len(<<x, y, z>>) = 3
    OBVIOUS
  <1>3. <<x>> \o <<y>> = <<x, y>>
    <2>1. PICK s \in Seq(Bares) : s = <<x>> /\ Len(s) = 1 /\ s[1] = x
      BY <1>1
    <2>2. PICK t \in Seq(Bares) : t = <<y>> /\ Len(t) = 1 /\ t[1] = y
      BY <1>1
    <2>3. /\ s \o t \in Seq(Bares) /\ Len(s \o t) = 2
          /\ (s \o t)[1] = x /\ (s \o t)[2] = y
      BY <2>1, <2>2, ConcatProperties
    <2>4. PICK u \in Seq(Bares) : u = <<x, y>> /\ Len(u) = 2 /\ u[1] = x /\ u[2] = y
      BY <1>1
    <2>5. \A i \in 1..2 : u[i] = (s \o t)[i]
      BY <2>3, <2>4
    <2>6. u = s \o t
      BY <2>3, <2>4, <2>5, SeqEqual
    <2> QED
      BY <2>1, <2>2, <2>4, <2>6
  <1>4. <<x>> \o <<y, z>> = <<x, y, z>>
    <2>1. PICK s \in Seq(Bares) : s = <<x>> /\ Len(s) = 1 /\ s[1] = x
      BY <1>1
    <2>2. PICK t \in Seq(Bares) : t = <<y, z>> /\ Len(t) = 2 /\ t[1] = y /\ t[2] = z
      BY <1>1
    <2>3. /\ s \o t \in Seq(Bares) /\ Len(s \o t) = 3
          /\ (s \o t)[1] = x /\ (s \o t)[2] = y /\ (s \o t)[3] = z
      BY <2>1, <2>2, ConcatProperties
    <2>4. PICK u \in Seq(Bares) : /\ u = <<x, y, z>> /\ Len(u) = 3
                                  /\ u[1] = x /\ u[2] = y /\ u[3] = z
      BY <1>1
    <2>5. \A i \in 1..3 : u[i] = (s \o t)[i]
      BY <2>3, <2>4
    <2>6. u = s \o t
      BY <2>3, <2>4, <2>5, SeqEqual
    <2> QED
      BY <2>1, <2>2, <2>4, <2>6
  <1> QED
    BY <1>1, <1>2, <1>3, <1>4

LEMMA AddsTwice ==
    ASSUME NEW r \in Rows, Ranked(r.audit), NEW m, NEW n, NEW x \in Seq(Bares),
           NEW y \in Seq(Bares), Adds(r, m, x), Adds(m, n, y)
    PROVE  Adds(r, n, x \o y)
  <1>1. Trail(r.audit) \in Seq(Bares)
    BY TrailType DEF Rows
  <1>2. (Trail(r.audit) \o x) \o y = Trail(r.audit) \o (x \o y)
    BY <1>1, ConcatAssociative
  <1>3. Len(r.audit) \in Nat /\ Len(m.audit) \in Nat /\ Len(n.audit) \in Nat
    BY LenProperties DEF Adds, Rows
  <1>4. Len(n.audit) > Len(r.audit)
    BY <1>3 DEF Adds
  <1> QED
    BY <1>2, <1>4 DEF Adds

\* _transition adds its entry.
LEMMA StepAdds ==
    ASSUME NEW r \in Rows, Ranked(r.audit), NEW target \in Statuses,
           NEW ev \in LifecycleEvents, NEW who \in People, NEW d \in Notes \union {NoNotes}
    PROVE  /\ Adds(r, Step(r, target, Entry(ev, who, d)), <<Promise!By(ev, who)>>)
           /\ Step(r, target, Entry(ev, who, d)).status = target
  <1>1. PICK e \in Entries : e = Entry(ev, who, d)
    BY EntryType DEF AuditEvents
  <1>2. Bare(e) = Promise!By(ev, who) /\ e.event = ev /\ Bare(e) \in Bares
    BY <1>1 DEF Bare, Entry, Promise!By, Bares, AuditEvents
  <1>3. r.audit \in Seq(Entries)
    BY DEF Rows
  <1>4. PICK n \in Rows : n = Step(r, target, e)
    BY StepType
  <1>5. n.audit = Append(r.audit, e) /\ n.status = target
    BY <1>4 DEF Step, Rows
  <1>6. Ranked(n.audit) /\ Trail(n.audit) = Append(Trail(r.audit), Bare(e))
    BY <1>2, <1>3, <1>5, TrailGrows
  <1>7. Len(n.audit) > Len(r.audit)
    BY <1>3, <1>5, KeptGrows
  <1>8. Append(Trail(r.audit), Bare(e)) = Trail(r.audit) \o <<Bare(e)>>
    BY <1>2, <1>3, TrailType, AppendIsConcat
  <1>9. Adds(r, n, <<Promise!By(ev, who)>>)
    BY <1>2, <1>6, <1>7, <1>8 DEF Adds
  <1> QED
    BY <1>1, <1>4, <1>5, <1>9

LEMMA ByType ==
    ASSUME NEW ev \in LifecycleEvents, NEW who \in People
    PROVE  Promise!By(ev, who) \in Bares /\ Promise!By(ev, who).event = ev
  BY DEF Promise!By, Bares, AuditEvents

\* Completing work acknowledges it, if that has not been done.
Begins(r, who, entries) ==
    IF r.status = "ASSIGNED" THEN <<Promise!By("ACKNOWLEDGED", who)>> \o entries ELSE entries

BegunRow(r, who, text) == [ImplicitAcknowledge(r, who) EXCEPT !.notes = text]

LEMMA BegunAdds ==
    ASSUME NEW r \in Rows, Ranked(r.audit), NEW who \in People, NEW text \in Notes,
           NEW b, b = BegunRow(r, who, text)
    PROVE  /\ b \in Rows /\ Ranked(b.audit)
           /\ r.status = "ASSIGNED" => b.status = "IN_PROGRESS"
           /\ r.status # "ASSIGNED" => b.status = r.status
           /\ r.status # "ASSIGNED" => b.audit = r.audit
           /\ \A n, entries : entries \in Seq(Bares) /\ Adds(b, n, entries)
                                 => Adds(r, n, Begins(r, who, entries))
  <1>1. "ACKNOWLEDGED" \in LifecycleEvents /\ "IN_PROGRESS" \in Statuses
    BY DEF LifecycleEvents, Statuses
  <1>2. PICK a \in Rows : a = ImplicitAcknowledge(r, who)
    BY StartType
  <1>3. b \in Rows /\ b.audit = a.audit /\ b.status = a.status
    BY <1>2 DEF BegunRow, Rows
  <1>4. CASE r.status = "ASSIGNED"
    <2>1. a = Step(r, "IN_PROGRESS", Entry("ACKNOWLEDGED", who, NoNotes))
      BY <1>2, <1>4 DEF ImplicitAcknowledge, AssigneeAcknowledge
    <2>2. Adds(r, a, <<Promise!By("ACKNOWLEDGED", who)>>) /\ a.status = "IN_PROGRESS"
      BY <1>1, <2>1, StepAdds
    <2>3. Adds(r, b, <<Promise!By("ACKNOWLEDGED", who)>>)
      BY <1>3, <2>2 DEF Adds
    <2>4. <<Promise!By("ACKNOWLEDGED", who)>> \in Seq(Bares)
      BY <1>1, ByType, Tuples
    <2>5. \A n, entries : entries \in Seq(Bares) /\ Adds(b, n, entries)
             => Adds(r, n, <<Promise!By("ACKNOWLEDGED", who)>> \o entries)
      BY <2>3, <2>4, AddsTwice
    <2>6. Ranked(b.audit)
      BY <2>3 DEF Adds
    <2> QED
      BY <1>3, <1>4, <2>2, <2>5, <2>6 DEF Begins
  <1>5. CASE r.status # "ASSIGNED"
    <2>1. a = r
      BY <1>2, <1>5 DEF ImplicitAcknowledge
    <2>2. \A n, entries : Adds(b, n, entries) => Adds(r, n, entries)
      BY <1>3, <2>1 DEF Adds
    <2> QED
      BY <1>3, <1>5, <2>1, <2>2 DEF Begins
  <1> QED
    BY <1>4, <1>5

\* close hands the work in, from any status that allows it.
LEMMA MarkAdds ==
    ASSUME NEW r \in Rows, Ranked(r.audit), NEW who \in People, NEW text \in Notes,
           NEW n, n = MarkPendingClosure(r, who, text),
           r.status \in {"ASSIGNED", "IN_PROGRESS", "REOPENED", "PENDING_VERIFICATION"}
    PROVE  /\ Adds(r, n, Begins(r, who, <<Promise!By("CLOSURE_REQUESTED", who)>>))
           /\ n.status = "PENDING_VERIFICATION"
  <1>1. PICK b : b = BegunRow(r, who, text)
    OBVIOUS
  <1>2. /\ b \in Rows /\ Ranked(b.audit)
        /\ r.status = "ASSIGNED" => b.status = "IN_PROGRESS"
        /\ r.status # "ASSIGNED" => b.status = r.status
        /\ r.status # "ASSIGNED" => b.audit = r.audit
    BY <1>1, BegunAdds
  <1>3. \A m, entries : entries \in Seq(Bares) /\ Adds(b, m, entries)
                          => Adds(r, m, Begins(r, who, entries))
    BY <1>1, BegunAdds
  <1>4. n = IF CanTransition(b.status, "PENDING_VERIFICATION")
              THEN Step(b, "PENDING_VERIFICATION", Entry("CLOSURE_REQUESTED", who, text)) ELSE b
    BY <1>1 DEF MarkPendingClosure, BegunRow
  <1>5. b.status \in {"IN_PROGRESS", "REOPENED", "PENDING_VERIFICATION"}
    BY <1>2
  <1>6. CanTransition(b.status, "PENDING_VERIFICATION")
    BY <1>5 DEF CanTransition, Edges
  <1>7. /\ "CLOSURE_REQUESTED" \in LifecycleEvents
        /\ "PENDING_VERIFICATION" \in Statuses
    BY DEF LifecycleEvents, Statuses
  <1>8. /\ Adds(b, n, <<Promise!By("CLOSURE_REQUESTED", who)>>)
        /\ n.status = "PENDING_VERIFICATION"
    BY <1>2, <1>4, <1>6, <1>7, StepAdds
  <1>9. <<Promise!By("CLOSURE_REQUESTED", who)>> \in Seq(Bares)
    BY <1>7, ByType, Tuples
  <1> QED
    BY <1>3, <1>8, <1>9

\* From the others it leaves a trail and a status as they were.
LEMMA MarkRefused ==
    ASSUME NEW r \in Rows, Ranked(r.audit), NEW who \in People, NEW text \in Notes,
           NEW n, n = MarkPendingClosure(r, who, text), r.status \in {"CREATED", "VERIFIED"}
    PROVE  n.audit = r.audit /\ n.status = r.status
  <1>1. PICK b : b = BegunRow(r, who, text)
    OBVIOUS
  <1>2. b.status = r.status /\ b.audit = r.audit
    BY <1>1, BegunAdds
  <1>3. ~CanTransition(b.status, "PENDING_VERIFICATION")
    BY <1>2 DEF CanTransition, Edges
  <1> QED
    BY <1>1, <1>2, <1>3 DEF MarkPendingClosure, BegunRow

LEMMA CloseSelfAdds ==
    ASSUME NEW r \in Rows, Ranked(r.audit), NEW who \in People, NEW text \in Notes,
           NEW n, n = CloseAndVerifySelf(r, who, text)
    PROVE  /\ Adds(r, n, Begins(r, who, <<Promise!By("CLOSURE_REQUESTED", who),
                                          Promise!By("VERIFIED", who)>>))
           /\ n.status = "VERIFIED"
  <1> DEFINE asked == Promise!By("CLOSURE_REQUESTED", who)
             ended == Promise!By("VERIFIED", who)
  <1>1. PICK b : b = BegunRow(r, who, text)
    OBVIOUS
  <1>2. /\ b \in Rows /\ Ranked(b.audit)
        /\ \A m, entries : entries \in Seq(Bares) /\ Adds(b, m, entries)
                              => Adds(r, m, Begins(r, who, entries))
    BY <1>1, BegunAdds
  <1>3. PICK c : c = Step(b, "VERIFIED", Entry("CLOSURE_REQUESTED", who, text))
    OBVIOUS
  <1>4. {"CLOSURE_REQUESTED", "VERIFIED"} \subseteq LifecycleEvents /\ "VERIFIED" \in Statuses
    BY DEF LifecycleEvents, Statuses
  <1>5. Adds(b, c, <<asked>>)
    BY <1>2, <1>3, <1>4, StepAdds
  <1>6. n = Step(c, "VERIFIED", Entry("VERIFIED", who, NoNotes))
    BY <1>1, <1>3 DEF CloseAndVerifySelf, BegunRow
  <1>7. Adds(c, n, <<ended>>) /\ n.status = "VERIFIED"
    <2>1. c \in Rows /\ Ranked(c.audit)
      BY <1>5 DEF Adds
    <2> QED
      BY <1>4, <1>6, <2>1, StepAdds
  <1>8. asked \in Bares /\ ended \in Bares
    BY <1>4, ByType
  <1> HIDE DEF asked, ended
  <1>9. /\ <<asked>> \in Seq(Bares) /\ <<ended>> \in Seq(Bares)
        /\ <<asked>> \o <<ended>> = <<asked, ended>> /\ <<asked, ended>> \in Seq(Bares)
    BY <1>8, Tuples
  <1>10. Adds(b, n, <<asked, ended>>)
    BY <1>2, <1>5, <1>7, <1>9, AddsTwice
  <1>11. Adds(r, n, Begins(r, who, <<asked, ended>>))
    BY <1>2, <1>9, <1>10
  <1> QED
    BY <1>7, <1>11 DEF asked, ended

---------------------------------------------------------------------------
(* The simulation.                                                         *)

\* A transaction adds to the trail that the row still has: a worker thread
\* that commits in between adds nothing that the promise tells of.
TrailsFit ==
    /\ Ranked(row.audit)
    /\ \A l \in Loops : txn[l] # Idle => /\ Ranked(txn[l].seen.audit)
                                         /\ Trail(txn[l].seen.audit) = Trail(row.audit)

Promised == Promise!Next \/ UNCHANGED Promise!vars

LEMMA SameStatusAfter == Promise!StatusAfter = StatusAfter
  BY DEF Promise!StatusAfter, StatusAfter, Promise!LifecycleEvents, LifecycleEvents

LEMMA RowStands ==
    ASSUME UNCHANGED row PROVE UNCHANGED Promise!vars
  BY DEF Promise!vars

LEMMA SameTrail ==
    ASSUME row'.creator = row.creator, row'.assignee = row.assignee,
           row'.status = row.status, Trail(row'.audit) = Trail(row.audit)
    PROVE  UNCHANGED Promise!vars
  BY DEF Promise!vars

\* The status is one that a lifecycle entry leaves.
LEMMA StatusReached ==
    ASSUME IInv
    PROVE  row.status \in {"CREATED", "ASSIGNED", "IN_PROGRESS", "PENDING_VERIFICATION",
                           "VERIFIED", "REOPENED"}
  <1>1. PICK e \in LifecycleEvents : row.status = StatusAfter[e]
    BY DEF IInv, AuditExplainsStatus, Explains
  <1> QED
    BY <1>1 DEF StatusAfter, LifecycleEvents

LEMMA TxnStands ==
    ASSUME IInv, TrailsFit, NEW l \in Loops, txn[l] # Idle
    PROVE  \E t \in Transactions :
              /\ txn[l] = t /\ t.seen \in Rows /\ t.actor \in People /\ t.text \in Notes
              /\ t.seen.status = row.status /\ t.seen.creator = row.creator
              /\ t.seen.assignee = row.assignee /\ Ranked(t.seen.audit)
              /\ Trail(t.seen.audit) = Trail(row.audit)
  <1>1. txn[l] \in Transactions
    BY DEF IInv, TypeOK
  <1>2. txn[l].seen \in Rows /\ txn[l].actor \in People /\ txn[l].text \in Notes
    BY <1>1 DEF Transactions
  <1> QED
    BY <1>1, <1>2 DEF IInv, DecisionsAreFresh, TrailsFit

\* The columns that the promise tells of after a commit.
LEMMA CommitColumns ==
    ASSUME IInv, NEW l \in Loops, NEW t \in Transactions, txn[l] = t, t.seen \in Rows,
           NEW n \in Rows, Commit(l, n)
    PROVE  /\ row'.creator = row.creator /\ row'.assignee = row.assignee
           /\ row'.status = IF n.status = t.seen.status THEN row.status ELSE n.status
           /\ row'.audit = IF n.audit = t.seen.audit THEN row.audit ELSE n.audit
  BY FlushedColumns DEF Commit, IInv, TypeOK

\* A commit that adds entries to the trail records them.
LEMMA CommitRecords ==
    ASSUME SingleLoop, IInv, TrailsFit, NEW l \in Loops, NEW t \in Transactions, txn[l] = t,
           t.seen \in Rows, t.seen.status = row.status,
           Trail(t.seen.audit) = Trail(row.audit),
           NEW n, Commit(l, n), NEW entries, Adds(t.seen, n, entries),
           n.status = StatusAfter[entries[Len(entries)].event]
    PROVE  TrailsFit' /\ Promise!Record(entries)
  <1>1. n \in Rows /\ Ranked(n.audit) /\ Trail(n.audit) = Trail(t.seen.audit) \o entries
    BY DEF Adds
  <1>2. n.audit # t.seen.audit
    BY <1>1, LenProperties DEF Adds, Rows
  <1>3. /\ row'.creator = row.creator /\ row'.assignee = row.assignee
        /\ row'.status = n.status /\ row'.audit = n.audit
    BY <1>1, <1>2, CommitColumns
  <1>4. \A k \in Loops : txn'[k] = Idle
    BY DEF SingleLoop, Commit, IInv, TypeOK
  <1>5. TrailsFit'
    BY <1>1, <1>3, <1>4 DEF TrailsFit
  <1>6. Trail(row'.audit) = Trail(row.audit) \o entries
    BY <1>1, <1>3
  <1>7. row'.status = StatusAfter[entries[Len(entries)].event]
    BY <1>3
  <1>8. [creator |-> row'.creator, assignee |-> row'.assignee]
          = [creator |-> row.creator, assignee |-> row.assignee]
    BY <1>3
  <1>9. Promise!Record(entries)
    BY <1>6, <1>7, <1>8, SameStatusAfter DEF Promise!Record
  <1> QED
    BY <1>5, <1>9

\* Every step of the loop is a step of the promise, or none.
LEMMA UseCasePromised ==
    ASSUME SingleLoop, IInv, TrailsFit, NEW l \in Loops, UseCase(l)
    PROVE  TrailsFit' /\ Promised
  <1>1. ASSUME Request(l) PROVE TrailsFit' /\ Promised
    <2>1. PICK op \in Operations, actor \in People, text \in Notes : Read(l, op, actor, text)
      BY <1>1 DEF Request
    <2>2. /\ row' = row
          /\ \A k \in Loops : txn'[k] # Idle => txn'[k].seen = row \/ txn'[k] = txn[k]
      BY <2>1 DEF Read, IInv, TypeOK
    <2> QED
      BY <2>2, RowStands DEF TrailsFit, Promised
  <1>2. ASSUME GiveUp(l) PROVE TrailsFit' /\ Promised
    <2>1. row' = row /\ \A k \in Loops : txn'[k] = Idle \/ txn'[k] = txn[k]
      BY <1>2 DEF GiveUp, IInv, TypeOK
    <2> QED
      BY <2>1, RowStands DEF TrailsFit, Promised
  <1> SUFFICES ASSUME txn[l] # Idle,
                      \/ Acknowledge(l) \/ Resume(l) \/ Close(l)
                      \/ CloseSelf(l) \/ Verify(l) \/ Reopen(l)
               PROVE  TrailsFit' /\ Promised
    BY <1>1, <1>2 DEF UseCase, Acknowledge, Resume, Close, CloseSelf, Verify, Reopen,
       Running, Idle
  <1>3. PICK t \in Transactions :
              /\ txn[l] = t /\ t.seen \in Rows /\ t.actor \in People /\ t.text \in Notes
              /\ t.seen.status = row.status /\ t.seen.creator = row.creator
              /\ t.seen.assignee = row.assignee /\ Ranked(t.seen.audit)
              /\ Trail(t.seen.audit) = Trail(row.audit)
    BY TxnStands
  <1>4. /\ {"ACKNOWLEDGED", "RESUMED", "CLOSURE_REQUESTED", "VERIFIED", "REOPENED"}
              \subseteq LifecycleEvents
        /\ {"IN_PROGRESS", "PENDING_VERIFICATION", "VERIFIED", "REOPENED"} \subseteq Statuses
        /\ StatusAfter["ACKNOWLEDGED"] = "IN_PROGRESS" /\ StatusAfter["RESUMED"] = "IN_PROGRESS"
        /\ StatusAfter["CLOSURE_REQUESTED"] = "PENDING_VERIFICATION"
        /\ StatusAfter["VERIFIED"] = "VERIFIED" /\ StatusAfter["REOPENED"] = "REOPENED"
    BY DEF LifecycleEvents, Statuses, StatusAfter
  <1>5. \A ev \in LifecycleEvents, who \in People :
           <<Promise!By(ev, who)>>[Len(<<Promise!By(ev, who)>>)].event = ev
    BY ByType, Tuples
  <1>6. CASE Acknowledge(l)
    <2>1. PICK n : n = AssigneeAcknowledge(t.seen, t.actor)
      OBVIOUS
    <2>2. Commit(l, n) /\ t.actor = row.assignee /\ row.status = "ASSIGNED"
      BY <1>3, <1>6, <2>1 DEF Acknowledge, IsAssignee
    <2>3. Adds(t.seen, n, <<Promise!By("ACKNOWLEDGED", t.actor)>>) /\ n.status = "IN_PROGRESS"
      BY <1>3, <1>4, <2>1, StepAdds DEF AssigneeAcknowledge
    <2>4. TrailsFit' /\ Promise!Record(<<Promise!By("ACKNOWLEDGED", t.actor)>>)
      <3>1. PICK entries : entries = <<Promise!By("ACKNOWLEDGED", t.actor)>>
        OBVIOUS
      <3>2. entries[Len(entries)].event = "ACKNOWLEDGED"
        BY <1>3, <1>4, <1>5, <3>1
      <3> QED
        BY <1>3, <1>4, <2>2, <2>3, <3>1, <3>2, CommitRecords
    <2>5. Promise!Record(<<Promise!By("ACKNOWLEDGED", row.assignee)>>)
      BY <2>2, <2>4
    <2> QED
      BY <2>2, <2>4, <2>5 DEF Promised, Promise!Next, Promise!Start
  <1>7. CASE Resume(l)
    <2>1. PICK n : n = AssigneeResume(t.seen, t.actor)
      OBVIOUS
    <2>2. Commit(l, n) /\ t.actor = row.assignee /\ row.status = "REOPENED"
      BY <1>3, <1>7, <2>1 DEF Resume, IsAssignee
    <2>3. Adds(t.seen, n, <<Promise!By("RESUMED", t.actor)>>) /\ n.status = "IN_PROGRESS"
      BY <1>3, <1>4, <2>1, StepAdds DEF AssigneeResume
    <2>4. TrailsFit' /\ Promise!Record(<<Promise!By("RESUMED", t.actor)>>)
      <3>1. PICK entries : entries = <<Promise!By("RESUMED", t.actor)>>
        OBVIOUS
      <3>2. entries[Len(entries)].event = "RESUMED"
        BY <1>3, <1>4, <1>5, <3>1
      <3> QED
        BY <1>3, <1>4, <2>2, <2>3, <3>1, <3>2, CommitRecords
    <2>5. Promise!Record(<<Promise!By("RESUMED", row.assignee)>>)
      BY <2>2, <2>4
    <2> QED
      BY <2>2, <2>4, <2>5 DEF Promised, Promise!Next, Promise!Start
  <1>8. CASE Close(l)
    <2>1. PICK n : n = MarkPendingClosure(t.seen, t.actor, t.text)
      OBVIOUS
    <2>2. Commit(l, n) /\ t.actor = row.assignee
      BY <1>3, <1>8, <2>1 DEF Close, IsAssignee
    <2>3. CASE row.status \in {"ASSIGNED", "IN_PROGRESS", "REOPENED", "PENDING_VERIFICATION"}
      <3>1. PICK entries : entries = Begins(t.seen, t.actor, <<Promise!By("CLOSURE_REQUESTED", t.actor)>>)
        OBVIOUS
      <3>2. Adds(t.seen, n, entries) /\ n.status = "PENDING_VERIFICATION"
        BY <1>3, <2>1, <2>3, <3>1, MarkAdds
      <3>3. entries[Len(entries)].event = "CLOSURE_REQUESTED"
        BY <1>3, <1>4, <3>1, ByType, Tuples DEF Begins
      <3>4. TrailsFit' /\ Promise!Record(entries)
        BY <1>3, <1>4, <2>2, <3>2, <3>3, CommitRecords
      <3>5. entries = Promise!Begun(<<Promise!By("CLOSURE_REQUESTED", row.assignee)>>)
        BY <1>3, <2>2, <3>1 DEF Begins, Promise!Begun
      <3>6. Promise!Record(Promise!Begun(<<Promise!By("CLOSURE_REQUESTED", row.assignee)>>))
        BY <3>4, <3>5
      <3>7. Promise!Submit
        BY <2>3, <3>6 DEF Promise!Submit
      <3> QED
        BY <3>4, <3>7 DEF Promised, Promise!Next
    <2>4. CASE row.status \in {"CREATED", "VERIFIED"}
      <3>1. n.audit = t.seen.audit /\ n.status = t.seen.status /\ n \in Rows
        <4>1. n \in Rows
          BY <1>3, <2>1, CloseType
        <4>2. t.seen.status \in {"CREATED", "VERIFIED"}
          BY <1>3, <2>4
        <4>3. t.seen \in Rows /\ Ranked(t.seen.audit) /\ t.actor \in People /\ t.text \in Notes
          BY <1>3
        <4>4. n.audit = t.seen.audit /\ n.status = t.seen.status
          BY <2>1, <4>2, <4>3, MarkRefused
        <4> QED
          BY <4>1, <4>4
      <3>2. /\ row'.creator = row.creator /\ row'.assignee = row.assignee
            /\ row'.status = row.status /\ row'.audit = row.audit
        BY <1>3, <2>2, <3>1, CommitColumns
      <3>3. \A k \in Loops : txn'[k] = Idle
        BY <2>2 DEF SingleLoop, Commit, IInv, TypeOK
      <3> QED
        BY <3>2, <3>3, SameTrail DEF TrailsFit, Promised
    <2> QED
      BY <2>3, <2>4, StatusReached
  <1>9. CASE CloseSelf(l)
    <2>1. PICK n : n = CloseAndVerifySelf(t.seen, t.actor, t.text)
      OBVIOUS
    <2>2. /\ Commit(l, n) /\ t.actor = row.assignee /\ t.actor = row.creator
          /\ row.status \in {"ASSIGNED", "IN_PROGRESS", "REOPENED"}
          /\ row.assignee \in VerifiersFor(row.creator, row.assignee)
      BY <1>3, <1>9, <2>1 DEF CloseSelf, IsAssignee, AutoVerify, VerifierRef
    <2>3. PICK entries : entries = Begins(t.seen, t.actor, <<Promise!By("CLOSURE_REQUESTED", t.actor),
                                                             Promise!By("VERIFIED", t.actor)>>)
      OBVIOUS
    <2>4. Adds(t.seen, n, entries) /\ n.status = "VERIFIED"
      BY <1>3, <2>1, <2>3, CloseSelfAdds
    <2>5. entries[Len(entries)].event = "VERIFIED"
      BY <1>3, <1>4, <2>3, ByType, Tuples DEF Begins
    <2>6. TrailsFit' /\ Promise!Record(entries)
      BY <1>3, <1>4, <2>2, <2>4, <2>5, CommitRecords
    <2>7. entries = Promise!Begun(<<Promise!By("CLOSURE_REQUESTED", row.assignee),
                                    Promise!By("VERIFIED", row.assignee)>>)
      BY <1>3, <2>2, <2>3 DEF Begins, Promise!Begun
    <2>8. Promise!Record(Promise!Begun(<<Promise!By("CLOSURE_REQUESTED", row.assignee),
                                         Promise!By("VERIFIED", row.assignee)>>))
      BY <2>6, <2>7
    <2>9. row.creator \in People /\ row.assignee \in People
      BY DEF IInv, TypeOK, Rows
    <2>10. Promise!Complete
      BY <2>2, <2>8, <2>9 DEF Promise!Complete
    <2> QED
      BY <2>6, <2>10 DEF Promised, Promise!Next
  <1>10. CASE Verify(l) \/ Reopen(l)
    <2>1. /\ t.actor \in VerifiersFor(row.creator, row.assignee)
          /\ row.status = "PENDING_VERIFICATION"
      BY <1>3, <1>10 DEF Verify, Reopen, MayDecide, VerifierRef
    <2>2. row.creator \in People /\ row.assignee \in People
      BY DEF IInv, TypeOK, Rows
    <2>3. ASSUME NEW event \in {"VERIFIED", "REOPENED"},
                 Promise!Record(<<Promise!By(event, t.actor)>>)
          PROVE  Promised
      BY <2>1, <2>2, <2>3 DEF Promised, Promise!Next, Promise!Decide
    <2>4. CASE Verify(l)
      <3>1. PICK n : n = ManagerConfirm(t.seen, t.actor)
        OBVIOUS
      <3>2. Commit(l, n)
        BY <1>3, <2>4, <3>1 DEF Verify
      <3>3. Adds(t.seen, n, <<Promise!By("VERIFIED", t.actor)>>) /\ n.status = "VERIFIED"
        BY <1>3, <1>4, <3>1, StepAdds DEF ManagerConfirm
      <3>4. TrailsFit' /\ Promise!Record(<<Promise!By("VERIFIED", t.actor)>>)
        <4>1. PICK entries : entries = <<Promise!By("VERIFIED", t.actor)>>
          OBVIOUS
        <4>2. entries[Len(entries)].event = "VERIFIED"
          BY <1>3, <1>4, <1>5, <4>1
        <4> QED
          BY <1>3, <1>4, <3>2, <3>3, <4>1, <4>2, CommitRecords
      <3> QED
        BY <2>3, <3>4
    <2>5. CASE Reopen(l)
      <3>1. PICK n : n = ManagerReject(t.seen, t.actor, t.text)
        OBVIOUS
      <3>2. Commit(l, n)
        BY <1>3, <2>5, <3>1 DEF Reopen
      <3>3. PICK m : m = Step(t.seen, "REOPENED", Entry("REOPENED", t.actor, t.text))
        OBVIOUS
      <3>4. Adds(t.seen, m, <<Promise!By("REOPENED", t.actor)>>) /\ m.status = "REOPENED"
        BY <1>3, <1>4, <3>3, StepAdds
      <3>5. n = [m EXCEPT !.reason = t.text] /\ n \in Rows
        BY <1>3, <3>1, <3>3, DecisionType DEF ManagerReject
      <3>6. n.audit = m.audit /\ n.status = m.status
        BY <3>4, <3>5 DEF Adds, Rows
      <3>7. Adds(t.seen, n, <<Promise!By("REOPENED", t.actor)>>) /\ n.status = "REOPENED"
        BY <3>4, <3>5, <3>6 DEF Adds
      <3>8. TrailsFit' /\ Promise!Record(<<Promise!By("REOPENED", t.actor)>>)
        <4>1. PICK entries : entries = <<Promise!By("REOPENED", t.actor)>>
          OBVIOUS
        <4>2. entries[Len(entries)].event = "REOPENED"
          BY <1>3, <1>4, <1>5, <4>1
        <4> QED
          BY <1>3, <1>4, <3>2, <3>7, <4>1, <4>2, CommitRecords
      <3> QED
        BY <2>3, <3>8
    <2> QED
      BY <1>10, <2>4, <2>5
  <1> QED
    BY <1>6, <1>7, <1>8, <1>9, <1>10

\* The notification thread adds NOTIFIED, of which the promise says nothing.
LEMMA NotifierPromised ==
    ASSUME LifecycleAssumption, WriteLock = TRUE, IInv, TrailsFit, Notifier
    PROVE  TrailsFit' /\ Promised
  <1>1. CASE UNCHANGED <<row, txn>>
    BY <1>1, RowStands DEF TrailsFit, Promised
  <1>2. CASE CommitAudit
    <2>1. /\ row \in Rows /\ row' = Flushed(row, row, AppendAudit(row)) /\ txn' = txn
      BY <1>2 DEF CommitAudit, IInv, TypeOK, LockedReadsAreFresh
    <2>2. PICK e \in Entries : e = Entry("NOTIFIED", NoOne, NoNotes)
      BY EntryType DEF AuditEvents
    <2>3. row.audit \in Seq(Entries) /\ e.event \notin LifecycleEvents
      BY <2>1, <2>2 DEF Rows, Entry, LifecycleEvents
    <2>4. /\ AppendAudit(row) \in Rows
          /\ AppendAudit(row).status = row.status
          /\ AppendAudit(row).audit = Append(row.audit, e)
      BY <2>1, <2>2, WorkerType DEF AppendAudit, Rows
    <2>5. Append(row.audit, e) # row.audit
      BY <2>3, KeptGrows
    <2>6. /\ row'.status = row.status /\ row'.audit = Append(row.audit, e)
          /\ row'.creator = row.creator /\ row'.assignee = row.assignee
      BY <2>1, <2>4, <2>5, FlushedColumns
    <2>7. Ranked(row'.audit) /\ Trail(row'.audit) = Trail(row.audit)
      BY <2>3, <2>6, TrailGrows DEF TrailsFit
    <2> QED
      BY <2>1, <2>6, <2>7, SameTrail DEF TrailsFit, Promised
  <1> QED
    BY <1>1, <1>2 DEF Notifier, StartNotifier, ReadForAudit, LoseNotifier

\* The overdue job changes neither the trail nor the status.
LEMMA CronPromised ==
    ASSUME LifecycleAssumption, WriteLock = TRUE, IInv, TrailsFit, Cron
    PROVE  TrailsFit' /\ Promised
  <1>1. CASE UNCHANGED <<row, txn>>
    BY <1>1, RowStands DEF TrailsFit, Promised
  <1>2. CASE CommitRefresh
    <2>1. PICK p \in BOOLEAN : cron.new = RefreshOverdue(row, p)
      BY <1>2 DEF CommitRefresh, IInv, LockedReadsAreFresh
    <2>2. /\ row \in Rows /\ row' = Flushed(row, row, cron.new) /\ txn' = txn
      BY <1>2 DEF CommitRefresh, IInv, TypeOK, LockedReadsAreFresh
    <2>3. /\ cron.new \in Rows
          /\ cron.new.status = row.status /\ cron.new.audit = row.audit
      BY <2>1, <2>2, WorkerType DEF RefreshOverdue, Rows
    <2>4. /\ row'.status = row.status /\ row'.audit = row.audit
          /\ row'.creator = row.creator /\ row'.assignee = row.assignee
      BY <2>2, <2>3, FlushedColumns
    <2> QED
      BY <2>2, <2>4, SameTrail DEF TrailsFit, Promised
  <1> QED
    BY <1>1, <1>2 DEF Cron, StartRefresh, LoseRefresh

LEMMA StepPromised ==
    ASSUME LifecycleAssumption, WriteLock = TRUE, SingleLoop, IInv, TrailsFit, [Next]_vars
    PROVE  TrailsFit' /\ Promised
  <1>1. CASE \E l \in Loops : UseCase(l)
    BY <1>1, UseCasePromised
  <1>2. CASE Notifier
    BY <1>2, NotifierPromised
  <1>3. CASE Cron
    BY <1>3, CronPromised
  <1>4. CASE DueDatePasses \/ UNCHANGED vars
    <2>1. UNCHANGED <<row, txn>>
      BY <1>4 DEF DueDatePasses, vars
    <2> QED
      BY <2>1, RowStands DEF TrailsFit, Promised
  <1> QED
    BY <1>1, <1>2, <1>3, <1>4 DEF Next

\* The row of a new task is the first state of the promise.
LEMMA InitPromised ==
    ASSUME LifecycleAssumption, Init PROVE TrailsFit /\ Promise!Init
  <1>1. PICK creator \in People, assignee \in People : row = Created(creator, assignee)
    BY DEF Init
  <1>2. /\ row.creator = creator /\ row.assignee = assignee /\ row.status = "ASSIGNED"
        /\ row.audit = <<Entry("CREATED", creator, NoNotes), Entry("ASSIGNED", creator, NoNotes)>>
    BY <1>1 DEF Created
  <1>3. PICK a \in Seq(Entries) : a = row.audit
    <2>1. TypeOK
      BY InitType
    <2> QED
      BY <2>1 DEF TypeOK, Rows
  <1>4. /\ Len(a) = 2 /\ a[1].event = "CREATED" /\ a[2].event = "ASSIGNED"
        /\ a[1].actor = creator /\ a[2].actor = creator
    BY <1>2, <1>3 DEF Entry
  <1>5. Kept(a) = 1..2
    BY <1>4 DEF Kept, LifecycleEvents
  <1>6. ASSUME NEW n \in 1..2 PROVE Cardinality(1..n) = n
    <2>1. n \in Int /\ 1 \in Int /\ 1 <= n
      OBVIOUS
    <2>2. Cardinality(1..n) = n - 1 + 1
      BY <2>1, FS_Interval
    <2> QED
      BY <2>2
  <1>7. \A i \in 1..2 : (1..2) \intersect 1..i = 1..i
    OBVIOUS
  <1>8. \A i \in 1..2 : Cardinality((1..2) \intersect 1..i) = i
    BY <1>6, <1>7
  <1>9. Ranked(a)
    BY <1>5, <1>6, <1>8 DEF Ranked
  <1>10. ASSUME NEW n \in 1..2 PROVE Nth(1..2, n) = n
    <2>1. n >= n /\ Cardinality((1..2) \intersect 1..n) = n
      <3>1. Cardinality((1..2) \intersect 1..n) = n
        BY <1>8
      <3> QED
        BY <3>1
    <2>2. \A i \in 1..2 : Cardinality((1..2) \intersect 1..i) = n => i = n
      BY <1>8
    <2> QED
      BY <2>1, <2>2 DEF Nth
  <1>11. Trail(a) = <<Promise!By("CREATED", creator), Promise!By("ASSIGNED", creator)>>
    <2>1. Cardinality(Kept(a)) = 2
      BY <1>5, <1>6
    <2>2. Trail(a) = [n \in 1..2 |-> Bare(a[n])]
      BY <1>5, <1>10, <2>1 DEF Trail
    <2>3. /\ Bare(a[1]) = Promise!By("CREATED", creator)
          /\ Bare(a[2]) = Promise!By("ASSIGNED", creator)
      BY <1>4 DEF Bare, Promise!By
    <2> QED
      BY <2>2, <2>3
  <1>12. Promise!Init
    BY <1>2, <1>3, <1>11 DEF Promise!Init
  <1>13. TrailsFit
    BY <1>3, <1>9 DEF TrailsFit, Init
  <1> QED
    BY <1>12, <1>13

\* With one event loop on a single-writer database the row implements the
\* promise: whatever the worker threads commit between a use case's read and
\* its commit, the lifecycle trail only grows, by legal steps of the people
\* entitled to them (application/tasks.py, repository.py).
THEOREM PromiseIsKept ==
    ASSUME LifecycleAssumption, WriteLock = TRUE, SingleLoop
    PROVE  Spec => ImplementsPromise
  <1>1. Init => TrailsFit /\ Promise!Init
    BY InitPromised
  <1>2. IInv /\ TrailsFit /\ [Next]_vars => TrailsFit' /\ [Promise!Next]_Promise!vars
    BY StepPromised DEF Promised
  <1> QED
    BY <1>1, <1>2, Invariant, PTL DEF Spec, ImplementsPromise, Promise!Spec

---------------------------------------------------------------------------
(* What follows from the promise.                                          *)

\* Whoever decides, decides on what the assignee has just handed in.
Handed(trail, who) ==
    \A n \in 1..Len(trail) : trail[n].event \in {"VERIFIED", "REOPENED"} =>
        n > 1 /\ trail[n - 1] = Promise!By("CLOSURE_REQUESTED", who)
DecisionsFollowClosures == Handed(Trail(row.audit), row.assignee)

\* A verified task has come to its end: it keeps its status and its trail.
VerifiedForGood ==
    [][row.status = "VERIFIED" => /\ row'.status = "VERIFIED"
                                  /\ Trail(row'.audit) = Trail(row.audit)]_vars

\* The inductive invariant of the promise: the status is that of the last
\* entry, so that work that waits for a decision ends in a closure.
Lawful(trail, status, who) ==
    /\ trail \in Seq(Bares) /\ Len(trail) > 0
    /\ trail[Len(trail)].event \in LifecycleEvents
    /\ status = StatusAfter[trail[Len(trail)].event]
    /\ \A n \in 1..Len(trail) : trail[n].event = "CLOSURE_REQUESTED" => trail[n].actor = who
    /\ Handed(trail, who)
TrailIsLawful == Lawful(Trail(row.audit), row.status, row.assignee)

\* An entry joins a lawful trail if a decision comes after a closure and a
\* closure is the assignee's.
LEMMA JoinsLawfully ==
    ASSUME NEW trail, NEW status, NEW who, Lawful(trail, status, who),
           NEW e \in Bares, e.event \in LifecycleEvents,
           e.event = "CLOSURE_REQUESTED" => e.actor = who,
           e.event \in {"VERIFIED", "REOPENED"} => status = "PENDING_VERIFICATION"
    PROVE  Lawful(trail \o <<e>>, StatusAfter[e.event], who)
  <1>1. trail \in Seq(Bares) /\ Len(trail) \in Nat /\ Len(trail) > 0
    BY LenProperties DEF Lawful
  <1>2. PICK b \in Seq(Bares) : b = trail \o <<e>> /\ b = Append(trail, e)
    BY <1>1, AppendIsConcat, AppendProperties
  <1>3. /\ Len(b) = Len(trail) + 1 /\ b[Len(trail) + 1] = e
        /\ \A n \in 1..Len(trail) : b[n] = trail[n]
    BY <1>1, <1>2, AppendProperties
  <1>4. status = "PENDING_VERIFICATION" =>
           trail[Len(trail)] = Promise!By("CLOSURE_REQUESTED", who)
    <2> SUFFICES ASSUME status = "PENDING_VERIFICATION"
                 PROVE  trail[Len(trail)] = Promise!By("CLOSURE_REQUESTED", who)
      OBVIOUS
    <2>1. PICK last \in Bares : last = trail[Len(trail)]
      BY <1>1, ElementOfSeq
    <2>2. last.event = "CLOSURE_REQUESTED"
      BY <2>1 DEF Lawful, StatusAfter, LifecycleEvents
    <2>3. last.actor = who
      BY <1>1, <2>1, <2>2 DEF Lawful
    <2> QED
      BY <2>1, <2>2, <2>3 DEF Bares, Promise!By
  <1>5. \A n \in 1..Len(b) : b[n].event = "CLOSURE_REQUESTED" => b[n].actor = who
    BY <1>1, <1>3 DEF Lawful
  <1>6. Handed(b, who)
    <2> SUFFICES ASSUME NEW n \in 1..Len(b), b[n].event \in {"VERIFIED", "REOPENED"}
                 PROVE  n > 1 /\ b[n - 1] = Promise!By("CLOSURE_REQUESTED", who)
      BY DEF Handed
    <2>1. CASE n = Len(trail) + 1
      <3>1. b[n] = e /\ n > 1 /\ n - 1 = Len(trail) /\ b[n - 1] = trail[Len(trail)]
        BY <1>1, <1>3, <2>1
      <3> QED
        BY <1>4, <3>1
    <2>2. CASE n # Len(trail) + 1
      <3>1. n \in 1..Len(trail) /\ b[n] = trail[n]
        BY <1>1, <1>3, <2>2
      <3>2. n > 1 /\ trail[n - 1] = Promise!By("CLOSURE_REQUESTED", who)
        BY <3>1 DEF Lawful, Handed
      <3>3. b[n - 1] = trail[n - 1]
        BY <1>1, <1>3, <3>1, <3>2
      <3> QED
        BY <3>2, <3>3
    <2> QED
      BY <2>1, <2>2
  <1>7. Len(b) > 0 /\ b[Len(b)] = e
    BY <1>1, <1>3
  <1> QED
    BY <1>2, <1>5, <1>6, <1>7 DEF Lawful

\* The acknowledgement of work that is completed unacknowledged joins before
\* what follows it.
LEMMA AcknowledgesLawfully ==
    ASSUME NEW trail, NEW status, NEW who \in People, Lawful(trail, status, who),
           NEW s \in Seq(Bares)
    PROVE  LET ack == Promise!By("ACKNOWLEDGED", who)
           IN  status = "ASSIGNED" =>
                 /\ Lawful(trail \o <<ack>>, "IN_PROGRESS", who)
                 /\ trail \o (<<ack>> \o s) = (trail \o <<ack>>) \o s
  <1> DEFINE ack == Promise!By("ACKNOWLEDGED", who)
  <1>1. /\ ack \in Bares /\ ack.event = "ACKNOWLEDGED"
        /\ ack.event \in LifecycleEvents /\ StatusAfter[ack.event] = "IN_PROGRESS"
    <2>1. "ACKNOWLEDGED" \in LifecycleEvents /\ StatusAfter["ACKNOWLEDGED"] = "IN_PROGRESS"
      BY DEF LifecycleEvents, StatusAfter
    <2> QED
      BY <2>1, ByType
  <1> HIDE DEF ack
  <1>2. Lawful(trail \o <<ack>>, "IN_PROGRESS", who)
    BY <1>1, JoinsLawfully
  <1>3. PICK t \in Seq(Bares), a \in Seq(Bares) : t = trail /\ a = <<ack>>
    BY <1>1, Tuples DEF Lawful
  <1>4. t \o (a \o s) = (t \o a) \o s
    BY ConcatAssociative
  <1> QED
    BY <1>2, <1>3, <1>4 DEF ack

\* Handing in, and completing one's own task, keep a trail lawful.
LEMMA ClosesLawfully ==
    ASSUME NEW trail, NEW status, NEW who \in People, Lawful(trail, status, who)
    PROVE  LET c == Promise!By("CLOSURE_REQUESTED", who)
               v == Promise!By("VERIFIED", who)
           IN  /\ Lawful(trail \o <<c>>, "PENDING_VERIFICATION", who)
               /\ Lawful(trail \o <<c, v>>, "VERIFIED", who)
  <1> DEFINE c == Promise!By("CLOSURE_REQUESTED", who)
             v == Promise!By("VERIFIED", who)
  <1>1. /\ c \in Bares /\ c.event = "CLOSURE_REQUESTED" /\ c.actor = who
        /\ c.event \in LifecycleEvents /\ StatusAfter[c.event] = "PENDING_VERIFICATION"
        /\ v \in Bares /\ v.event = "VERIFIED"
        /\ v.event \in LifecycleEvents /\ StatusAfter[v.event] = "VERIFIED"
    <2>1. /\ "CLOSURE_REQUESTED" \in LifecycleEvents /\ "VERIFIED" \in LifecycleEvents
          /\ StatusAfter["CLOSURE_REQUESTED"] = "PENDING_VERIFICATION"
          /\ StatusAfter["VERIFIED"] = "VERIFIED"
      BY DEF LifecycleEvents, StatusAfter
    <2>2. c.actor = who
      BY DEF Promise!By
    <2> QED
      BY <2>1, <2>2, ByType
  <1> HIDE DEF c, v
  <1>2. Lawful(trail \o <<c>>, "PENDING_VERIFICATION", who)
    BY <1>1, JoinsLawfully
  <1>3. Lawful((trail \o <<c>>) \o <<v>>, "VERIFIED", who)
    BY <1>1, <1>2, JoinsLawfully
  <1>4. PICK t \in Seq(Bares), a \in Seq(Bares), b \in Seq(Bares) :
           t = trail /\ a = <<c>> /\ b = <<v>> /\ a \o b = <<c, v>>
    <2>1. <<c>> \o <<v>> = <<c, v>>
      BY <1>1, Tuples
    <2>2. trail \in Seq(Bares) /\ <<c>> \in Seq(Bares) /\ <<v>> \in Seq(Bares)
      BY <1>1, Tuples DEF Lawful
    <2> QED
      BY <2>1, <2>2
  <1>5. (t \o a) \o b = t \o (a \o b)
    BY ConcatAssociative
  <1>6. (trail \o <<c>>) \o <<v>> = trail \o <<c, v>>
    BY <1>4, <1>5
  <1> QED
    BY <1>2, <1>3, <1>6 DEF c, v

\* Every step of the promise keeps its trail lawful.
LEMMA PromiseIsLawful ==
    ASSUME LifecycleAssumption, TypeOK, TrailIsLawful, Promised
    PROVE  TrailIsLawful'
  <1> DEFINE trail == Trail(row.audit)
             status == row.status
             who == row.assignee
             c == Promise!By("CLOSURE_REQUESTED", who)
             v == Promise!By("VERIFIED", who)
             ack == Promise!By("ACKNOWLEDGED", who)
  <1>0. Lawful(trail, status, who) /\ who \in People /\ row.creator \in People
    BY DEF TypeOK, Rows, TrailIsLawful
  <1>1. CASE UNCHANGED Promise!vars
    <2>1. Trail(row'.audit) = trail /\ row'.status = status /\ row'.assignee = who
      BY <1>1 DEF Promise!vars
    <2> QED
      BY <1>0, <2>1 DEF TrailIsLawful
  <1>2. ASSUME NEW s, NEW t, Trail(row'.audit) = s, row'.status = t, row'.assignee = who,
               Lawful(s, t, who)
        PROVE  TrailIsLawful'
    BY <1>2 DEF TrailIsLawful
  <1>3. ASSUME NEW e \in Bares, e.event \in LifecycleEvents, e.event # "CLOSURE_REQUESTED",
               e.event \in {"VERIFIED", "REOPENED"} => status = "PENDING_VERIFICATION",
               Promise!Record(<<e>>)
        PROVE  TrailIsLawful'
    <2>1. /\ Trail(row'.audit) = trail \o <<e>> /\ row'.status = StatusAfter[e.event]
          /\ row'.assignee = who
      BY <1>3, SameStatusAfter, Tuples DEF Promise!Record
    <2>2. Lawful(trail \o <<e>>, StatusAfter[e.event], who)
      BY <1>0, <1>3, JoinsLawfully
    <2> QED
      BY <1>2, <2>1, <2>2
  <1>4. CASE Promise!Start
    <2>1. PICK ev \in {"ACKNOWLEDGED", "RESUMED"} : Promise!Record(<<Promise!By(ev, who)>>)
      BY <1>4 DEF Promise!Start
    <2>2. ev \in LifecycleEvents /\ ev # "CLOSURE_REQUESTED" /\ ev \notin {"VERIFIED", "REOPENED"}
      BY DEF LifecycleEvents
    <2> QED
      BY <1>0, <1>3, <2>1, <2>2, ByType
  <1>5. CASE Promise!Decide
    <2>1. PICK p \in VerifiersFor(row.creator, who), ev \in {"VERIFIED", "REOPENED"} :
             status = "PENDING_VERIFICATION" /\ Promise!Record(<<Promise!By(ev, p)>>)
      BY <1>0, <1>5 DEF Promise!Decide
    <2>2. p \in People
      BY <1>0, <2>1 DEF VerifiersFor, LifecycleAssumption
    <2>3. ev \in LifecycleEvents /\ ev # "CLOSURE_REQUESTED"
      BY DEF LifecycleEvents
    <2> QED
      BY <1>3, <2>1, <2>2, <2>3, ByType
  <1>6. c \in Bares /\ v \in Bares /\ ack \in Bares
        /\ c.event = "CLOSURE_REQUESTED" /\ v.event = "VERIFIED"
    <2>1. {"CLOSURE_REQUESTED", "VERIFIED", "ACKNOWLEDGED"} \subseteq LifecycleEvents
      BY DEF LifecycleEvents
    <2> QED
      BY <1>0, <2>1, ByType
  <1>7. /\ StatusAfter["CLOSURE_REQUESTED"] = "PENDING_VERIFICATION"
        /\ StatusAfter["VERIFIED"] = "VERIFIED"
    BY DEF StatusAfter, LifecycleEvents
  <1>8. ASSUME NEW s \in {<<c>>, <<c, v>>}, NEW t,
               t = IF s = <<c>> THEN "PENDING_VERIFICATION" ELSE "VERIFIED",
               Promise!Record(Promise!Begun(s))
        PROVE  TrailIsLawful'
    <2>1. s \in Seq(Bares) /\ <<c>> # <<c, v>>
      <3>1. <<c>> \in Seq(Bares) /\ <<c, v>> \in Seq(Bares)
        BY <1>6, Tuples
      <3>2. Len(<<c>>) = 1 /\ Len(<<c, v>>) = 2
        OBVIOUS
      <3> QED
        BY <1>8, <3>1, <3>2
    <2>2. ASSUME NEW tr, NEW st, Lawful(tr, st, who) PROVE Lawful(tr \o s, t, who)
      BY <1>0, <1>8, <2>1, <2>2, ClosesLawfully
    <2>3. Lawful(trail \o Promise!Begun(s), t, who)
      <3>1. CASE status = "ASSIGNED"
        <4>1. Promise!Begun(s) = <<ack>> \o s
          BY <3>1 DEF Promise!Begun
        <4>2. /\ Lawful(trail \o <<ack>>, "IN_PROGRESS", who)
              /\ trail \o (<<ack>> \o s) = (trail \o <<ack>>) \o s
          BY <1>0, <2>1, <3>1, AcknowledgesLawfully
        <4>3. Lawful((trail \o <<ack>>) \o s, t, who)
          BY <2>2, <4>2
        <4> QED
          BY <4>1, <4>2, <4>3
      <3>2. CASE status # "ASSIGNED"
        <4>1. Promise!Begun(s) = s
          BY <3>2 DEF Promise!Begun
        <4> QED
          BY <1>0, <2>2, <4>1
      <3> QED
        BY <3>1, <3>2
    <2>4. LET b == Promise!Begun(s) IN StatusAfter[b[Len(b)].event] = t
      <3>0. <<ack>> \o <<c>> = <<ack, c>> /\ <<ack>> \o <<c, v>> = <<ack, c, v>>
        BY <1>6, Tuples
      <3>1. /\ s = <<c>> => Promise!Begun(s) \in {<<c>>, <<ack, c>>}
            /\ s = <<c, v>> => Promise!Begun(s) \in {<<c, v>>, <<ack, c, v>>}
        BY <3>0 DEF Promise!Begun
      <3>2. /\ <<c>>[Len(<<c>>)] = c /\ <<c, v>>[Len(<<c, v>>)] = v
            /\ <<ack, c>>[Len(<<ack, c>>)] = c /\ <<ack, c, v>>[Len(<<ack, c, v>>)] = v
        BY <1>6, Tuples
      <3> HIDE DEF c, v, ack
      <3> QED
        BY <1>6, <1>7, <1>8, <2>1, <3>1, <3>2
    <2>5. /\ Trail(row'.audit) = trail \o Promise!Begun(s) /\ row'.status = t
          /\ row'.assignee = who
      BY <1>8, <2>4, SameStatusAfter DEF Promise!Record
    <2> QED
      BY <1>2, <2>3, <2>5
  <1>9. CASE Promise!Submit
    BY <1>8, <1>9 DEF Promise!Submit
  <1>10. CASE Promise!Complete
    <2>1. Len(<<c>>) = 1 /\ Len(<<c, v>>) = 2
      OBVIOUS
    <2> QED
      BY <1>8, <1>10, <2>1 DEF Promise!Complete
  <1> QED
    BY <1>1, <1>4, <1>5, <1>9, <1>10 DEF Promised, Promise!Next

\* A new task's trail is lawful.
LEMMA NewIsLawful ==
    ASSUME LifecycleAssumption, Init PROVE TrailIsLawful
  <1>1. /\ Promise!Init /\ TypeOK
        /\ row.creator \in People /\ row.assignee \in People /\ row.status = "ASSIGNED"
    BY InitPromised, InitType DEF TypeOK, Rows, Promise!Init
  <1>2. "CREATED" \in LifecycleEvents /\ "ASSIGNED" \in LifecycleEvents
        /\ StatusAfter["ASSIGNED"] = "ASSIGNED"
    BY DEF LifecycleEvents, StatusAfter
  <1>3. PICK x \in Bares, y \in Bares :
           /\ Trail(row.audit) = <<x, y>> /\ x.event = "CREATED" /\ y.event = "ASSIGNED"
    BY <1>1, <1>2, ByType DEF Promise!Init
  <1>4. PICK t \in Seq(Bares) : t = <<x, y>> /\ Len(t) = 2 /\ t[1] = x /\ t[2] = y
    <2>1. <<x, y>> \in Seq(Bares)
      OBVIOUS
    <2> QED
      BY <2>1
  <1>5. \A n \in 1..2 : t[n].event \notin {"CLOSURE_REQUESTED", "VERIFIED", "REOPENED"}
    BY <1>3, <1>4
  <1>6. Lawful(t, "ASSIGNED", row.assignee)
    BY <1>2, <1>3, <1>4, <1>5 DEF Lawful, Handed
  <1> QED
    BY <1>1, <1>3, <1>4, <1>6 DEF TrailIsLawful

\* A task is verified or reopened only straight after the assignee has handed
\* it in (the closure of application/tasks.py, whichever of its two ways it
\* takes), although the use cases check a status that they read before they
\* wait, and three of the repository's methods write it unasked.
THEOREM DecisionsAlwaysFollowClosures ==
    ASSUME LifecycleAssumption, WriteLock = TRUE, SingleLoop
    PROVE  Spec => []DecisionsFollowClosures
  <1>1. Init => TrailIsLawful
    BY NewIsLawful
  <1>2. IInv /\ TrailIsLawful /\ [Promise!Next]_Promise!vars => TrailIsLawful'
    BY PromiseIsLawful DEF IInv, Promised
  <1>3. TrailIsLawful => DecisionsFollowClosures
    BY DEF TrailIsLawful, Lawful, DecisionsFollowClosures
  <1>4. Spec => [][Promise!Next]_Promise!vars
    BY PromiseIsKept, PTL DEF ImplementsPromise, Promise!Spec
  <1> QED
    BY <1>1, <1>2, <1>3, <1>4, Invariant, PTL DEF Spec

\* Nothing happens to a verified task any more but notices and flags: no
\* closure, decision or acknowledgement that was read before it was verified
\* is committed after it (application/tasks.py, repository.py).
THEOREM VerifiedTasksStayVerified ==
    ASSUME LifecycleAssumption, WriteLock = TRUE, SingleLoop
    PROVE  Spec => VerifiedForGood
  <1> DEFINE Stays == row.status = "VERIFIED" => /\ row'.status = "VERIFIED"
                                                 /\ Trail(row'.audit) = Trail(row.audit)
  <1>1. Promise!Next \/ UNCHANGED Promise!vars => Stays
    BY DEF Promise!Next, Promise!Start, Promise!Submit, Promise!Complete, Promise!Decide,
       Promise!vars
  <1>2. IInv /\ TrailsFit /\ [Next]_vars => TrailsFit' /\ [Stays]_vars
    <2> SUFFICES ASSUME IInv, TrailsFit, [Next]_vars PROVE TrailsFit' /\ Stays
      OBVIOUS
    <2> QED
      BY <1>1, StepPromised DEF Promised
  <1>3. Init => TrailsFit
    BY InitPromised
  <1>4. [][Stays]_vars => VerifiedForGood
    BY PTL DEF VerifiedForGood
  <1> HIDE DEF Stays
  <1> QED
    BY <1>2, <1>3, <1>4, Invariant, PTL DEF Spec
=============================================================================
