---------------------- MODULE NotificationOutbox_proofs ----------------------
(***************************************************************************)
(* Proofs about NotificationOutbox for any finite numbers of threads and   *)
(* retry runs, any work of theirs and any number of failures.              *)
(***************************************************************************)
EXTENDS NotificationOutbox, SequenceTheorems, FiniteSetTheorems, TLAPS

---------------------------------------------------------------------------
(* The inductive invariant.                                                *)

Rows == [logged : {TRUE}, notice : Told, reached : BOOLEAN, retry : BOOLEAN]
Writes == [key : Keys, row : Rows \union {NoRow}]
Desks == [pc : {"next", "insert", "send", "done", "lost"}, todo : Seq(All),
          mine : SUBSET (Keys \union Gates), rows : SUBSET Writes]

\* A row is about a notice of its key, and is to be retried only if the
\* notice reached nobody.
RowFits(k, row) == KeyOf(row.notice) = k /\ (row.retry => ~row.reached)

\* A thread has a row for each key of a notice that it has taken, or has
\* dropped it, but for the one that it is about to send.
Written(q) == {w.key : w \in q.rows}
DeskFits(q) ==
    /\ \A w \in q.rows : w.row # NoRow => RowFits(w.key, w.row)
    /\ \A v, w \in q.rows : v.key = w.key => v = w
    /\ q.pc \in {"insert", "send"} => q.todo # <<>>
    /\ q.pc = "insert" => KeyOf(Head(q.todo)) \notin q.mine
    /\ q.pc = "send" => /\ IsNotice(Head(q.todo))
                        /\ KeyOf(Head(q.todo)) \in q.mine \ Written(q)
    /\ \A k \in q.mine \intersect Keys :
          k \in Written(q) \/ (q.pc = "send" /\ k = KeyOf(Head(q.todo)))
    /\ Written(q) \subseteq q.mine

\* No key is taken twice, by a thread or in the database.
ClaimsExclude ==
    /\ \A t \in Threads : thread[t].mine \intersect keys = {}
    /\ \A t, u \in Threads : t # u => thread[t].mine \intersect thread[u].mine = {}

ThreadsFit ==
    /\ thread \in [Threads -> Desks]
    /\ \A t \in Threads : DeskFits(thread[t])
    /\ ClaimsExclude

LogFits ==
    /\ keys \subseteq SendKeys \union Gates
    /\ log \in [Keys -> Rows \union {NoRow}]
    /\ \A k \in Keys : log[k] # NoRow => RowFits(k, log[k])
    /\ dropped \subseteq Keys
    /\ ConsumedIsLoggedOrDropped

\* A retry run goes on about deliveries that failed, each of them once.
Failed(k) == log[k].logged /\ ~log[k].reached
Retries == {RetryKey(k) : k \in Keys}
Runs == [pc : {"idle", "loop"}, todo : SUBSET Keys, mine : SUBSET Retries,
         rows : SUBSET [key : Keys, retry : BOOLEAN]]
RunFits(q) ==
    /\ q.pc = "idle" => q.mine = {}
    /\ \A k \in q.todo : Failed(k) /\ RetryKey(k) \notin q.mine
    /\ \A w \in q.rows : Failed(w.key)

RetriersFit ==
    /\ retrier \in [Retriers -> Runs]
    /\ \A r \in Retriers : RunFits(retrier[r])

MessagesFit ==
    /\ messages \in [SendKeys -> Nat] /\ orphaned \in [SendKeys -> Nat]
    /\ arrived \subseteq Told
    /\ failures \in 0..MaxFailures
    /\ RemindersFollowFailures
    /\ EveryMessageIsAccountedFor

IInv == ThreadsFit /\ LogFits /\ RetriersFit /\ MessagesFit

---------------------------------------------------------------------------
(* The keys.                                                               *)

\* What there is to do is a notice or the day of a job.
LEMMA AllAreItems == \A n \in All : n \in Items
  <1> SUFFICES ASSUME NEW n \in All PROVE n \in Items
    OBVIOUS
  <1>1. PICK t \in Threads : \E i \in 1..Len(Work[t]) : n = Work[t][i]
    BY DEF All
  <1>2. Work[t] \in Seq(Items)
    BY OutboxAssumption DEF OutboxAssumption
  <1> QED
    BY <1>1, <1>2

LEMMA WorkIsOfAll == \A t \in Threads : Work[t] \in Seq(All)
  <1> SUFFICES ASSUME NEW t \in Threads PROVE Work[t] \in Seq(All)
    OBVIOUS
  <1>1. Work[t] \in Seq(Items)
    BY OutboxAssumption DEF OutboxAssumption
  <1>2. \A i \in 1..Len(Work[t]) : Work[t][i] \in All
    BY DEF All
  <1> QED
    BY <1>1, <1>2, LenProperties

\* The keys of notices, of jobs and of retries are apart.
LEMMA KeysAreApart ==
    /\ \A n \in All : IF IsNotice(n) THEN n \in Told /\ KeyOf(n) \in Keys /\ KeyOf(n) \notin Gates
                                     ELSE KeyOf(n) \in Gates /\ KeyOf(n) \notin Keys
    /\ \A k \in Keys : k \notin Gates /\ k \notin Retries
    /\ \A k \in Retries : k \notin Keys /\ k \notin Gates
    /\ \A j, k \in Keys : RetryKey(j) = RetryKey(k) => j = k
    /\ SendKeys = Keys \union Retries
  <1>1. \A n \in All : KeyOf(n)[1] = n.event /\ n.event \in Events \union {"job"}
    BY AllAreItems DEF KeyOf, Items
  <1>2. "job" \notin Events /\ "retry" \notin Events
    BY DEF Events
  <1>3. \A k \in Keys : k[1] \in Events
    BY <1>1 DEF Keys, Told, IsNotice
  <1>4. \A k \in Gates : k[1] = "job"
    BY <1>1 DEF Gates, Told, IsNotice
  <1>5. \A k \in Retries : k[1] = "retry"
    BY DEF Retries, RetryKey
  <1>6. \A n \in All : IF IsNotice(n) THEN n \in Told /\ KeyOf(n) \in Keys
                                      ELSE KeyOf(n) \in Gates
    BY DEF Told, Keys, Gates
  <1>7. \A j, k \in Keys : RetryKey(j) = RetryKey(k) => j = k
    BY DEF RetryKey
  <1>8. SendKeys = Keys \union Retries
    BY DEF SendKeys, Retries
  <1> QED
    BY <1>2, <1>3, <1>4, <1>5, <1>6, <1>7, <1>8

---------------------------------------------------------------------------
(* How many are in flight.                                                 *)

Writing(k) == {t \in Threads : k \in Written(thread[t])}
Reminding(k) == {r \in Retriers : k \in retrier[r].mine}

LEMMA InFlightIs ==
    ASSUME NEW k
    PROVE  /\ InFlight(k) = Cardinality(Writing(k)) + Cardinality(Reminding(k))
           /\ IsFiniteSet(Writing(k)) /\ Cardinality(Writing(k)) \in Nat
           /\ IsFiniteSet(Reminding(k)) /\ Cardinality(Reminding(k)) \in Nat
  <1>1. {t \in Threads : \E r \in thread[t].rows : r.key = k} = Writing(k)
    BY DEF Writing, Written
  <1>2. IsFiniteSet(Writing(k)) /\ IsFiniteSet(Reminding(k))
    BY FS_Subset, OutboxAssumption DEF OutboxAssumption, Writing, Reminding
  <1> QED
    BY <1>1, <1>2, FS_CardinalityType DEF InFlight, Reminding

\* A set to which somebody is added, or from which somebody is taken away.
One(b) == IF b THEN 1 ELSE 0
LEMMA OneMoreOrLess ==
    ASSUME NEW S, IsFiniteSet(S), NEW T, NEW t, T \in {S, S \union {t}, S \ {t}}
    PROVE  Cardinality(T) = Cardinality(S) + One(t \in T) - One(t \in S)
  <1>1. Cardinality(S) \in Nat
    BY FS_CardinalityType
  <1>2. CASE T = S
    BY <1>1, <1>2 DEF One
  <1>3. CASE T = S \union {t}
    BY <1>1, <1>3, FS_AddElement DEF One
  <1>4. CASE T = S \ {t}
    BY <1>1, <1>4, FS_RemoveElement DEF One
  <1> QED
    BY <1>2, <1>3, <1>4

LEMMA ThreadsCount ==
    ASSUME thread \in [Threads -> Desks], NEW t \in Threads, NEW q,
           thread' = [thread EXCEPT ![t] = q], UNCHANGED retrier, NEW k
    PROVE  /\ InFlight(k)' = InFlight(k) + One(k \in Written(q)) - One(k \in Written(thread[t]))
           /\ InFlight(k) \in Nat /\ InFlight(k)' \in Nat
  <1>1. /\ thread'[t] = q
        /\ \A u \in Threads \ {t} : thread'[u] = thread[u]
    OBVIOUS
  <1>2. \A u \in Threads \ {t} : u \in Writing(k)' <=> u \in Writing(k)
    BY <1>1 DEF Writing, Written
  <1>3. /\ t \in Writing(k)' <=> k \in Written(q)
        /\ t \in Writing(k) <=> k \in Written(thread[t])
    BY <1>1 DEF Writing, Written
  <1>4. Writing(k)' \in {Writing(k), Writing(k) \union {t}, Writing(k) \ {t}}
    <2>1. Writing(k) \subseteq Threads /\ Writing(k)' \subseteq Threads
      BY DEF Writing
    <2> QED
      BY <1>2, <2>1
  <1>5. Cardinality(Writing(k)') = Cardinality(Writing(k)) + One(k \in Written(q))
                                      - One(k \in Written(thread[t]))
    BY <1>3, <1>4, OneMoreOrLess, InFlightIs DEF One
  <1>6. Reminding(k)' = Reminding(k)
    BY DEF Reminding
  <1>7. /\ InFlight(k)' = Cardinality(Writing(k)') + Cardinality(Reminding(k)')
        /\ Cardinality(Writing(k)') \in Nat
    <2>1. Writing(k)' = {u \in Threads : \E r \in thread'[u].rows : r.key = k}
      BY DEF Writing, Written
    <2>2. IsFiniteSet(Writing(k)')
      BY <1>4, FS_AddElement, FS_RemoveElement, InFlightIs
    <2> QED
      BY <2>1, <2>2, FS_CardinalityType DEF InFlight, Reminding
  <1> QED
    BY <1>5, <1>6, <1>7, InFlightIs DEF One

LEMMA RunsCount ==
    ASSUME retrier \in [Retriers -> Runs], NEW r \in Retriers, NEW q,
           retrier' = [retrier EXCEPT ![r] = q], UNCHANGED thread, NEW k
    PROVE  /\ InFlight(k)' = InFlight(k) + One(k \in q.mine) - One(k \in retrier[r].mine)
           /\ InFlight(k) \in Nat /\ InFlight(k)' \in Nat
  <1>1. /\ retrier'[r] = q
        /\ \A u \in Retriers \ {r} : retrier'[u] = retrier[u]
    OBVIOUS
  <1>2. \A u \in Retriers \ {r} : u \in Reminding(k)' <=> u \in Reminding(k)
    BY <1>1 DEF Reminding
  <1>3. /\ r \in Reminding(k)' <=> k \in q.mine
        /\ r \in Reminding(k) <=> k \in retrier[r].mine
    BY <1>1 DEF Reminding
  <1>4. Reminding(k)' \in {Reminding(k), Reminding(k) \union {r}, Reminding(k) \ {r}}
    <2>1. Reminding(k) \subseteq Retriers /\ Reminding(k)' \subseteq Retriers
      BY DEF Reminding
    <2> QED
      BY <1>2, <2>1
  <1>5. Cardinality(Reminding(k)') = Cardinality(Reminding(k)) + One(k \in q.mine)
                                      - One(k \in retrier[r].mine)
    BY <1>3, <1>4, OneMoreOrLess, InFlightIs DEF One
  <1>6. InFlight(k)' = Cardinality(Writing(k)) + Cardinality(Reminding(k)')
    <2>1. {t \in Threads : \E w \in thread'[t].rows : w.key = k} = Writing(k)
      BY DEF Writing, Written
    <2> QED
      BY <2>1 DEF InFlight, Reminding
  <1>7. Cardinality(Reminding(k)') \in Nat
    BY <1>4, FS_AddElement, FS_RemoveElement, FS_CardinalityType, InFlightIs
  <1> QED
    BY <1>5, <1>6, <1>7, InFlightIs DEF One

---------------------------------------------------------------------------
(* A step of a thread, which then has q on its desk.                       *)

LEMMA ThreadStands ==
    ASSUME IInv, NEW t \in Threads
    PROVE  thread[t] \in Desks /\ DeskFits(thread[t])
  BY DEF IInv, ThreadsFit

LEMMA ThreadStep ==
    ASSUME ThreadsFit, NEW t \in Threads, NEW q \in Desks, DeskFits(q),
           thread' = [thread EXCEPT ![t] = q],
           q.mine \intersect keys' = {},
           \A u \in Threads \ {t} : /\ thread[u].mine \intersect keys' = {}
                                    /\ thread[u].mine \intersect q.mine = {}
    PROVE  ThreadsFit'
  <1>1. /\ thread' \in [Threads -> Desks] /\ thread'[t] = q
        /\ \A u \in Threads \ {t} : thread'[u] = thread[u]
    BY DEF ThreadsFit
  <1>2. \A u \in Threads : DeskFits(thread'[u])
    BY <1>1 DEF ThreadsFit
  <1>3. ClaimsExclude'
    BY <1>1 DEF ThreadsFit, ClaimsExclude
  <1> QED
    BY <1>1, <1>2, <1>3 DEF ThreadsFit

\* If the thread takes and writes nothing, all else is as it was.
LEMMA ThreadMoves ==
    ASSUME IInv, NEW t \in Threads, NEW q \in Desks, DeskFits(q),
           thread' = [thread EXCEPT ![t] = q], q.rows = thread[t].rows,
           q.mine \intersect keys = {},
           \A u \in Threads \ {t} : thread[u].mine \intersect q.mine = {},
           failures' \in 0..MaxFailures,
           UNCHANGED <<keys, log, retrier, messages, arrived, orphaned, dropped>>
    PROVE  IInv'
  <1>1. ThreadsFit'
    BY ThreadStep DEF IInv, ThreadsFit, ClaimsExclude
  <1>2. LogFits' /\ RetriersFit'
    BY DEF IInv, LogFits, ConsumedIsLoggedOrDropped, RetriersFit, RunFits, Failed
  <1>3. Written(q) = Written(thread[t])
    BY DEF Written
  <1>4. ASSUME NEW k PROVE InFlight(k)' = InFlight(k)
    <2>1. thread \in [Threads -> Desks] /\ UNCHANGED retrier
      BY DEF IInv, ThreadsFit
    <2>2. /\ InFlight(k)' = InFlight(k) + One(k \in Written(q)) - One(k \in Written(thread[t]))
          /\ InFlight(k) \in Nat /\ InFlight(k)' \in Nat
      BY <2>1, ThreadsCount
    <2> QED
      BY <1>3, <2>2 DEF One
  <1>5. EveryMessageIsAccountedFor'
    BY <1>4 DEF IInv, MessagesFit, EveryMessageIsAccountedFor
  <1>6. MessagesFit'
    BY <1>5 DEF IInv, MessagesFit, RemindersFollowFailures
  <1> QED
    BY <1>1, <1>2, <1>6 DEF IInv

LEMMA LookInv == ASSUME IInv, NEW t \in Threads, Look(t) PROVE IInv'
  <1>1. PICK d \in Desks : thread[t] = d /\ DeskFits(d) /\ d.pc = "next" /\ d.todo # <<>>
    BY ThreadStands DEF Look, At
  <1>2. /\ d.todo \in Seq(All) /\ Tail(d.todo) \in Seq(All) /\ <<>> \in Seq(All)
    BY <1>1, HeadTailProperties, EmptySeq DEF Desks
  <1>3. /\ d.mine \intersect keys = {}
        /\ \A u \in Threads \ {t} : thread[u].mine \intersect d.mine = {}
    BY <1>1 DEF IInv, ThreadsFit, ClaimsExclude
  <1>4. PICK pc \in {"next", "insert"}, todo \in {d.todo, Tail(d.todo), <<>>} :
           /\ thread' = [thread EXCEPT ![t] = [d EXCEPT !.pc = pc, !.todo = todo]]
           /\ pc = "insert" => todo = d.todo /\ KeyOf(Head(d.todo)) \notin d.mine
    <2>1. CASE KeyOf(Head(d.todo)) \notin keys \union d.mine
      <3>1. thread' = [thread EXCEPT ![t].pc = "insert"]
        BY <1>1, <2>1 DEF Look, Item
      <3>2. thread' = [thread EXCEPT ![t] = [d EXCEPT !.pc = "insert", !.todo = d.todo]]
        BY <1>1, <3>1 DEF Desks
      <3> QED
        BY <2>1, <3>2
    <2>2. CASE KeyOf(Head(d.todo)) \in keys \union d.mine
      <3>1. PICK todo \in {Tail(d.todo), <<>>} :
               thread' = [thread EXCEPT ![t].todo = todo]
        BY <1>1, <2>2 DEF Look, Item
      <3>2. thread' = [thread EXCEPT ![t] = [d EXCEPT !.pc = "next", !.todo = todo]]
        BY <1>1, <3>1 DEF Desks
      <3> QED
        BY <3>2
    <2> QED
      BY <2>1, <2>2
  <1>5. PICK q \in Desks : q = [d EXCEPT !.pc = pc, !.todo = todo]
    BY <1>2 DEF Desks
  <1>6. q.pc = pc /\ q.todo = todo /\ q.mine = d.mine /\ q.rows = d.rows
    BY <1>5 DEF Desks
  <1>7. DeskFits(q)
    BY <1>1, <1>4, <1>6 DEF DeskFits, Written
  <1> QED
    BY <1>1, <1>3, <1>4, <1>5, <1>6, <1>7, ThreadMoves DEF Look, IInv, MessagesFit

LEMMA SkipInv == ASSUME IInv, NEW t \in Threads, Skip(t) PROVE IInv'
  <1>1. PICK d \in Desks : thread[t] = d /\ DeskFits(d) /\ d.pc = "next" /\ d.todo # <<>>
    BY ThreadStands DEF Skip, At
  <1>2. PICK rest \in {2, 3} :
           thread' = [thread EXCEPT ![t].todo = SubSeq(d.todo, rest, Len(d.todo))]
    BY <1>1 DEF Skip
  <1>3. SubSeq(d.todo, rest, Len(d.todo)) \in Seq(All)
    <2>1. d.todo \in Seq(All) /\ Len(d.todo) \in Nat
      BY LenProperties DEF Desks
    <2>2. \A i \in rest..Len(d.todo) : d.todo[i] \in All
      BY <2>1, ElementOfSeq
    <2> QED
      BY <2>1, <2>2, SubSeqProperties
  <1>4. PICK q \in Desks : q = [d EXCEPT !.todo = SubSeq(d.todo, rest, Len(d.todo))]
    BY <1>3 DEF Desks
  <1>5. thread' = [thread EXCEPT ![t] = q]
    BY <1>1, <1>2, <1>4
  <1>6. q.pc = "next" /\ q.mine = d.mine /\ q.rows = d.rows
    BY <1>1, <1>4 DEF Desks
  <1>7. DeskFits(q)
    BY <1>1, <1>6 DEF DeskFits, Written
  <1>8. /\ q.mine \intersect keys = {}
        /\ \A u \in Threads \ {t} : thread[u].mine \intersect q.mine = {}
    BY <1>1, <1>6 DEF IInv, ThreadsFit, ClaimsExclude
  <1>9. failures' \in 0..MaxFailures
    BY OutboxAssumption DEF Skip, IInv, MessagesFit, OutboxAssumption
  <1> QED
    BY <1>1, <1>5, <1>6, <1>7, <1>8, <1>9, ThreadMoves DEF Skip

LEMMA InsertInv == ASSUME IInv, NEW t \in Threads, Insert(t) PROVE IInv'
  <1>1. PICK d \in Desks : thread[t] = d /\ DeskFits(d) /\ d.pc = "insert" /\ d.todo # <<>>
    BY ThreadStands DEF Insert, At, DeskFits
  <1>2. /\ Head(d.todo) \in All /\ Tail(d.todo) \in Seq(All)
    BY <1>1, HeadTailProperties DEF Desks
  <1>3. PICK k \in Keys \union Gates : k = KeyOf(Head(d.todo))
    BY <1>2, KeysAreApart
  <1>4. k \notin keys /\ k \notin d.mine /\ \A u \in Threads \ {t} : k \notin thread[u].mine
    BY <1>1, <1>3 DEF Insert, Item, Claimed, DeskFits
  <1>5. d.mine \union {k} \in SUBSET (Keys \union Gates)
    BY <1>3 DEF Desks
  <1>6. CASE IsNotice(Head(d.todo))
    <2>1. PICK q \in Desks : q = [d EXCEPT !.pc = "send", !.mine = d.mine \union {k}]
      BY <1>5 DEF Desks
    <2>2. thread' = [thread EXCEPT ![t] = q]
      BY <1>1, <1>3, <1>6, <2>1 DEF Insert, Item
    <2>3. /\ q.pc = "send" /\ q.mine = d.mine \union {k} /\ q.todo = d.todo
          /\ q.rows = d.rows /\ Written(q) = Written(d)
      BY <2>1 DEF Desks, Written
    <2>4. DeskFits(q)
      BY <1>1, <1>3, <1>4, <1>6, <2>3 DEF DeskFits
    <2>5. /\ q.mine \intersect keys = {}
          /\ \A u \in Threads \ {t} : thread[u].mine \intersect q.mine = {}
      BY <1>1, <1>4, <2>3 DEF IInv, ThreadsFit, ClaimsExclude
    <2> QED
      BY <1>1, <2>2, <2>3, <2>4, <2>5, ThreadMoves DEF Insert, IInv, MessagesFit
  <1>7. CASE ~IsNotice(Head(d.todo))
    <2>1. PICK q \in Desks : q = [d EXCEPT !.pc = "next", !.mine = d.mine \union {k},
                                           !.todo = Tail(d.todo)]
      BY <1>2, <1>5 DEF Desks
    <2>2. thread' = [thread EXCEPT ![t] = q]
      BY <1>1, <1>3, <1>7, <2>1 DEF Insert, Item
    <2>3. /\ q.pc = "next" /\ q.mine = d.mine \union {k}
          /\ q.rows = d.rows /\ Written(q) = Written(d)
      BY <2>1 DEF Desks, Written
    <2>4. k \notin Keys
      BY <1>2, <1>3, <1>7, KeysAreApart
    <2>5. DeskFits(q)
      BY <1>1, <2>3, <2>4 DEF DeskFits
    <2>6. /\ q.mine \intersect keys = {}
          /\ \A u \in Threads \ {t} : thread[u].mine \intersect q.mine = {}
      BY <1>1, <1>4, <2>3 DEF IInv, ThreadsFit, ClaimsExclude
    <2> QED
      BY <1>1, <2>2, <2>3, <2>5, <2>6, ThreadMoves DEF Insert, IInv, MessagesFit
  <1> QED
    BY <1>6, <1>7

---------------------------------------------------------------------------
(* What is sent and what is lost.                                          *)

LEMMA MessageCounts ==
    ASSUME MessagesFit, NEW k \in SendKeys, NEW notices \in SUBSET Told, NEW outcome,
           Message(k, notices, outcome)
    PROVE  /\ messages' \in [SendKeys -> Nat] /\ arrived' \subseteq Told
           /\ \A j \in SendKeys : messages'[j] <= messages[j] + One(j = k)
           /\ \A j \in SendKeys : j # k => messages'[j] = messages[j]
  <1>1. messages \in [SendKeys -> Nat] /\ arrived \subseteq Told
    BY DEF MessagesFit
  <1>2. CASE outcome.arrived
    <2>1. /\ messages' = [messages EXCEPT ![k] = messages[k] + 1]
          /\ arrived' = arrived \union notices
      BY <1>2 DEF Message
    <2> QED
      BY <1>1, <2>1 DEF One
  <1>3. CASE ~outcome.arrived
    <2>1. messages' = messages /\ arrived' = arrived
      BY <1>3 DEF Message
    <2> QED
      BY <1>1, <2>1 DEF One
  <1> QED
    BY <1>2, <1>3

LEMMA OrphanCounts ==
    ASSUME MessagesFit, NEW ks, Orphan(ks)
    PROVE  /\ orphaned' \in [SendKeys -> Nat]
           /\ \A j \in SendKeys : orphaned'[j] = orphaned[j] + One(j \in ks)
  BY DEF MessagesFit, Orphan, One

\* EveryMessageIsAccountedFor, key by key.
LEMMA AccountOf ==
    EveryMessageIsAccountedFor <=>
      \A k \in SendKeys : messages[k] <= One(k \in keys) + orphaned[k] + InFlight(k)
  BY DEF EveryMessageIsAccountedFor, One

LEMMA AccountOfNext ==
    EveryMessageIsAccountedFor' <=>
      \A k \in SendKeys : messages'[k] <= One(k \in keys') + orphaned'[k] + InFlight(k)'
  BY DEF EveryMessageIsAccountedFor, One

\* A notice is sent and recorded by a row, or by none that counts.
LEMMA SentInv ==
    ASSUME IInv, NEW t \in Threads, NEW outcome, At(t, "send"), NEW row \in Rows \union {NoRow},
           row # NoRow => RowFits(KeyOf(Item(t)), row),
           thread' = [thread EXCEPT ![t].pc = "next", ![t].todo = Tail(@),
                        ![t].rows = @ \union {[key |-> KeyOf(Item(t)), row |-> row]}],
           Message(KeyOf(Item(t)), {Item(t)}, outcome), failures' \in 0..MaxFailures,
           UNCHANGED <<keys, log, retrier, orphaned, dropped>>
    PROVE  IInv'
  <1>1. PICK d \in Desks : thread[t] = d /\ DeskFits(d) /\ d.pc = "send" /\ d.todo # <<>>
    BY ThreadStands DEF At, DeskFits
  <1>2. PICK n \in All : n = Head(d.todo)
    BY <1>1, HeadTailProperties DEF Desks
  <1>3. n \in Told /\ Tail(d.todo) \in Seq(All)
    BY <1>1, <1>2, HeadTailProperties, KeysAreApart DEF Desks, DeskFits
  <1>4. PICK k \in Keys : k = KeyOf(n) /\ k \in d.mine /\ k \notin Written(d)
    BY <1>1, <1>2, <1>3, KeysAreApart DEF DeskFits, Told
  <1>6. PICK w \in Writes : w = [key |-> k, row |-> row]
    BY DEF Writes
  <1>7. w.key = k /\ w.row = row /\ (w.row # NoRow => RowFits(w.key, w.row))
    BY <1>1, <1>2, <1>4, <1>6 DEF Item
  <1>8. PICK q \in Desks : q = [d EXCEPT !.pc = "next", !.todo = Tail(d.todo),
                                       !.rows = d.rows \union {w}]
    <2>1. d.rows \union {w} \in SUBSET Writes
      BY DEF Desks
    <2> QED
      BY <1>3, <2>1 DEF Desks
  <1>9. thread' = [thread EXCEPT ![t] = q]
    BY <1>1, <1>2, <1>4, <1>6, <1>8 DEF Item
  <1>10. q.pc = "next" /\ q.mine = d.mine /\ q.rows = d.rows \union {w}
    BY <1>8 DEF Desks
  <1>11. Written(q) = Written(d) \union {k}
    BY <1>7, <1>10 DEF Written
  <1>12. DeskFits(q)
    <2>1. \A v \in d.rows : v.key # k
      BY <1>4 DEF Written
    <2> QED
      BY <1>1, <1>2, <1>4, <1>7, <1>10, <1>11, <2>1 DEF DeskFits
  <1>13. ThreadsFit'
    <2>1. /\ q.mine \intersect keys' = {}
          /\ \A u \in Threads \ {t} : /\ thread[u].mine \intersect keys' = {}
                                       /\ thread[u].mine \intersect q.mine = {}
      BY <1>1, <1>10 DEF IInv, ThreadsFit, ClaimsExclude
    <2>2. ThreadsFit
      BY DEF IInv
    <2> QED
      BY <1>9, <1>12, <2>1, <2>2, ThreadStep
  <1>14. LogFits' /\ RetriersFit'
    BY DEF IInv, LogFits, ConsumedIsLoggedOrDropped, RetriersFit, RunFits, Failed
  <1>15. /\ messages' \in [SendKeys -> Nat] /\ arrived' \subseteq Told
         /\ \A j \in SendKeys : messages'[j] <= messages[j] + One(j = k)
         /\ \A j \in SendKeys : j # k => messages'[j] = messages[j]
    <2>1. k \in SendKeys /\ {n} \in SUBSET Told /\ MessagesFit
      BY <1>3, KeysAreApart DEF IInv
    <2>2. Message(k, {n}, outcome)
      BY <1>1, <1>2, <1>4 DEF Item
    <2> QED
      BY <2>1, <2>2, MessageCounts
  <1>16. EveryMessageIsAccountedFor'
    <2> SUFFICES ASSUME NEW j \in SendKeys
                 PROVE messages'[j] <= One(j \in keys') + orphaned'[j] + InFlight(j)'
      BY AccountOfNext
    <2>1. /\ InFlight(j)' = InFlight(j) + One(j \in Written(q)) - One(j \in Written(d))
          /\ InFlight(j) \in Nat /\ InFlight(j)' \in Nat
      BY <1>1, <1>9, ThreadsCount DEF IInv, ThreadsFit
    <2>2. InFlight(j)' = InFlight(j) + One(j = k)
      BY <1>4, <1>11, <2>1 DEF One
    <2>3. messages[j] <= One(j \in keys) + orphaned[j] + InFlight(j)
      BY AccountOf DEF IInv, MessagesFit
    <2>4. keys' = keys /\ orphaned' = orphaned
      OBVIOUS
    <2>5. messages[j] \in Nat /\ messages'[j] \in Nat /\ orphaned[j] \in Nat
      BY <1>15 DEF IInv, MessagesFit
    <2>6. messages'[j] <= messages[j] + One(j = k)
      BY <1>15
    <2> QED
      BY <2>1, <2>2, <2>3, <2>4, <2>5, <2>6 DEF One
  <1>17. RemindersFollowFailures'
    <2>1. \A j \in Keys : messages'[RetryKey(j)] = messages[RetryKey(j)]
      BY <1>15, KeysAreApart DEF Retries
    <2> QED
      BY <2>1 DEF IInv, MessagesFit, RemindersFollowFailures
  <1> QED
    BY <1>13, <1>14, <1>15, <1>16, <1>17 DEF IInv, MessagesFit

LEMMA DeliverInv ==
    ASSUME IInv, NEW t \in Threads, NEW outcome \in Outcomes, Deliver(t, outcome) PROVE IInv'
  <1>1. PICK d \in Desks : thread[t] = d /\ DeskFits(d) /\ d.pc = "send" /\ d.todo # <<>>
    BY ThreadStands DEF Deliver, At, DeskFits
  <1>2. Item(t) \in Told
    <2>1. Head(d.todo) \in All /\ IsNotice(Head(d.todo))
      BY <1>1, HeadTailProperties DEF Desks, DeskFits
    <2> QED
      BY <1>1, <2>1, KeysAreApart DEF Item
  <1>3. outcome.ok = TRUE \/ outcome.ok = FALSE
    <2>1. \/ outcome = [arrived |-> TRUE, ok |-> TRUE] \/ outcome = [arrived |-> TRUE, ok |-> FALSE]
          \/ outcome = [arrived |-> FALSE, ok |-> FALSE]
      BY DEF Outcomes
    <2> QED
      BY <2>1
  <1>4. PICK row \in Rows : row = Row(Item(t), outcome.ok)
    <2>1. Row(Item(t), TRUE) \in Rows /\ Row(Item(t), FALSE) \in Rows
      BY <1>2 DEF Rows, Row
    <2> QED
      BY <1>3, <2>1
  <1>5. RowFits(KeyOf(Item(t)), row)
    BY <1>3, <1>4 DEF RowFits, Row
  <1>6. failures' \in 0..MaxFailures
    BY DEF Deliver, IInv, MessagesFit
  <1> QED
    BY <1>4, <1>5, <1>6, SentInv DEF Deliver

\* A job gives up a notice: its key has no row that counts.
LEMMA DropInv ==
    ASSUME IInv, NEW t \in Threads, NEW outcome \in Outcomes, Drop(t, outcome) PROVE IInv'
  <1>1. failures' \in 0..MaxFailures
    BY OutboxAssumption DEF Drop, IInv, MessagesFit, OutboxAssumption
  <1> QED
    BY <1>1, SentInv DEF Drop

\* What a transaction that is lost had sent is orphaned.
LEMMA LoseInv ==
    ASSUME IInv, NEW t \in Threads, Lose(t), failures' \in 0..MaxFailures PROVE IInv'
  <1>1. PICK d \in Desks : thread[t] = d /\ DeskFits(d)
    BY ThreadStands
  <1>2. PICK q \in Desks : q = Blank("lost", <<>>)
    BY EmptySeq DEF Desks, Blank
  <1>3. q.pc = "lost" /\ q.mine = {} /\ q.rows = {} /\ Written(q) = {}
    BY <1>2 DEF Blank, Written
  <1>4. DeskFits(q) /\ thread' = [thread EXCEPT ![t] = q]
    BY <1>2, <1>3 DEF DeskFits, Lose
  <1>5. ThreadsFit'
    <2>1. /\ q.mine \intersect keys' = {}
          /\ \A u \in Threads \ {t} : /\ thread[u].mine \intersect keys' = {}
                                       /\ thread[u].mine \intersect q.mine = {}
      BY <1>3 DEF IInv, ThreadsFit, ClaimsExclude, Lose
    <2>2. ThreadsFit
      BY DEF IInv
    <2> QED
      BY <1>4, <2>1, <2>2, ThreadStep
  <1>6. LogFits' /\ RetriersFit'
    BY DEF IInv, LogFits, ConsumedIsLoggedOrDropped, RetriersFit, RunFits, Failed, Lose
  <1>7. /\ orphaned' \in [SendKeys -> Nat]
        /\ \A j \in SendKeys : orphaned'[j] = orphaned[j] + One(j \in Written(d))
    <2>1. Orphan(Written(d)) /\ MessagesFit
      BY <1>1 DEF Lose, Written, IInv
    <2> QED
      BY <2>1, OrphanCounts
  <1>8. EveryMessageIsAccountedFor'
    <2> SUFFICES ASSUME NEW j \in SendKeys
                 PROVE messages'[j] <= One(j \in keys') + orphaned'[j] + InFlight(j)'
      BY AccountOfNext
    <2>1. /\ InFlight(j)' = InFlight(j) + One(j \in Written(q)) - One(j \in Written(d))
          /\ InFlight(j) \in Nat /\ InFlight(j)' \in Nat
      BY <1>1, <1>4, ThreadsCount DEF IInv, ThreadsFit, Lose
    <2>2. InFlight(j)' = InFlight(j) - One(j \in Written(d))
      BY <1>3, <2>1 DEF One
    <2>3. messages[j] <= One(j \in keys) + orphaned[j] + InFlight(j)
      BY AccountOf DEF IInv, MessagesFit
    <2>4. keys' = keys /\ messages' = messages /\ orphaned'[j] = orphaned[j] + One(j \in Written(d))
      BY <1>7 DEF Lose
    <2>5. messages[j] \in Nat /\ orphaned[j] \in Nat
      BY DEF IInv, MessagesFit
    <2> QED
      BY <2>1, <2>2, <2>3, <2>4, <2>5 DEF One
  <1>9. RemindersFollowFailures'
    BY DEF IInv, MessagesFit, RemindersFollowFailures, Lose
  <1> QED
    BY <1>5, <1>6, <1>7, <1>8, <1>9 DEF IInv, MessagesFit, Lose

\* A commit brings the keys of the thread, and a row for each of them.
LEMMA FinishInv == ASSUME IInv, NEW t \in Threads, Finish(t) PROVE IInv'
  <1>1. PICK d \in Desks : thread[t] = d /\ DeskFits(d) /\ d.pc = "next"
    BY ThreadStands DEF Finish, At
  <1>2. PICK q \in Desks : q = Blank("done", <<>>)
    BY EmptySeq DEF Desks, Blank
  <1>3. q.pc = "done" /\ q.mine = {} /\ q.rows = {} /\ Written(q) = {}
    BY <1>2 DEF Blank, Written
  <1>4. DeskFits(q) /\ thread' = [thread EXCEPT ![t] = q]
    BY <1>2, <1>3 DEF DeskFits, Finish
  <1>5. keys' = keys \union d.mine /\ d.mine \in SUBSET (Keys \union Gates)
    BY <1>1 DEF Finish, Desks
  <1>6. /\ \A k \in d.mine : k \notin keys
        /\ \A k \in Keys : k \in d.mine <=> k \in Written(d)
    BY <1>1 DEF IInv, ThreadsFit, ClaimsExclude, DeskFits
  <1> DEFINE left == {k \in Keys : [key |-> k, row |-> NoRow] \in d.rows}
  <1>14. dropped' = dropped \union left /\ left \subseteq d.mine
    BY <1>1 DEF Finish, DeskFits, Written
  <1>7. /\ DOMAIN log' = Keys /\ log' = [k \in Keys |-> log'[k]]
        /\ \A k \in Keys \ d.mine : log'[k] = log[k]
        /\ \A k \in Keys \intersect d.mine :
              \/ log'[k] \in Rows /\ RowFits(k, log'[k]) /\ k \notin left
              \/ log'[k] = NoRow /\ k \in left
    <2>1. log' = [k \in Keys |-> IF \E w \in d.rows : w.key = k
                                   THEN (CHOOSE w \in d.rows : w.key = k).row ELSE log[k]]
      BY <1>1 DEF Finish
    <2>2. ASSUME NEW k \in Keys \ d.mine PROVE log'[k] = log[k]
      <3>1. ~ \E w \in d.rows : w.key = k
        BY <1>6 DEF Written
      <3> QED
        BY <2>1, <3>1
    <2>3. ASSUME NEW k \in Keys \intersect d.mine
          PROVE  \/ log'[k] \in Rows /\ RowFits(k, log'[k]) /\ k \notin left
                 \/ log'[k] = NoRow /\ k \in left
      <3>1. \E w \in d.rows : w.key = k
        BY <1>6 DEF Written
      <3>2. PICK w \in d.rows : w.key = k /\ w = CHOOSE v \in d.rows : v.key = k
        BY <3>1
      <3>3. log'[k] = w.row
        BY <2>1, <3>1, <3>2
      <3>4. w \in d.rows /\ w \in Writes /\ (w.row # NoRow => RowFits(w.key, w.row))
        BY <1>1, <3>1, <3>2 DEF Desks, DeskFits
      <3>5. k \in left <=> w.row = NoRow
        <4>1. w = [key |-> k, row |-> w.row]
          BY <3>2, <3>4 DEF Writes
        <4>2. k \in left => [key |-> k, row |-> NoRow] = w
          <5>1. [key |-> k, row |-> NoRow].key = k
            OBVIOUS
          <5> QED
            BY <1>1, <3>2, <3>4, <5>1 DEF DeskFits
        <4>3. k \in left => w.row = NoRow
          BY <4>2
        <4>4. w.row = NoRow => k \in left
          BY <3>4, <4>1
        <4> QED
          BY <4>3, <4>4
      <3> QED
        BY <3>2, <3>3, <3>4, <3>5 DEF Writes
    <2> QED
      BY <2>1, <2>2, <2>3
  <1>8. ThreadsFit'
    <2>1. /\ q.mine \intersect keys' = {}
          /\ \A u \in Threads \ {t} : /\ thread[u].mine \intersect keys' = {}
                                       /\ thread[u].mine \intersect q.mine = {}
      BY <1>1, <1>3, <1>5 DEF IInv, ThreadsFit, ClaimsExclude
    <2>2. ThreadsFit
      BY DEF IInv
    <2> QED
      BY <1>4, <2>1, <2>2, ThreadStep
  <1>9. LogFits'
    <2>1. keys' \subseteq SendKeys \union Gates
      BY <1>5 DEF IInv, LogFits, SendKeys
    <2>2. log' \in [Keys -> Rows \union {NoRow}]
      BY <1>7 DEF IInv, LogFits
    <2>3. \A k \in Keys : log'[k] # NoRow => RowFits(k, log'[k])
      BY <1>7 DEF IInv, LogFits
    <2>4. ASSUME NEW k \in Keys \intersect d.mine PROVE log'[k].logged <=> k \notin left
      <3> HIDE DEF left
      <3>1. ~NoRow.logged /\ \A row \in Rows : row.logged
        BY DEF Rows, NoRow
      <3> QED
        BY <1>7, <3>1
    <2>5. \A k \in Keys : k \in dropped => k \notin d.mine
      BY <1>6 DEF IInv, LogFits, ConsumedIsLoggedOrDropped
    <2>6. ASSUME NEW k \in Keys
          PROVE  /\ k \in keys' <=> log'[k].logged \/ k \in dropped'
                 /\ log'[k].logged => k \notin dropped'
      <3>1. CASE k \in d.mine
        BY <1>5, <1>14, <2>4, <2>5, <3>1
      <3>2. CASE k \notin d.mine
        BY <1>5, <1>7, <1>14, <3>2 DEF IInv, LogFits, ConsumedIsLoggedOrDropped
      <3> QED
        BY <3>1, <3>2
    <2>7. dropped' \subseteq Keys
      BY <1>14 DEF IInv, LogFits
    <2> QED
      BY <2>1, <2>2, <2>3, <2>6, <2>7 DEF LogFits, ConsumedIsLoggedOrDropped
  <1>10. \A k \in Keys : Failed(k) => log'[k] = log[k]
    BY <1>6, <1>7 DEF IInv, LogFits, ConsumedIsLoggedOrDropped, Failed
  <1>11. RetriersFit'
    <2>1. \A r \in Retriers : RunFits(retrier[r])'
      <3> SUFFICES ASSUME NEW r \in Retriers PROVE RunFits(retrier[r])'
        OBVIOUS
      <3>1. PICK e \in Runs : e = retrier[r]
        BY DEF IInv, RetriersFit
      <3>2. retrier'[r] = e /\ RunFits(e)
        BY <3>1 DEF Finish, IInv, RetriersFit
      <3>3. (\A k \in e.todo : k \in Keys) /\ (\A w \in e.rows : w.key \in Keys)
        BY DEF Runs
      <3>4. \A k \in Keys : Failed(k) => Failed(k)'
        BY <1>10 DEF Failed
      <3> QED
        BY <3>2, <3>3, <3>4 DEF RunFits
    <2> QED
      BY <2>1 DEF IInv, RetriersFit, Finish
  <1>12. EveryMessageIsAccountedFor'
    <2> SUFFICES ASSUME NEW j \in SendKeys
                 PROVE messages'[j] <= One(j \in keys') + orphaned'[j] + InFlight(j)'
      BY AccountOfNext
    <2>1. /\ InFlight(j)' = InFlight(j) + One(j \in Written(q)) - One(j \in Written(d))
          /\ InFlight(j) \in Nat /\ InFlight(j)' \in Nat
      BY <1>1, <1>4, ThreadsCount DEF IInv, ThreadsFit, Finish
    <2>2. InFlight(j)' = InFlight(j) - One(j \in Written(d))
      BY <1>3, <2>1 DEF One
    <2>3. One(j \in keys) + One(j \in Written(d)) <= One(j \in keys')
      <3>1. j \in Written(d) => j \in d.mine /\ j \notin keys
        BY <1>1, <1>6 DEF DeskFits
      <3> QED
        BY <1>5, <3>1 DEF One
    <2>4. messages[j] <= One(j \in keys) + orphaned[j] + InFlight(j)
      BY AccountOf DEF IInv, MessagesFit
    <2>5. messages' = messages /\ orphaned' = orphaned
      BY DEF Finish
    <2>6. messages[j] \in Nat /\ orphaned[j] \in Nat
      BY DEF IInv, MessagesFit
    <2> QED
      BY <2>1, <2>2, <2>3, <2>4, <2>5, <2>6 DEF One
  <1>13. RemindersFollowFailures'
    BY <1>10 DEF IInv, MessagesFit, RemindersFollowFailures, Finish, Failed
  <1> QED
    BY <1>8, <1>9, <1>11, <1>12, <1>13 DEF IInv, MessagesFit, Finish

---------------------------------------------------------------------------
(* A step of a retry run, which then is at q.                              *)

LEMMA RunStands ==
    ASSUME IInv, NEW r \in Retriers
    PROVE  retrier[r] \in Runs /\ RunFits(retrier[r])
  BY DEF IInv, RetriersFit

LEMMA RunStep ==
    ASSUME RetriersFit, NEW r \in Retriers, NEW q \in Runs, RunFits(q),
           retrier' = [retrier EXCEPT ![r] = q],
           \A k \in Keys : Failed(k) => Failed(k)'
    PROVE  RetriersFit'
  <1>1. /\ retrier' \in [Retriers -> Runs] /\ retrier'[r] = q
        /\ \A u \in Retriers \ {r} : retrier'[u] = retrier[u]
    BY DEF RetriersFit
  <1>2. ASSUME NEW u \in Retriers PROVE RunFits(retrier[u])'
    <2>1. PICK e \in Runs : e = retrier'[u] /\ RunFits(e)
      BY <1>1 DEF RetriersFit
    <2>2. (\A k \in e.todo : k \in Keys) /\ (\A w \in e.rows : w.key \in Keys)
      BY DEF Runs
    <2> QED
      BY <2>1, <2>2 DEF RunFits
  <1> QED
    BY <1>1, <1>2 DEF RetriersFit

\* A step that leaves the database and the messages alone.
LEMMA RunMoves ==
    ASSUME IInv, NEW r \in Retriers, NEW q \in Runs, RunFits(q),
           retrier' = [retrier EXCEPT ![r] = q], q.mine = retrier[r].mine,
           UNCHANGED <<keys, log, thread, messages, arrived, orphaned, dropped, failures>>
    PROVE  IInv'
  <1>1. RetriersFit'
    <2>1. \A k \in Keys : Failed(k) => Failed(k)'
      BY DEF Failed
    <2> QED
      BY <2>1, RunStep DEF IInv
  <1>2. ThreadsFit' /\ LogFits'
    BY DEF IInv, ThreadsFit, ClaimsExclude, LogFits, ConsumedIsLoggedOrDropped
  <1>3. ASSUME NEW k PROVE InFlight(k)' = InFlight(k)
    <2>1. /\ InFlight(k)' = InFlight(k) + One(k \in q.mine) - One(k \in retrier[r].mine)
          /\ InFlight(k) \in Nat /\ InFlight(k)' \in Nat
      BY RunsCount DEF IInv, RetriersFit
    <2> QED
      BY <2>1 DEF One
  <1>4. EveryMessageIsAccountedFor'
    BY <1>3 DEF IInv, MessagesFit, EveryMessageIsAccountedFor
  <1>5. MessagesFit'
    BY <1>4 DEF IInv, MessagesFit, RemindersFollowFailures
  <1> QED
    BY <1>1, <1>2, <1>5 DEF IInv

LEMMA ScanInv == ASSUME IInv, NEW r \in Retriers, Scan(r) PROVE IInv'
  <1>1. PICK failing \in SUBSET Keys : failing = {k \in Keys : log[k].logged /\ log[k].retry}
    OBVIOUS
  <1>2. PICK q \in Runs : q = Blank("loop", failing)
    BY DEF Runs, Blank
  <1>3. q.pc = "loop" /\ q.todo = failing /\ q.mine = {} /\ q.rows = {}
    BY <1>2 DEF Blank
  <1>4. \A k \in failing : Failed(k)
    BY <1>1 DEF IInv, LogFits, RowFits, Failed, NoRow
  <1>5. RunFits(q)
    BY <1>3, <1>4 DEF RunFits
  <1>6. retrier[r].mine = {}
    BY RunStands DEF Scan, RunFits
  <1>7. retrier' = [retrier EXCEPT ![r] = q]
    BY <1>1, <1>2 DEF Scan
  <1> QED
    BY <1>3, <1>5, <1>6, <1>7, RunMoves DEF Scan

LEMMA GiveUpInv == ASSUME IInv, NEW r \in Retriers, NEW k \in Keys, GiveUp(r, k) PROVE IInv'
  <1>1. PICK d \in Runs : retrier[r] = d /\ RunFits(d) /\ d.pc = "loop" /\ k \in d.todo
    BY RunStands DEF GiveUp
  <1>2. PICK w \in [key : Keys, retry : BOOLEAN] : w = [key |-> k, retry |-> FALSE]
    OBVIOUS
  <1>3. PICK q \in Runs : q = [d EXCEPT !.todo = d.todo \ {k}, !.rows = d.rows \union {w}]
    BY DEF Runs
  <1>4. /\ q.pc = "loop" /\ q.todo = d.todo \ {k} /\ q.mine = d.mine
        /\ q.rows = d.rows \union {w}
    BY <1>1, <1>3 DEF Runs
  <1>5. RunFits(q)
    BY <1>1, <1>2, <1>4 DEF RunFits
  <1>6. retrier' = [retrier EXCEPT ![r] = q]
    BY <1>1, <1>2, <1>3 DEF GiveUp
  <1> QED
    BY <1>1, <1>4, <1>5, <1>6, RunMoves DEF GiveUp

LEMMA RemindInv ==
    ASSUME IInv, NEW r \in Retriers, NEW k \in Keys, NEW outcome \in Outcomes,
           Remind(r, k, outcome)
    PROVE  IInv'
  <1>1. PICK d \in Runs : retrier[r] = d /\ RunFits(d) /\ d.pc = "loop" /\ k \in d.todo
    BY RunStands DEF Remind
  <1>2. Failed(k) /\ RetryKey(k) \notin d.mine /\ RetryKey(k) \in Retries
    BY <1>1 DEF RunFits, Retries
  <1>3. PICK w \in [key : Keys, retry : BOOLEAN] : w = [key |-> k, retry |-> ~outcome.ok]
    <2>1. (~outcome.ok) \in BOOLEAN
      OBVIOUS
    <2> QED
      BY <2>1
  <1>4. PICK q \in Runs : q = [d EXCEPT !.todo = d.todo \ {k},
                                      !.mine = d.mine \union {RetryKey(k)},
                                      !.rows = d.rows \union {w}]
    <2>1. /\ d.todo \ {k} \in SUBSET Keys
          /\ d.mine \union {RetryKey(k)} \in SUBSET Retries
          /\ d.rows \union {w} \in SUBSET [key : Keys, retry : BOOLEAN]
      BY <1>2 DEF Runs
    <2> QED
      BY <2>1 DEF Runs
  <1>5. /\ q.pc = "loop" /\ q.todo = d.todo \ {k} /\ q.mine = d.mine \union {RetryKey(k)}
        /\ q.rows = d.rows \union {w}
    BY <1>1, <1>4 DEF Runs
  <1>6. RunFits(q)
    <2>1. \A j \in q.todo : j \in Keys /\ RetryKey(j) # RetryKey(k)
      BY <1>5, KeysAreApart DEF Runs
    <2>2. \A j \in q.todo : Failed(j) /\ RetryKey(j) \notin q.mine
      BY <1>1, <1>5, <2>1 DEF RunFits
    <2>3. \A v \in q.rows : Failed(v.key)
      BY <1>1, <1>2, <1>3, <1>5 DEF RunFits
    <2> QED
      BY <1>5, <2>2, <2>3 DEF RunFits
  <1>7. retrier' = [retrier EXCEPT ![r] = q]
    BY <1>1, <1>3, <1>4 DEF Remind
  <1>8. RetriersFit'
    <2>1. \A j \in Keys : Failed(j) => Failed(j)'
      BY DEF Failed, Remind
    <2> QED
      BY <1>6, <1>7, <2>1, RunStep DEF IInv
  <1>9. ThreadsFit' /\ LogFits'
    BY DEF IInv, ThreadsFit, ClaimsExclude, LogFits, ConsumedIsLoggedOrDropped, Remind
  <1>10. /\ messages' \in [SendKeys -> Nat] /\ arrived' \subseteq Told
         /\ \A j \in SendKeys : messages'[j] <= messages[j] + One(j = RetryKey(k))
         /\ \A j \in SendKeys : j # RetryKey(k) => messages'[j] = messages[j]
    <2>1. RetryKey(k) \in SendKeys /\ {} \in SUBSET Told /\ MessagesFit
      BY <1>2, KeysAreApart DEF IInv
    <2>2. Message(RetryKey(k), {}, outcome)
      BY DEF Remind
    <2> QED
      BY <2>1, <2>2, MessageCounts
  <1>11. EveryMessageIsAccountedFor'
    <2> SUFFICES ASSUME NEW j \in SendKeys
                 PROVE messages'[j] <= One(j \in keys') + orphaned'[j] + InFlight(j)'
      BY AccountOfNext
    <2>1. /\ InFlight(j)' = InFlight(j) + One(j \in q.mine) - One(j \in d.mine)
          /\ InFlight(j) \in Nat /\ InFlight(j)' \in Nat
      <3>1. thread' = thread /\ retrier \in [Retriers -> Runs]
        BY DEF IInv, RetriersFit, Remind
      <3> QED
        BY <1>1, <1>7, <3>1, RunsCount
    <2>2. InFlight(j)' = InFlight(j) + One(j = RetryKey(k))
      BY <1>2, <1>5, <2>1 DEF One
    <2>3. messages[j] <= One(j \in keys) + orphaned[j] + InFlight(j)
      BY AccountOf DEF IInv, MessagesFit
    <2>4. keys' = keys /\ orphaned' = orphaned
      BY DEF Remind
    <2>5. messages[j] \in Nat /\ messages'[j] \in Nat /\ orphaned[j] \in Nat
      BY <1>10 DEF IInv, MessagesFit
    <2>6. messages'[j] <= messages[j] + One(j = RetryKey(k))
      BY <1>10
    <2> QED
      BY <2>1, <2>2, <2>3, <2>4, <2>5, <2>6 DEF One
  <1>12. RemindersFollowFailures'
    <2>1. ASSUME NEW j \in Keys, messages'[RetryKey(j)] > 0 PROVE Failed(j)
      <3>1. CASE j = k
        BY <1>2, <3>1
      <3>2. CASE j # k
        <4>1. RetryKey(j) \in SendKeys /\ RetryKey(j) # RetryKey(k)
          BY <3>2, KeysAreApart DEF Retries
        <4> QED
          BY <1>10, <2>1, <4>1 DEF IInv, MessagesFit, RemindersFollowFailures, Failed
      <3> QED
        BY <3>1, <3>2
    <2> QED
      BY <2>1 DEF RemindersFollowFailures, Failed, Remind
  <1> QED
    BY <1>8, <1>9, <1>10, <1>11, <1>12 DEF IInv, MessagesFit, Remind

\* A commit brings the keys of the retries and settles their rows.
LEMMA FinishRetryInv == ASSUME IInv, NEW r \in Retriers, FinishRetry(r) PROVE IInv'
  <1>1. PICK d \in Runs : retrier[r] = d /\ RunFits(d)
    BY RunStands
  <1>2. PICK q \in Runs : q = Blank("idle", {})
    BY DEF Runs, Blank
  <1>3. q.pc = "idle" /\ q.todo = {} /\ q.mine = {} /\ q.rows = {}
    BY <1>2 DEF Blank
  <1>4. RunFits(q) /\ retrier' = [retrier EXCEPT ![r] = q]
    BY <1>2, <1>3 DEF RunFits, FinishRetry
  <1>5. /\ keys' = keys \union d.mine /\ d.mine \in SUBSET Retries
        /\ \A k \in d.mine : k \notin keys
    BY <1>1 DEF FinishRetry, Runs
  <1>6. /\ log' \in [Keys -> Rows \union {NoRow}]
        /\ \A k \in Keys :
             \/ log'[k] = log[k]
             \/ /\ Failed(k) /\ log'[k] # NoRow
                /\ log'[k].logged /\ log'[k].notice = log[k].notice
                /\ log'[k].reached = log[k].reached
    <2>1. log' = [k \in Keys |-> IF \E w \in d.rows : w.key = k
                                   THEN [log[k] EXCEPT !.retry =
                                           (CHOOSE w \in d.rows : w.key = k).retry]
                                   ELSE log[k]]
      BY <1>1 DEF FinishRetry
    <2>2. ASSUME NEW k \in Keys, \E w \in d.rows : w.key = k
          PROVE  /\ log'[k] \in Rows /\ Failed(k) /\ log'[k] # NoRow
                 /\ log'[k].logged /\ log'[k].notice = log[k].notice
                 /\ log'[k].reached = log[k].reached
      <3>1. PICK w \in d.rows : w.key = k /\ w = CHOOSE v \in d.rows : v.key = k
        BY <2>2
      <3>2. w.retry \in BOOLEAN /\ Failed(k)
        BY <1>1, <3>1 DEF Runs, RunFits
      <3>3. log[k] \in Rows
        BY <3>2 DEF Failed, IInv, LogFits, NoRow
      <3>4. log'[k] = [log[k] EXCEPT !.retry = w.retry]
        BY <2>1, <2>2, <3>1
      <3>5. log'[k] \in Rows
        BY <3>2, <3>3, <3>4 DEF Rows
      <3>6. log'[k].notice = log[k].notice /\ log'[k].reached = log[k].reached
        BY <3>3, <3>4 DEF Rows
      <3>7. log'[k].logged /\ log'[k] # NoRow
        <4>1. log'[k].logged = TRUE
          BY <3>5 DEF Rows
        <4>2. ~NoRow.logged
          BY DEF NoRow
        <4> QED
          BY <4>1, <4>2
      <3> QED
        BY <3>2, <3>5, <3>6, <3>7
    <2>3. ASSUME NEW k \in Keys, ~ \E w \in d.rows : w.key = k PROVE log'[k] = log[k]
      BY <2>1, <2>3
    <2>4. \A k \in Keys : log'[k] \in Rows \union {NoRow}
      BY <2>2, <2>3 DEF IInv, LogFits
    <2>5. log' \in [Keys -> Rows \union {NoRow}]
      BY <2>1, <2>4
    <2> QED
      BY <2>2, <2>3, <2>5
  <1>7. RetriersFit'
    <2>1. \A k \in Keys : Failed(k) => Failed(k)'
      BY <1>6 DEF Failed
    <2> QED
      BY <1>4, <2>1, RunStep DEF IInv
  <1>8. ThreadsFit'
    <2>1. ASSUME NEW t \in Threads PROVE thread[t].mine \intersect keys' = {}
      BY <1>5, KeysAreApart DEF IInv, ThreadsFit, ClaimsExclude, Desks
    <2> QED
      BY <2>1 DEF IInv, ThreadsFit, ClaimsExclude, FinishRetry
  <1>9. LogFits'
    <2>1. keys' \subseteq SendKeys \union Gates
      BY <1>5, KeysAreApart DEF IInv, LogFits
    <2>2. \A k \in Keys : log'[k] # NoRow => RowFits(k, log'[k])
      <3> SUFFICES ASSUME NEW k \in Keys, log'[k] # NoRow PROVE RowFits(k, log'[k])
        OBVIOUS
      <3>1. CASE log'[k] = log[k]
        BY <3>1 DEF IInv, LogFits
      <3>2. CASE log'[k] # log[k]
        <4>1. /\ Failed(k) /\ log'[k].notice = log[k].notice
              /\ log'[k].reached = log[k].reached
          BY <1>6, <3>2
        <4>2. RowFits(k, log[k]) /\ ~log[k].reached
          BY <4>1 DEF Failed, IInv, LogFits, NoRow
        <4> QED
          BY <4>1, <4>2 DEF RowFits
      <3> QED
        BY <3>1, <3>2
    <2>3. \A k \in Keys : k \in keys' <=> k \in keys
      BY <1>5, KeysAreApart
    <2>4. \A k \in Keys : log[k].logged <=> log'[k].logged
      BY <1>6 DEF Failed
    <2>5. dropped' = dropped
      BY DEF FinishRetry
    <2>6. ConsumedIsLoggedOrDropped'
      BY <2>3, <2>4, <2>5 DEF IInv, LogFits, ConsumedIsLoggedOrDropped
    <2>7. dropped' \subseteq Keys
      BY <2>5 DEF IInv, LogFits
    <2> QED
      BY <1>6, <2>1, <2>2, <2>6, <2>7 DEF LogFits
  <1>10. EveryMessageIsAccountedFor'
    <2> SUFFICES ASSUME NEW j \in SendKeys
                 PROVE messages'[j] <= One(j \in keys') + orphaned'[j] + InFlight(j)'
      BY AccountOfNext
    <2>1. /\ InFlight(j)' = InFlight(j) + One(j \in q.mine) - One(j \in d.mine)
          /\ InFlight(j) \in Nat /\ InFlight(j)' \in Nat
      <3>1. thread' = thread /\ retrier \in [Retriers -> Runs]
        BY DEF IInv, RetriersFit, FinishRetry
      <3> QED
        BY <1>1, <1>4, <3>1, RunsCount
    <2>2. InFlight(j)' = InFlight(j) - One(j \in d.mine)
      BY <1>3, <2>1 DEF One
    <2>3. One(j \in keys) + One(j \in d.mine) <= One(j \in keys')
      BY <1>5 DEF One
    <2>4. messages[j] <= One(j \in keys) + orphaned[j] + InFlight(j)
      BY AccountOf DEF IInv, MessagesFit
    <2>5. messages' = messages /\ orphaned' = orphaned
      BY DEF FinishRetry
    <2>6. messages[j] \in Nat /\ orphaned[j] \in Nat
      BY DEF IInv, MessagesFit
    <2> QED
      BY <2>1, <2>2, <2>3, <2>4, <2>5, <2>6 DEF One
  <1>11. RemindersFollowFailures'
    BY <1>6 DEF IInv, MessagesFit, RemindersFollowFailures, FinishRetry, Failed
  <1> QED
    BY <1>7, <1>8, <1>9, <1>10, <1>11 DEF IInv, MessagesFit, FinishRetry

\* The reminders of a run that is rolled back are orphaned.
LEMMA RollBackInv ==
    ASSUME IInv, NEW r \in Retriers, RollBack(r), failures' \in 0..MaxFailures PROVE IInv'
  <1>1. PICK d \in Runs : retrier[r] = d /\ RunFits(d)
    BY RunStands
  <1>2. PICK q \in Runs : q = Blank("idle", {})
    BY DEF Runs, Blank
  <1>3. q.pc = "idle" /\ q.todo = {} /\ q.mine = {} /\ q.rows = {}
    BY <1>2 DEF Blank
  <1>4. RunFits(q) /\ retrier' = [retrier EXCEPT ![r] = q]
    BY <1>2, <1>3 DEF RunFits, RollBack
  <1>5. RetriersFit'
    <2>1. \A k \in Keys : Failed(k) => Failed(k)'
      BY DEF Failed, RollBack
    <2> QED
      BY <1>4, <2>1, RunStep DEF IInv
  <1>6. ThreadsFit' /\ LogFits'
    BY DEF IInv, ThreadsFit, ClaimsExclude, LogFits, ConsumedIsLoggedOrDropped, RollBack
  <1>7. /\ orphaned' \in [SendKeys -> Nat]
        /\ \A j \in SendKeys : orphaned'[j] = orphaned[j] + One(j \in d.mine)
    <2>1. Orphan(d.mine) /\ MessagesFit
      BY <1>1 DEF RollBack, IInv
    <2> QED
      BY <2>1, OrphanCounts
  <1>8. EveryMessageIsAccountedFor'
    <2> SUFFICES ASSUME NEW j \in SendKeys
                 PROVE messages'[j] <= One(j \in keys') + orphaned'[j] + InFlight(j)'
      BY AccountOfNext
    <2>1. /\ InFlight(j)' = InFlight(j) + One(j \in q.mine) - One(j \in d.mine)
          /\ InFlight(j) \in Nat /\ InFlight(j)' \in Nat
      <3>1. thread' = thread /\ retrier \in [Retriers -> Runs]
        BY DEF IInv, RetriersFit, RollBack
      <3> QED
        BY <1>1, <1>4, <3>1, RunsCount
    <2>2. InFlight(j)' = InFlight(j) - One(j \in d.mine)
      BY <1>3, <2>1 DEF One
    <2>3. messages[j] <= One(j \in keys) + orphaned[j] + InFlight(j)
      BY AccountOf DEF IInv, MessagesFit
    <2>4. keys' = keys /\ messages' = messages /\ orphaned'[j] = orphaned[j] + One(j \in d.mine)
      BY <1>7 DEF RollBack
    <2>5. messages[j] \in Nat /\ orphaned[j] \in Nat
      BY DEF IInv, MessagesFit
    <2> QED
      BY <2>1, <2>2, <2>3, <2>4, <2>5 DEF One
  <1>9. RemindersFollowFailures'
    BY DEF IInv, MessagesFit, RemindersFollowFailures, RollBack
  <1> QED
    BY <1>5, <1>6, <1>7, <1>8, <1>9 DEF IInv, MessagesFit, RollBack

---------------------------------------------------------------------------
(* The theorems.                                                           *)

LEMMA InitInv == ASSUME Init PROVE IInv
  <1>1. ThreadsFit
    <2>1. PICK q \in [Threads -> Desks] : q = [t \in Threads |-> Blank("next", Work[t])]
      BY WorkIsOfAll DEF Desks, Blank
    <2>2. thread = q
      BY <2>1 DEF Init
    <2>3. \A t \in Threads : q[t].pc = "next" /\ q[t].mine = {} /\ q[t].rows = {}
      BY <2>1 DEF Blank
    <2>4. \A t \in Threads : DeskFits(q[t])
      BY <2>3 DEF DeskFits, Written
    <2> QED
      BY <2>2, <2>3, <2>4 DEF ThreadsFit, ClaimsExclude
  <1>2. LogFits
    BY DEF Init, LogFits, ConsumedIsLoggedOrDropped, NoRow
  <1>3. RetriersFit
    <2>1. PICK q \in [Retriers -> Runs] : q = [r \in Retriers |-> Blank("idle", {})]
      BY DEF Runs, Blank
    <2>2. retrier = q
      BY <2>1 DEF Init
    <2>3. \A r \in Retriers : q[r].todo = {} /\ q[r].mine = {} /\ q[r].rows = {}
      BY <2>1 DEF Blank
    <2> QED
      BY <2>2, <2>3 DEF RetriersFit, RunFits
  <1>4. MessagesFit
    <2>1. \A k \in SendKeys : messages[k] = 0 /\ orphaned[k] = 0
      BY DEF Init
    <2>2. RemindersFollowFailures
      BY <2>1, KeysAreApart DEF Retries, RemindersFollowFailures
    <2>3. EveryMessageIsAccountedFor
      <3> SUFFICES ASSUME NEW k \in SendKeys
                   PROVE messages[k] <= One(k \in keys) + orphaned[k] + InFlight(k)
        BY AccountOf
      <3>1. InFlight(k) \in Nat
        BY InFlightIs
      <3> QED
        BY <2>1, <3>1 DEF One
    <2> QED
      BY <2>2, <2>3, OutboxAssumption DEF OutboxAssumption, Init, MessagesFit
  <1> QED
    BY <1>1, <1>2, <1>3, <1>4 DEF IInv

LEMMA StepInv == IInv /\ [Next]_vars => IInv'
  <1> SUFFICES ASSUME IInv, [Next]_vars PROVE IInv'
    OBVIOUS
  <1>1. failures \in 0..MaxFailures /\ MaxFailures \in Nat
    BY OutboxAssumption DEF IInv, MessagesFit, OutboxAssumption
  <1>2. ASSUME NEW t \in Threads, Run(t) PROVE IInv'
    <2>1. CASE Look(t)
      BY <2>1, LookInv
    <2>2. CASE Insert(t)
      BY <2>2, InsertInv
    <2>3. CASE CollideInsert(t)
      BY <1>1, <2>3, LoseInv DEF CollideInsert
    <2>4. CASE Finish(t)
      BY <2>4, FinishInv
    <2>5. CASE \E outcome \in Outcomes : Deliver(t, outcome)
      BY <2>5, DeliverInv
    <2> QED
      BY <1>2, <2>1, <2>2, <2>3, <2>4, <2>5 DEF Run
  <1>3. ASSUME NEW t \in Threads, Fail(t) PROVE IInv'
    <2>1. CASE Abort(t)
      <3>1. Lose(t) /\ failures' \in 0..MaxFailures
        BY <1>1, <2>1 DEF Abort
      <3> QED
        BY <3>1, LoseInv
    <2> QED
      BY <1>3, <2>1, SkipInv, DropInv DEF Fail
  <1>4. ASSUME NEW r \in Retriers, Retry(r) PROVE IInv'
    <2>1. CASE Scan(r)
      BY <2>1, ScanInv
    <2>2. CASE FinishRetry(r)
      BY <2>2, FinishRetryInv
    <2>3. CASE Collide(r)
      BY <1>1, <2>3, RollBackInv DEF Collide
    <2>4. CASE \E k \in Keys : GiveUp(r, k)
      BY <2>4, GiveUpInv
    <2>5. CASE \E k \in Keys, outcome \in Outcomes : Remind(r, k, outcome)
      BY <2>5, RemindInv
    <2> QED
      BY <1>4, <2>1, <2>2, <2>3, <2>4, <2>5 DEF Retry
  <1>5. ASSUME NEW r \in Retriers, AbortRetry(r) PROVE IInv'
    <2>1. RollBack(r) /\ failures' \in 0..MaxFailures
      BY <1>1, <1>5 DEF AbortRetry
    <2> QED
      BY <2>1, RollBackInv
  <1>6. CASE UNCHANGED vars
    <2>1. \A k : InFlight(k)' = InFlight(k)
      BY <1>6 DEF vars, InFlight
    <2> QED
      BY <1>6, <2>1 DEF vars, IInv, ThreadsFit, ClaimsExclude, LogFits, ConsumedIsLoggedOrDropped,
         RetriersFit, RunFits, Failed, MessagesFit, RemindersFollowFailures,
         EveryMessageIsAccountedFor
  <1> QED
    BY <1>2, <1>3, <1>4, <1>5, <1>6 DEF Next

\* The inductive invariant holds in every reachable state.
THEOREM Invariant == Spec => []IInv
  BY InitInv, StepInv, PTL DEF Spec

\* Every variable has the values the code can give it.
THEOREM TypeCorrect == Spec => []TypeOK
  <1>1. IInv => TypeOK
    <2> SUFFICES ASSUME IInv PROVE TypeOK
      OBVIOUS
    <2>1. /\ keys \subseteq SendKeys \union Gates
          /\ arrived \subseteq Told /\ dropped \subseteq Keys /\ failures \in 0..MaxFailures
      BY DEF IInv, LogFits, MessagesFit
    <2>2. ASSUME NEW k \in Keys, log[k] # NoRow
          PROVE  /\ log[k].logged /\ log[k].notice \in Told /\ KeyOf(log[k].notice) = k
                 /\ log[k].reached \in BOOLEAN /\ log[k].retry \in BOOLEAN
      BY <2>2 DEF IInv, LogFits, Rows, RowFits
    <2>3. \A t \in Threads : /\ thread[t].pc \in {"next", "insert", "send", "done", "lost"}
                             /\ thread[t].mine \subseteq Keys \union Gates
      BY DEF IInv, ThreadsFit, Desks
    <2>4. \A r \in Retriers : /\ retrier[r].pc \in {"idle", "loop"}
                              /\ retrier[r].todo \subseteq Keys
                              /\ retrier[r].mine \subseteq SendKeys
      BY KeysAreApart DEF IInv, RetriersFit, Runs
    <2> QED
      BY <2>1, <2>2, <2>3, <2>4 DEF TypeOK
  <1> QED
    BY <1>1, Invariant, PTL

\* A consumed key has its delivery row and a row its key, but for the
\* notices that raised in a job: the transaction that consumes a key in
\* _try_consume_idempotency is the one that logs.
THEOREM ConsumedAlwaysLoggedOrDropped == Spec => []ConsumedIsLoggedOrDropped
  <1>1. IInv => ConsumedIsLoggedOrDropped
    BY DEF IInv, LogFits
  <1> QED
    BY <1>1, Invariant, PTL

\* A reminder is sent only of a notice that the log has as delivered by no
\* channel: the retry job's WHERE, read by however many runs of it at once.
THEOREM RemindersAlwaysFollowFailures == Spec => []RemindersFollowFailures
  <1>1. IInv => RemindersFollowFailures
    BY DEF IInv, MessagesFit
  <1> QED
    BY <1>1, Invariant, PTL

\* Nothing is sent twice under a key, but by a transaction that is open or
\* was rolled back: what the idempotency keys promise, for any number of
\* threads and retry runs.
THEOREM MessagesAlwaysAccountedFor == Spec => []EveryMessageIsAccountedFor
  <1>1. IInv => EveryMessageIsAccountedFor
    BY DEF IInv, MessagesFit
  <1> QED
    BY <1>1, Invariant, PTL
=============================================================================
