-------------------------- MODULE SessionHandleProofs --------------------------
(***************************************************************************)
(* Safety of the session handle for any number of tasks that hold clones   *)
(* of it, whatever they do with the lock after the handler has returned.   *)
(***************************************************************************)
EXTENDS SessionHandle, FiniteSetTheorems, SequenceTheorems, TLAPS

-------------------------------------------------------------------------------
(* The inductive invariant *)

\* Every variable keeps its type.
TypeOK ==
    /\ mw \in {"extract", "handling", "check", "saving", "saved", "clean", "done", "dropped"}
    /\ pc \in [Tasks -> {"start", "marked", "locking", "end"}]
    /\ data \in [Tasks -> 0..Whole]
    /\ dirty \in BOOLEAN
    /\ held \in SUBSET Asks
    /\ queue \in Seq(Asks)
    /\ store \in [Tasks -> 0..Whole]
    /\ reply \in {"none", "ok", "no session", "error"}
    /\ early \in SUBSET Parties
    /\ aborted \in SUBSET Tasks

\* All that the lock was asked for and that is not over yet.
Asked(h, q) == h \cup {q[i] : i \in 1..Len(q)}

\* A writer holds the lock alone, and nobody asks for it again before its last
\* ask is over.
Orderly(h, q) ==
    /\ \A a \in h : a.mode = "write" => h = {a}
    /\ \A a \in h : \A i \in 1..Len(q) : q[i].who # a.who
    /\ \A i, j \in 1..Len(q) : q[i].who = q[j].who => i = j

LockOK == Orderly(held, queue)

\* Who asks is at the place in its code where it does.
PlaceOK ==
    \A a \in Asked(held, queue) :
        /\ a.who \in Tasks => pc[a.who] = "locking"
        /\ a.who = Middleware => mw \in {"saving", "saved", "clean"} /\ a.mode = "read"

\* Half of a write is seen under the lock of its task only, or after the task was
\* dropped.
HalfOK ==
    \A t \in Tasks : data[t] \in {0, Whole} \/ Ask(t, "write") \in held \/ t \in aborted

\* Until the middleware looks at the flag nothing is stored, and where it is down
\* nothing was written, nor is about to be.
FlagOK ==
    mw \in {"extract", "handling", "check"} =>
        /\ \A t \in Tasks : store[t] = 0
        /\ mw = "extract" => \A t \in Tasks : pc[t] = "start"
        /\ ~ dirty =>
             /\ \A t \in Tasks : pc[t] # "marked" /\ data[t] = 0
             /\ \A a \in Asked(held, queue) : a.mode # "write"

\* Who was given the lock early holds it or is through with it.
EarlyOK ==
    \A t \in early \cap Tasks :
        /\ pc[t] \in {"locking", "end"}
        /\ pc[t] = "locking" => \E a \in held : a.who = t

\* Once the value was stored, the early writes are in it, and their writers are
\* through.
SettledOK ==
    /\ reply = "ok" => mw = "done"
    /\ mw \in {"saved", "clean"} \/ reply = "ok" =>
         \A t \in early \cap Tasks : store[t] = data[t] /\ Ask(t, "write") \notin held

IInv ==
    /\ TypeOK
    /\ LockOK
    /\ PlaceOK
    /\ HalfOK
    /\ FlagOK
    /\ EarlyOK
    /\ SettledOK
    /\ SavedIsWhole

-------------------------------------------------------------------------------
(* The lock *)

\* A set of numbers up to N has a greatest one: the intervals from its elements to
\* N are finite, and inclusion is well founded on finite sets.
LEMMA GreatestElement ==
    ASSUME NEW N \in Nat, NEW T \in SUBSET (1..N), T # {}
    PROVE  \E m \in T : \A n \in T : n <= m
<1> DEFINE Above == {n..N : n \in T}
<1>1. \A n \in T : n..N \in FiniteSubsetsOf(Nat)
  <2> TAKE n \in T
  <2>1. n \in Int /\ N \in Int /\ n..N \in SUBSET Nat
      OBVIOUS
  <2>2. IsFiniteSet(n..N)
      BY <2>1, FS_Interval
  <2> QED
      BY <2>1, <2>2 DEF FiniteSubsetsOf
<1>2. Above \subseteq FiniteSubsetsOf(Nat) /\ Above # {}
    BY <1>1
<1> HIDE DEF Above
<1>3. PICK least \in Above : \A b \in Above : <<b, least>> \notin StrictSubsetOrdering(Nat)
    BY <1>2, FS_StrictSubsetOrderingWellFounded, WFMin
<1>4. PICK m \in T : least = m..N
    BY DEF Above
<1>5. ASSUME NEW n \in T, m < n PROVE FALSE
  <2>1. n..N \in Above
      BY DEF Above
  <2>2. n..N \subseteq m..N /\ n..N # m..N /\ n..N \in SUBSET Nat /\ m..N \in SUBSET Nat
      BY <1>5
  <2>3. <<n..N, least>> \in StrictSubsetOrdering(Nat)
      BY <1>4, <2>2 DEF StrictSubsetOrdering
  <2> QED
      BY <1>3, <2>1, <2>3
<1> QED
    BY <1>5

\* The holders and the waiters after n are let in.
InWith(h, q, n) == h \cup {q[i] : i \in 1..n}
Behind(q, n) == SubSeq(q, n + 1, Len(q))

\* n may be let in: readers while no writer holds the lock, anybody alone.
MayEnter(h, q, n) ==
    /\ n \in 0..Len(q)
    /\ \/ n = 0
       \/ n = 1 /\ h = {}
       \/ (\A i \in 1..n : q[i].mode = "read") /\ \A a \in h : a.mode # "write"

\* Readers are let in from the head of the queue while no writer holds the lock, a
\* writer only when nobody does.
LEMMA AdmittedProperties ==
    ASSUME NEW h \in SUBSET Asks, NEW q \in Seq(Asks)
    PROVE  MayEnter(h, q, Admitted(h, q))
<1> USE DEF MayEnter
<1>1. Len(q) \in Nat
    BY LenProperties
<1> DEFINE readers == {n \in 1..Len(q) : \A i \in 1..n : q[i].mode = "read"}
<1>2. CASE \E a \in h : a.mode = "write"
    BY <1>1, <1>2 DEF Admitted
<1>3. CASE (\A a \in h : a.mode # "write") /\ readers # {}
  <2>1. readers \in SUBSET (1..Len(q))
      OBVIOUS
  <2>2. PICK n \in readers : \A m \in readers : m <= n
      BY <1>1, <1>3, <2>1, GreatestElement
  <2>3. (CHOOSE k \in readers : \A m \in readers : m <= k) \in readers
      BY <2>2
  <2>4. Admitted(h, q) = CHOOSE k \in readers : \A m \in readers : m <= k
      BY <1>3 DEF Admitted
  <2>5. Admitted(h, q) \in readers
      BY <2>3, <2>4
  <2> QED
      BY <1>1, <1>3, <2>5
<1>4. CASE (\A a \in h : a.mode # "write") /\ readers = {} /\ h = {} /\ q # <<>>
  <2>1. Admitted(h, q) = 1
      BY <1>4 DEF Admitted
  <2>2. Len(q) # 0
      BY <1>4, EmptySeq
  <2> QED
      BY <1>1, <1>4, <2>1, <2>2
<1>5. CASE (\A a \in h : a.mode # "write") /\ readers = {} /\ ~ (h = {} /\ q # <<>>)
  <2>1. Admitted(h, q) = 0
      BY <1>5 DEF Admitted
  <2> QED
      BY <1>1, <2>1
<1> QED
    BY <1>2, <1>3, <1>4, <1>5

\* The lock stays orderly when those at the head of the queue are let in, and
\* nobody is forgotten.
LEMMA LetIn ==
    ASSUME NEW h \in SUBSET Asks, NEW q \in Seq(Asks), Orderly(h, q),
           NEW n, MayEnter(h, q, n)
    PROVE  /\ InWith(h, q, n) \in SUBSET Asks
           /\ Behind(q, n) \in Seq(Asks)
           /\ Orderly(InWith(h, q, n), Behind(q, n))
           /\ Asked(InWith(h, q, n), Behind(q, n)) = Asked(h, q)
<1>0. PICK g, p : g = h \cup {q[i] : i \in 1..n} /\ p = SubSeq(q, n + 1, Len(q))
    OBVIOUS
<1>1. Len(q) \in Nat /\ n \in Nat /\ n <= Len(q)
    BY LenProperties DEF MayEnter
<1>2. \A i \in 1..Len(q) : q[i] \in Asks
    BY ElementOfSeq
<1>3. /\ p \in Seq(Asks)
      /\ Len(p) = Len(q) - n
      /\ \A i \in 1..Len(p) : p[i] = q[n + i]
  <2>1. \A i \in (n + 1)..Len(q) : q[i] \in Asks
    <3>1. (n + 1)..Len(q) \subseteq 1..Len(q)
        BY <1>1
    <3> QED
        BY <1>2, <3>1
  <2>2. /\ SubSeq(q, n + 1, Len(q)) \in Seq(Asks)
        /\ Len(SubSeq(q, n + 1, Len(q))) =
             IF n + 1 <= Len(q) THEN Len(q) - (n + 1) + 1 ELSE 0
        /\ \A i \in 1..(Len(q) - (n + 1) + 1) : SubSeq(q, n + 1, Len(q))[i] = q[(n + 1) + i - 1]
    <3>1. n + 1 \in Int /\ Len(q) \in Int
        BY <1>1
    <3> QED
        BY <2>1, <3>1, SubSeqProperties
  <2>3. Len(p) = Len(q) - n
      BY <1>0, <1>1, <2>2
  <2>4. ASSUME NEW i \in 1..Len(p) PROVE p[i] = q[n + i]
    <3>1. i \in 1..(Len(q) - (n + 1) + 1) /\ (n + 1) + i - 1 = n + i
        BY <1>1, <2>3, <2>4
    <3> QED
        BY <1>0, <2>2, <3>1
  <2> QED
      BY <1>0, <2>2, <2>3, <2>4
<1>4. g \in SUBSET Asks
    BY <1>0, <1>1, <1>2
<1>5. Asked(g, p) = Asked(h, q)
  <2>1. \A i \in 1..Len(q) : i \in 1..n \/ i - n \in 1..Len(p)
      BY <1>1, <1>3
  <2>2. ASSUME NEW i \in 1..Len(q) PROVE q[i] \in Asked(g, p)
    <3>1. CASE i \in 1..n
        BY <1>0, <3>1 DEF Asked
    <3>2. CASE i - n \in 1..Len(p)
      <4>1. p[i - n] = q[i]
          BY <1>1, <1>3, <3>2
      <4> QED
          BY <3>2, <4>1 DEF Asked
    <3> QED
        BY <2>1, <3>1, <3>2
  <2>3. ASSUME NEW i \in 1..Len(p) PROVE p[i] \in Asked(h, q)
    <3>1. n + i \in 1..Len(q)
        BY <1>1, <1>3
    <3> QED
        BY <1>3, <3>1 DEF Asked
  <2>4. \A i \in 1..n : q[i] \in Asked(h, q)
      BY <1>1 DEF Asked
  <2>5. \A a \in h : a \in Asked(g, p) /\ a \in Asked(h, q)
      BY <1>0 DEF Asked
  <2>6. ASSUME NEW a \in Asked(g, p) PROVE a \in Asked(h, q)
      BY <1>0, <2>3, <2>4, <2>5 DEF Asked
  <2>7. ASSUME NEW a \in Asked(h, q) PROVE a \in Asked(g, p)
      BY <2>2, <2>5 DEF Asked
  <2> QED
      BY <2>6, <2>7
<1>6. Orderly(g, p)
  <2>1. \A i \in 1..Len(p) : n + i \in 1..Len(q)
      BY <1>1, <1>3
  <2>2. \A i, j \in 1..Len(p) : p[i].who = p[j].who => i = j
    <3>1. ASSUME NEW i \in 1..Len(p), NEW j \in 1..Len(p), p[i].who = p[j].who
          PROVE  i = j
      <4>1. n + i = n + j
          BY <1>3, <2>1, <3>1 DEF Orderly
      <4> QED
          BY <1>1, <1>3, <4>1
    <3> QED
        BY <3>1
  <2>3. \A a \in g : \A i \in 1..Len(p) : p[i].who # a.who
    <3>1. ASSUME NEW a \in h, NEW i \in 1..Len(p) PROVE p[i].who # a.who
        BY <1>3, <2>1 DEF Orderly
    <3>2. ASSUME NEW k \in 1..n, NEW i \in 1..Len(p) PROVE p[i].who # q[k].who
      <4>1. k \in 1..Len(q) /\ n + i # k
          BY <1>1, <1>3, <3>2
      <4> QED
          BY <1>3, <2>1, <4>1 DEF Orderly
    <3> QED
        BY <1>0, <3>1, <3>2
  <2>4. \A a \in g : a.mode = "write" => g = {a}
    <3>1. CASE n = 0
      <4>1. g = h
          BY <1>0, <3>1
      <4> QED
          BY <4>1 DEF Orderly
    <3>2. CASE n = 1 /\ h = {}
      <4>1. g = {q[1]}
          BY <1>0, <3>2
      <4> QED
          BY <4>1
    <3>3. CASE (\A i \in 1..n : q[i].mode = "read") /\ \A a \in h : a.mode # "write"
        BY <1>0, <3>3
    <3> QED
        BY <3>1, <3>2, <3>3 DEF MayEnter
  <2> QED
      BY <2>2, <2>3, <2>4 DEF Orderly
<1>7. InWith(h, q, n) = g /\ Behind(q, n) = p
    BY <1>0 DEF InWith, Behind
<1> QED
    BY <1>3, <1>4, <1>5, <1>6, <1>7

\* What Settle makes of an orderly lock.
LEMMA SettleKeeps ==
    ASSUME NEW h \in SUBSET Asks, NEW q \in Seq(Asks), Orderly(h, q), Settle(h, q)
    PROVE  /\ held' \in SUBSET Asks /\ queue' \in Seq(Asks)
           /\ LockOK'
           /\ Asked(held', queue') = Asked(h, q)
           /\ h \subseteq held'
           /\ early \subseteq early'
           /\ \A w \in early' : w \in early \/ (mw = "handling" /\ \E a \in held' : a.who = w)
<1>1. PICK n : n = Admitted(h, q)
    OBVIOUS
<1>2. MayEnter(h, q, n)
    BY <1>1, AdmittedProperties
<1>3. /\ held' = InWith(h, q, n)
      /\ queue' = Behind(q, n)
      /\ early' = early \cup (IF mw = "handling" THEN {a.who : a \in {q[i] : i \in 1..n}} ELSE {})
    BY <1>1 DEF Settle, InWith, Behind
<1>4. /\ held' \in SUBSET Asks /\ queue' \in Seq(Asks)
      /\ Orderly(held', queue')
      /\ Asked(held', queue') = Asked(h, q)
    BY <1>2, <1>3, LetIn
<1>5. early \subseteq early' /\ h \subseteq held'
    BY <1>3 DEF InWith
<1>6. ASSUME NEW w \in early', w \notin early
      PROVE  mw = "handling" /\ \E a \in held' : a.who = w
    BY <1>3, <1>6 DEF InWith
<1> QED
    BY <1>4, <1>5, <1>6 DEF LockOK

\* The queue without one of those in it.
LEMMA LeaveProperties ==
    ASSUME NEW q \in Seq(Asks), NEW who,
           \A i, j \in 1..Len(q) : q[i].who = q[j].who => i = j
    PROVE  /\ Leave(q, who) \in Seq(Asks)
           /\ {Leave(q, who)[i] : i \in 1..Len(Leave(q, who))}
                = {a \in {q[i] : i \in 1..Len(q)} : a.who # who}
           /\ \A i, j \in 1..Len(Leave(q, who)) :
                Leave(q, who)[i].who = Leave(q, who)[j].who => i = j
<1>1. Len(q) \in Nat /\ DOMAIN q = 1..Len(q) /\ \A i \in 1..Len(q) : q[i] \in Asks
    BY LenProperties, ElementOfSeq
<1>2. CASE \A i \in 1..Len(q) : q[i].who # who
  <2>1. Leave(q, who) = q
      BY <1>1, <1>2 DEF Leave
  <2> QED
      BY <1>1, <1>2, <2>1
<1>3. CASE \E i \in 1..Len(q) : q[i].who = who
  <2>1. PICK k : k = CHOOSE i \in DOMAIN q : q[i].who = who
      OBVIOUS
  <2>2. k \in 1..Len(q) /\ q[k].who = who
      BY <1>1, <1>3, <2>1
  <2>3. PICK p : p = Leave(q, who)
      OBVIOUS
  <2>4. p = SubSeq(q, 1, k - 1) \o SubSeq(q, k + 1, Len(q))
      BY <1>1, <1>3, <2>1, <2>3 DEF Leave, RemoveAt
  <2>5. PICK front : front = SubSeq(q, 1, k - 1)
      OBVIOUS
  <2>6. PICK back : back = SubSeq(q, k + 1, Len(q))
      OBVIOUS
  <2>7. /\ front \in Seq(Asks)
        /\ Len(front) = k - 1
        /\ \A i \in 1..(k - 1) : front[i] = q[i]
    <3>1. 1..(k - 1) \subseteq 1..Len(q) /\ k - 1 \in Int /\ 1 \in Int
        BY <1>1, <2>2
    <3>2. /\ front \in Seq(Asks)
          /\ Len(front) = IF 1 <= k - 1 THEN (k - 1) - 1 + 1 ELSE 0
          /\ \A i \in 1..((k - 1) - 1 + 1) : front[i] = q[1 + i - 1]
        BY <1>1, <2>5, <3>1, SubSeqProperties
    <3>3. Len(front) = k - 1
      <4>1. Len(front) = IF 1 <= k - 1 THEN (k - 1) - 1 + 1 ELSE 0
          BY <3>2
      <4> QED
          BY <1>1, <2>2, <4>1
    <3>4. ASSUME NEW i \in 1..(k - 1) PROVE front[i] = q[i]
      <4>1. i \in 1..((k - 1) - 1 + 1) /\ 1 + i - 1 = i
          BY <1>1, <2>2, <3>4
      <4> QED
          BY <3>2, <4>1
    <3> QED
        BY <3>2, <3>3, <3>4
  <2>8. /\ back \in Seq(Asks)
        /\ Len(back) = Len(q) - k
        /\ \A i \in 1..(Len(q) - k) : back[i] = q[k + i]
    <3>1. (k + 1)..Len(q) \subseteq 1..Len(q) /\ k + 1 \in Int /\ Len(q) \in Int
        BY <1>1, <2>2
    <3>2. /\ back \in Seq(Asks)
          /\ Len(back) = IF k + 1 <= Len(q) THEN Len(q) - (k + 1) + 1 ELSE 0
          /\ \A i \in 1..(Len(q) - (k + 1) + 1) : back[i] = q[(k + 1) + i - 1]
        BY <1>1, <2>6, <3>1, SubSeqProperties
    <3>3. Len(back) = Len(q) - k
      <4>1. Len(back) = IF k + 1 <= Len(q) THEN Len(q) - (k + 1) + 1 ELSE 0
          BY <3>2
      <4>2. PICK n : n = Len(q) /\ n \in Nat /\ k \in 1..n
          BY <1>1, <2>2
      <4> QED
          BY <4>1, <4>2
    <3>4. ASSUME NEW i \in 1..(Len(q) - k) PROVE back[i] = q[k + i]
      <4>1. i \in 1..(Len(q) - (k + 1) + 1) /\ (k + 1) + i - 1 = k + i
          BY <1>1, <2>2, <3>4
      <4> QED
          BY <3>2, <4>1
    <3> QED
        BY <3>2, <3>3, <3>4
  <2>9. /\ p \in Seq(Asks)
        /\ Len(p) = Len(q) - 1
        /\ \A i \in 1..Len(p) : p[i] = IF i < k THEN q[i] ELSE q[i + 1]
    <3>1. /\ p \in Seq(Asks)
          /\ Len(p) = Len(front) + Len(back)
          /\ \A i \in 1..(Len(front) + Len(back)) :
               p[i] = IF i <= Len(front) THEN front[i] ELSE back[i - Len(front)]
      <4>1. p = front \o back
          BY <2>4, <2>5, <2>6
      <4>2. front \in Seq(Asks) /\ back \in Seq(Asks)
          BY <2>7, <2>8
      <4> QED
          BY <4>1, <4>2, ConcatProperties
    <3>2. Len(p) = Len(q) - 1
        BY <1>1, <2>2, <2>7, <2>8, <3>1
    <3>3. /\ p \in Seq(Asks)
          /\ \A i \in 1..Len(p) : p[i] = IF i < k THEN front[i] ELSE back[i - (k - 1)]
        BY <1>1, <2>2, <2>7, <3>1
    <3>4. ASSUME NEW i \in 1..Len(p) PROVE p[i] = IF i < k THEN q[i] ELSE q[i + 1]
      <4>1. CASE i < k
          BY <1>1, <2>2, <2>7, <3>2, <3>3, <4>1
      <4>2. CASE i >= k
        <5>1. i - (k - 1) \in 1..(Len(q) - k) /\ k + (i - (k - 1)) = i + 1
            BY <1>1, <2>2, <3>2, <4>2
        <5>2. p[i] = back[i - (k - 1)]
            BY <1>1, <2>2, <3>3, <4>2
        <5> QED
            BY <1>1, <2>2, <2>8, <4>2, <5>1, <5>2
      <4> QED
          BY <1>1, <2>2, <4>1, <4>2
    <3> QED
        BY <3>2, <3>3, <3>4
  <2>10. \A i \in 1..Len(p) : \/ i < k /\ p[i] = q[i] /\ i \in 1..Len(q)
                              \/ i >= k /\ p[i] = q[i + 1] /\ i + 1 \in 1..Len(q) /\ i + 1 # k
      BY <1>1, <2>2, <2>9
  <2>11. \A i, j \in 1..Len(p) : p[i].who = p[j].who => i = j
    <3>1. ASSUME NEW i \in 1..Len(p), NEW j \in 1..Len(p), p[i].who = p[j].who
          PROVE  i = j
        BY <1>1, <2>2, <2>10, <3>1
    <3> QED
        BY <3>1
  <2>12. ASSUME NEW i \in 1..Len(p)
         PROVE  p[i] \in {q[j] : j \in 1..Len(q)} /\ p[i].who # who
      BY <1>1, <2>2, <2>10
  <2>13. ASSUME NEW j \in 1..Len(q), q[j].who # who
         PROVE  \E i \in 1..Len(p) : p[i] = q[j]
    <3>1. CASE j < k
      <4>1. j \in 1..Len(p) /\ p[j] = q[j]
          BY <1>1, <2>2, <2>9, <3>1
      <4> QED
          BY <4>1
    <3>2. CASE j > k
      <4>1. j - 1 \in 1..Len(p) /\ p[j - 1] = q[j]
          BY <1>1, <2>2, <2>9, <3>2
      <4> QED
          BY <4>1
    <3> QED
        BY <1>1, <2>2, <2>13, <3>1, <3>2
  <2>14. {p[i] : i \in 1..Len(p)} = {a \in {q[i] : i \in 1..Len(q)} : a.who # who}
      BY <2>12, <2>13
  <2> QED
      BY <2>3, <2>9, <2>11, <2>14
<1> QED
    BY <1>2, <1>3

-------------------------------------------------------------------------------
(* What the steps do to the lock *)

\* The asks of those in gone are over, those in new have been made, and whoever
\* held the lock still does; who is let in while the handler runs is noted.
LockStep(gone, new) ==
    /\ held' \in SUBSET Asks /\ queue' \in Seq(Asks)
    /\ LockOK'
    /\ Asked(held', queue') = {a \in Asked(held, queue) : a.who \notin gone} \cup new
    /\ {a \in held : a.who \notin gone} \subseteq held'
    /\ early \subseteq early'
    /\ \A w \in early' : w \in early \/ (mw = "handling" /\ \E a \in held' : a.who = w)

LEMMA QuietLock ==
    ASSUME TypeOK, LockOK, UNCHANGED <<lock, early>>
    PROVE  LockStep({}, {})
<1>1. held' = held /\ queue' = queue /\ early' = early
    BY DEF lock
<1>2. Asked(held', queue') = Asked(held, queue) /\ LockOK'
    BY <1>1 DEF Asked, LockOK
<1> QED
    BY <1>1, <1>2 DEF LockStep, TypeOK

LEMMA AcquireLock ==
    ASSUME TypeOK, LockOK, NEW who \in Parties, NEW mode \in {"read", "write"},
           \A a \in Asked(held, queue) : a.who # who,
           Acquire(who, mode)
    PROVE  LockStep({}, {Ask(who, mode)})
<1>1. PICK q, a : q = queue /\ a = Ask(who, mode)
    OBVIOUS
<1>2. q \in Seq(Asks) /\ a \in Asks /\ held \in SUBSET Asks /\ a.who = who
    BY <1>1 DEF TypeOK, Asks, Ask
<1>3. PICK p : p = Append(q, a)
    OBVIOUS
<1>4. /\ p \in Seq(Asks)
      /\ Len(q) \in Nat
      /\ Len(p) = Len(q) + 1
      /\ \A i \in 1..Len(q) : p[i] = q[i]
      /\ p[Len(q) + 1] = a
    BY <1>2, <1>3, AppendProperties, LenProperties
<1>5. ASSUME NEW i \in 1..Len(p)
      PROVE  \/ i \in 1..Len(q) /\ p[i] = q[i]
             \/ i = Len(q) + 1 /\ p[i] = a
  <2>1. CASE i = Len(q) + 1
      BY <1>4, <2>1
  <2>2. CASE i # Len(q) + 1
    <3>1. i \in 1..Len(q)
        BY <1>4, <2>2
    <3>2. p[i] = q[i]
        BY <1>4, <3>1
    <3> QED
        BY <3>1, <3>2
  <2> QED
      BY <2>1, <2>2
<1>6. \A b \in held : b.who # who
    BY DEF Asked
<1>7. \A i \in 1..Len(q) : q[i].who # who
    BY <1>1 DEF Asked
<1>8. Orderly(held, q)
    BY <1>1 DEF LockOK
<1>9. Orderly(held, p)
  <2>1. \A b \in held : b.mode = "write" => held = {b}
      BY <1>8 DEF Orderly
  <2>2. ASSUME NEW b \in held, NEW i \in 1..Len(p) PROVE p[i].who # b.who
      BY <1>2, <1>5, <1>6, <1>8 DEF Orderly
  <2>3. ASSUME NEW i \in 1..Len(p), NEW j \in 1..Len(p), p[i].who = p[j].who
        PROVE  i = j
      BY <1>2, <1>5, <1>7, <1>8, <2>3 DEF Orderly
  <2> QED
      BY <2>1, <2>2, <2>3 DEF Orderly
<1>10. Settle(held, p)
    BY <1>1, <1>3 DEF Acquire
<1>11. Asked(held, p) = Asked(held, queue) \cup {a}
  <2>1. ASSUME NEW x \in Asked(held, p) PROVE x \in Asked(held, q) \cup {a}
      BY <1>5, <2>1 DEF Asked
  <2>2. ASSUME NEW x \in Asked(held, q) PROVE x \in Asked(held, p)
    <3>1. \A i \in 1..Len(q) : i \in 1..Len(p)
        BY <1>4
    <3> QED
        BY <1>4, <2>2, <3>1 DEF Asked
  <2>3. a \in Asked(held, p)
    <3>1. Len(q) + 1 \in 1..Len(p)
        BY <1>4
    <3> QED
        BY <1>4, <3>1 DEF Asked
  <2> QED
      BY <1>1, <2>1, <2>2, <2>3
<1> QED
    BY <1>1, <1>2, <1>4, <1>9, <1>10, <1>11, SettleKeeps DEF LockStep

\* The asks in h that are not of who.
Without(h, who) == {a \in h : a.who # who}

\* A lock that is left by one of those that ask stays orderly.
LEMMA LeaveLock ==
    ASSUME NEW h \in SUBSET Asks, NEW q \in Seq(Asks), Orderly(h, q), NEW who
    PROVE  /\ Without(h, who) \in SUBSET Asks
           /\ Leave(q, who) \in Seq(Asks)
           /\ Orderly(Without(h, who), Leave(q, who))
           /\ Asked(Without(h, who), Leave(q, who)) = Without(Asked(h, q), who)
<1> USE DEF Without
<1>1. PICK p : p = Leave(q, who)
    OBVIOUS
<1>2. PICK g : g = {a \in h : a.who # who}
    OBVIOUS
<1>3. /\ p \in Seq(Asks)
      /\ {p[i] : i \in 1..Len(p)} = {a \in {q[i] : i \in 1..Len(q)} : a.who # who}
      /\ \A i, j \in 1..Len(p) : p[i].who = p[j].who => i = j
    BY <1>1, LeaveProperties DEF Orderly
<1>4. Asked(g, p) = {a \in Asked(h, q) : a.who # who}
    BY <1>2, <1>3 DEF Asked
<1>5. \A a \in g : \A i \in 1..Len(p) : p[i].who # a.who
  <2>1. ASSUME NEW a \in g, NEW i \in 1..Len(p) PROVE p[i].who # a.who
    <3>1. p[i] \in {q[j] : j \in 1..Len(q)}
        BY <1>3
    <3>2. PICK j \in 1..Len(q) : p[i] = q[j]
        BY <3>1
    <3> QED
        BY <1>2, <3>2 DEF Orderly
  <2> QED
      BY <2>1
<1>6. \A a \in g : a.mode = "write" => g = {a}
    BY <1>2 DEF Orderly
<1>7. Orderly(g, p)
    BY <1>3, <1>5, <1>6 DEF Orderly
<1> QED
    BY <1>1, <1>2, <1>3, <1>4, <1>7

LEMMA ReleaseLock ==
    ASSUME TypeOK, LockOK, NEW who, Release(who)
    PROVE  LockStep({who}, {})
<1>1. PICK h, q : h = Without(held, who) /\ q = Leave(queue, who)
    OBVIOUS
<1>2. /\ h \in SUBSET Asks /\ q \in Seq(Asks) /\ Orderly(h, q)
      /\ Asked(h, q) = Without(Asked(held, queue), who)
    BY <1>1, LeaveLock DEF TypeOK, LockOK
<1>3. Settle(h, q)
    BY <1>1 DEF Release, Without
<1> QED
    BY <1>1, <1>2, <1>3, SettleKeeps DEF LockStep, Without

LEMMA CancelLock ==
    ASSUME TypeOK, LockOK, Cancel
    PROVE  LockStep({Middleware, Handler}, {})
<1>1. PICK h, q : h = Without(held, Middleware) /\ q = Leave(queue, Middleware)
    OBVIOUS
<1>2. /\ h \in SUBSET Asks /\ q \in Seq(Asks) /\ Orderly(h, q)
      /\ Asked(h, q) = Without(Asked(held, queue), Middleware)
    BY <1>1, LeaveLock DEF TypeOK, LockOK
<1>3. PICK g, p : g = Without(h, Handler) /\ p = Leave(q, Handler)
    OBVIOUS
<1>4. /\ g \in SUBSET Asks /\ p \in Seq(Asks) /\ Orderly(g, p)
      /\ Asked(g, p) = Without(Asked(h, q), Handler)
    BY <1>2, <1>3, LeaveLock
<1>5. g = {a \in held : a.who \notin {Middleware, Handler}}
    BY <1>1, <1>3 DEF Without
<1>6. Settle(g, p)
    BY <1>1, <1>3, <1>5 DEF Cancel
<1>7. Asked(g, p) = {a \in Asked(held, queue) : a.who \notin {Middleware, Handler}}
    BY <1>2, <1>4 DEF Without
<1> QED
    BY <1>4, <1>5, <1>6, <1>7, SettleKeeps DEF LockStep, Without

\* Whoever asks is one of the parties.
LEMMA AskedType ==
    ASSUME TypeOK
    PROVE  \A a \in Asked(held, queue) : a \in Asks /\ a.who \in Parties
<1>1. PICK q : q = queue
    OBVIOUS
<1>2. \A i \in 1..Len(q) : q[i] \in Asks
    BY <1>1, ElementOfSeq DEF TypeOK
<1>3. \A a \in Asked(held, queue) : a \in Asks
    BY <1>1, <1>2 DEF Asked, TypeOK
<1> QED
    BY <1>3 DEF Asks

\* What each action does to the lock.
LEMMA ActionsLock ==
    ASSUME TypeOK, LockOK, PlaceOK
    PROVE  /\ UNCHANGED <<lock, early>> => LockStep({}, {})
           /\ \A t \in Tasks : LockWrite(t) => LockStep({}, {Ask(t, "write")})
           /\ \A t \in Tasks : LockRead(t) => LockStep({}, {Ask(t, "read")})
           /\ \A t \in Tasks : DropGuard(t) \/ Abort(t) => LockStep({t}, {})
           /\ CheckDirty => LockStep({}, {Ask(Middleware, "read")})
           /\ SaveFails \/ Respond => LockStep({Middleware}, {})
           /\ ServiceErr => LockStep({Handler}, {})
           /\ Cancel => LockStep({Middleware, Handler}, {})
<1>1. ASSUME NEW t \in Tasks, LockWrite(t) \/ LockRead(t)
      PROVE  t \in Parties /\ \A a \in Asked(held, queue) : a.who # t
    BY <1>1 DEF LockWrite, LockRead, PlaceOK, Parties
<1>2. ASSUME NEW t \in Tasks, LockWrite(t) PROVE LockStep({}, {Ask(t, "write")})
    BY <1>1, <1>2, AcquireLock DEF LockWrite
<1>3. ASSUME NEW t \in Tasks, LockRead(t) PROVE LockStep({}, {Ask(t, "read")})
    BY <1>1, <1>3, AcquireLock DEF LockRead
<1>4. ASSUME NEW t \in Tasks, DropGuard(t) \/ Abort(t) PROVE LockStep({t}, {})
    BY <1>4, ReleaseLock DEF DropGuard, Abort
<1>5. ASSUME CheckDirty PROVE LockStep({}, {Ask(Middleware, "read")})
  <2>1. Middleware \in Parties /\ \A a \in Asked(held, queue) : a.who # Middleware
      BY <1>5 DEF CheckDirty, PlaceOK, Parties
  <2> QED
      BY <1>5, <2>1, AcquireLock DEF CheckDirty
<1>6. ASSUME SaveFails \/ Respond PROVE LockStep({Middleware}, {})
    BY <1>6, ReleaseLock DEF SaveFails, Respond
<1>7. ASSUME ServiceErr PROVE LockStep({Handler}, {})
    BY <1>7, ReleaseLock DEF ServiceErr
<1> QED
    BY <1>2, <1>3, <1>4, <1>5, <1>6, <1>7, QuietLock, CancelLock

-------------------------------------------------------------------------------
(* One lemma per conjunct: what a step preserves, action by action. *)

LEMMA TypeStep ==
    ASSUME TypeOK, LockOK, PlaceOK, [Next]_vars
    PROVE  TypeOK' /\ LockOK'
<1>1. ASSUME NEW gone, NEW new, LockStep(gone, new)
      PROVE  /\ held' \in SUBSET Asks /\ queue' \in Seq(Asks) /\ LockOK'
             /\ early' \in SUBSET Parties
  <2>1. \A w \in early' : w \in Parties
      BY <1>1 DEF LockStep, TypeOK, Asks
  <2> QED
      BY <1>1, <2>1 DEF LockStep
<1>2. /\ held' \in SUBSET Asks /\ queue' \in Seq(Asks) /\ LockOK'
      /\ early' \in SUBSET Parties
  <2>1. CASE UNCHANGED <<lock, early>>
      BY <1>1, <2>1, ActionsLock
  <2>2. ASSUME NEW t \in Tasks, LockWrite(t) \/ LockRead(t) \/ DropGuard(t) \/ Abort(t)
        PROVE  \E gone, new : LockStep(gone, new)
      BY <2>2, ActionsLock
  <2>3. CASE CheckDirty \/ SaveFails \/ Respond \/ ServiceErr \/ Cancel
    <3>1. \E gone, new : LockStep(gone, new)
        BY <2>3, ActionsLock
    <3> QED
        BY <1>1, <3>1
  <2>4. ASSUME UNCHANGED vars PROVE UNCHANGED <<lock, early>>
      BY <2>4 DEF vars, lock
  <2>5. ASSUME NEW x \in DOMAIN LookedUp, Extract(x) \/ ExtractFails(x)
        PROVE  UNCHANGED <<lock, early>>
      BY <2>5 DEF Extract, ExtractFails
  <2>6. ASSUME NEW t \in Tasks, Mark(t) \/ Mutate(t) PROVE UNCHANGED <<lock, early>>
      BY <2>6 DEF Mark, Mutate
  <2>7. ASSUME ServiceOk \/ CheckClean \/ Save \/ SetClean PROVE UNCHANGED <<lock, early>>
      BY <2>7 DEF ServiceOk, CheckClean, Save, SetClean
  <2> QED
      BY <1>1, <2>1, <2>2, <2>3, <2>4, <2>5, <2>6, <2>7 DEF Next, Task, Saving, Finished
<1>0. \A d \in 0..Whole : d < Whole => d + 1 \in 0..Whole
    BY DEF Whole
<1> DEFINE Rest ==
      /\ mw \in {"extract", "handling", "check", "saving", "saved", "clean", "done", "dropped"}
      /\ pc \in [Tasks -> {"start", "marked", "locking", "end"}]
      /\ data \in [Tasks -> 0..Whole]
      /\ dirty \in BOOLEAN
      /\ store \in [Tasks -> 0..Whole]
      /\ reply \in {"none", "ok", "no session", "error"}
      /\ aborted \in SUBSET Tasks
<1>3. Rest'
  <2> USE HandleAssumption DEF TypeOK, Answer
  <2>1. CASE UNCHANGED vars
      BY <2>1 DEF vars
  <2>2. ASSUME NEW x \in DOMAIN LookedUp, Extract(x) \/ ExtractFails(x) PROVE Rest'
      BY <2>2 DEF Extract, ExtractFails
  <2>3. ASSUME NEW t \in Tasks, Mark(t) \/ LockWrite(t) \/ LockRead(t) PROVE Rest'
      BY <2>3 DEF Mark, LockWrite, LockRead
  <2>4. ASSUME NEW t \in Tasks, Mutate(t) PROVE Rest'
    <3>1. data[t] + 1 \in 0..Whole
      <4>1. data[t] \in 0..Whole /\ data[t] < Whole
          BY <2>4 DEF Mutate
      <4> QED
          BY <1>0, <4>1
    <3> QED
        BY <2>4, <3>1 DEF Mutate
  <2>5. ASSUME NEW t \in Tasks, DropGuard(t) \/ Abort(t) PROVE Rest'
      BY <2>5 DEF DropGuard, Abort
  <2>6. CASE ServiceOk \/ ServiceErr \/ Cancel
      BY <2>6 DEF ServiceOk, ServiceErr, Cancel
  <2>7. CASE Saving
      BY <2>7 DEF Saving, CheckClean, CheckDirty, Save, SaveFails, SetClean, Respond
  <2> QED
      BY <2>1, <2>2, <2>3, <2>4, <2>5, <2>6, <2>7 DEF Next, Task, Finished
<1> QED
    BY <1>2, <1>3 DEF TypeOK

LEMMA PlaceStep ==
    ASSUME TypeOK, LockOK, PlaceOK, FlagOK, [Next]_vars
    PROVE  PlaceOK'
<1> USE HandleAssumption DEF TypeOK
<1>1. CASE UNCHANGED vars
    BY <1>1, QuietLock DEF vars, lock, PlaceOK
<1>2. ASSUME NEW x \in DOMAIN LookedUp, Extract(x) PROVE PlaceOK'
    BY <1>2 DEF Extract, PlaceOK, lock
<1>3. ASSUME NEW x \in DOMAIN LookedUp, ExtractFails(x) PROVE PlaceOK'
  <2>1. Asked(held, queue) = {}
    <3>1. \A a \in Asked(held, queue) : a.who \in Parties
        BY AskedType
    <3> QED
        BY <1>3, <3>1 DEF ExtractFails, PlaceOK, FlagOK, Parties
  <2> QED
      BY <1>3, <2>1 DEF ExtractFails, PlaceOK, lock
<1>4. ASSUME NEW t \in Tasks, Mark(t) \/ Mutate(t) PROVE PlaceOK'
    BY <1>4 DEF Mark, Mutate, PlaceOK, lock
<1>5. ASSUME NEW t \in Tasks, LockWrite(t) PROVE PlaceOK'
  <2>1. Asked(held', queue') = Asked(held, queue) \cup {Ask(t, "write")}
      BY <1>5, ActionsLock DEF LockStep
  <2>2. /\ \A a \in Asked(held, queue) : a.who \in Tasks => pc'[a.who] = "locking"
        /\ pc'[t] = "locking" /\ mw' = mw
      BY <1>5 DEF LockWrite, PlaceOK
  <2>3. Ask(t, "write").who = t
      BY DEF Ask
  <2> QED
      BY <2>1, <2>2, <2>3 DEF PlaceOK
<1>6. ASSUME NEW t \in Tasks, LockRead(t) PROVE PlaceOK'
  <2>1. Asked(held', queue') = Asked(held, queue) \cup {Ask(t, "read")}
      BY <1>6, ActionsLock DEF LockStep
  <2>2. /\ \A a \in Asked(held, queue) : a.who \in Tasks => pc'[a.who] = "locking"
        /\ pc'[t] = "locking" /\ mw' = mw
      BY <1>6 DEF LockRead, PlaceOK
  <2>3. Ask(t, "read").who = t
      BY DEF Ask
  <2> QED
      BY <2>1, <2>2, <2>3 DEF PlaceOK
<1>7. ASSUME NEW t \in Tasks, DropGuard(t) \/ Abort(t) PROVE PlaceOK'
  <2>1. LockStep({t}, {})
      BY <1>7, ActionsLock
  <2>2. Asked(held', queue') = {a \in Asked(held, queue) : a.who \notin {t}}
      BY <2>1 DEF LockStep
  <2> QED
      BY <1>7, <2>2 DEF DropGuard, Abort, PlaceOK
<1>8. CASE ServiceOk \/ CheckClean \/ Save \/ SetClean
    BY <1>8 DEF ServiceOk, CheckClean, Save, SetClean, PlaceOK, lock
<1>9. CASE CheckDirty
  <2>1. Asked(held', queue') = Asked(held, queue) \cup {Ask(Middleware, "read")}
      BY <1>9, ActionsLock DEF LockStep
  <2>2. Ask(Middleware, "read").who = Middleware /\ Ask(Middleware, "read").mode = "read"
      BY DEF Ask
  <2>3. pc' = pc /\ mw' = "saving"
      BY <1>9 DEF CheckDirty
  <2> QED
      BY <2>1, <2>2, <2>3 DEF PlaceOK
<1>10. CASE SaveFails \/ Respond
  <2>1. Asked(held', queue') = {a \in Asked(held, queue) : a.who \notin {Middleware}}
      BY <1>10, ActionsLock DEF LockStep
  <2> QED
      BY <1>10, <2>1 DEF SaveFails, Respond, PlaceOK
<1>11. CASE ServiceErr
  <2>1. Asked(held', queue') = {a \in Asked(held, queue) : a.who \notin {Handler}}
      BY <1>11, ActionsLock DEF LockStep
  <2> QED
      BY <1>11, <2>1 DEF ServiceErr, PlaceOK
<1>12. CASE Cancel
  <2>1. Asked(held', queue') = {a \in Asked(held, queue) : a.who \notin {Middleware, Handler}}
      BY <1>12, ActionsLock DEF LockStep
  <2> QED
      BY <1>12, <2>1 DEF Cancel, PlaceOK
<1> QED
    BY <1>1, <1>2, <1>3, <1>4, <1>5, <1>6, <1>7, <1>8, <1>9, <1>10, <1>11, <1>12
    DEF Next, Task, Saving, Finished

\* The same, with what it means for the tasks: those that leave are at their end,
\* their write whole or themselves aborted, and no task asks twice.
TaskLockStep(gone, new) ==
    /\ LockStep(gone, new)
    /\ \A a \in new : a.who \in Tasks => pc[a.who] \in {"start", "marked"}
    /\ \A u \in Tasks : u \in gone =>
         pc'[u] = "end" /\ (data[u] \in {0, Whole} \/ u \in aborted')
    /\ \A u \in Tasks : pc[u] \in {"locking", "end"} => pc'[u] \in {pc[u], "end"}

LEMMA StepLock ==
    ASSUME TypeOK, LockOK, PlaceOK, [Next]_vars
    PROVE  \E gone, new : TaskLockStep(gone, new)
<1> USE HandleAssumption DEF TypeOK
<1>1. CASE UNCHANGED vars
  <2>1. LockStep({}, {})
      BY <1>1, QuietLock DEF vars, lock
  <2>2. TaskLockStep({}, {})
      BY <1>1, <2>1 DEF TaskLockStep, vars
  <2> QED
      BY <2>2
<1>2. ASSUME NEW x \in DOMAIN LookedUp, Extract(x) \/ ExtractFails(x)
      PROVE  \E gone, new : TaskLockStep(gone, new)
  <2>1. LockStep({}, {})
      BY <1>2, QuietLock DEF Extract, ExtractFails
  <2>2. TaskLockStep({}, {})
      BY <1>2, <2>1 DEF TaskLockStep, Extract, ExtractFails
  <2> QED
      BY <2>2
<1>3. ASSUME NEW t \in Tasks, Mark(t) \/ Mutate(t)
      PROVE  \E gone, new : TaskLockStep(gone, new)
  <2>1. LockStep({}, {})
      BY <1>3, QuietLock DEF Mark, Mutate
  <2>2. TaskLockStep({}, {})
      BY <1>3, <2>1 DEF TaskLockStep, Mark, Mutate
  <2> QED
      BY <2>2
<1>4. ASSUME NEW t \in Tasks, LockWrite(t) PROVE \E gone, new : TaskLockStep(gone, new)
  <2>1. LockStep({}, {Ask(t, "write")})
      BY <1>4, ActionsLock
  <2>2. TaskLockStep({}, {Ask(t, "write")})
    <3>1. Ask(t, "write").who = t
        BY DEF Ask
    <3> QED
        BY <1>4, <2>1, <3>1 DEF TaskLockStep, LockWrite
  <2> QED
      BY <2>2
<1>5. ASSUME NEW t \in Tasks, LockRead(t) PROVE \E gone, new : TaskLockStep(gone, new)
  <2>1. LockStep({}, {Ask(t, "read")})
      BY <1>5, ActionsLock
  <2>2. TaskLockStep({}, {Ask(t, "read")})
    <3>1. Ask(t, "read").who = t
        BY DEF Ask
    <3> QED
        BY <1>5, <2>1, <3>1 DEF TaskLockStep, LockRead
  <2> QED
      BY <2>2
<1>6. ASSUME NEW t \in Tasks, DropGuard(t) \/ Abort(t)
      PROVE  \E gone, new : TaskLockStep(gone, new)
  <2>1. LockStep({t}, {})
      BY <1>6, ActionsLock
  <2>2. TaskLockStep({t}, {})
      BY <1>6, <2>1 DEF TaskLockStep, DropGuard, Abort
  <2> QED
      BY <2>2
<1>7. ASSUME ServiceOk \/ CheckClean \/ Save \/ SetClean
      PROVE  \E gone, new : TaskLockStep(gone, new)
  <2>1. LockStep({}, {})
      BY <1>7, QuietLock DEF ServiceOk, CheckClean, Save, SetClean
  <2>2. TaskLockStep({}, {})
      BY <1>7, <2>1 DEF TaskLockStep, ServiceOk, CheckClean, Save, SetClean
  <2> QED
      BY <2>2
<1>8. ASSUME CheckDirty PROVE \E gone, new : TaskLockStep(gone, new)
  <2>1. LockStep({}, {Ask(Middleware, "read")})
      BY <1>8, ActionsLock
  <2>2. TaskLockStep({}, {Ask(Middleware, "read")})
    <3>1. Ask(Middleware, "read").who = Middleware
        BY DEF Ask
    <3> QED
        BY <1>8, <2>1, <3>1 DEF TaskLockStep, CheckDirty
  <2> QED
      BY <2>2
<1>9. ASSUME SaveFails \/ Respond PROVE \E gone, new : TaskLockStep(gone, new)
  <2>1. LockStep({Middleware}, {})
      BY <1>9, ActionsLock
  <2>2. TaskLockStep({Middleware}, {})
      BY <1>9, <2>1 DEF TaskLockStep, SaveFails, Respond
  <2> QED
      BY <2>2
<1>10. ASSUME ServiceErr PROVE \E gone, new : TaskLockStep(gone, new)
  <2>1. LockStep({Handler}, {})
      BY <1>10, ActionsLock
  <2>2. TaskLockStep({Handler}, {})
      BY <1>10, <2>1 DEF TaskLockStep, ServiceErr
  <2> QED
      BY <2>2
<1>11. ASSUME Cancel PROVE \E gone, new : TaskLockStep(gone, new)
  <2>1. LockStep({Middleware, Handler}, {})
      BY <1>11, ActionsLock
  <2>2. TaskLockStep({Middleware, Handler}, {})
      BY <1>11, <2>1 DEF TaskLockStep, Cancel
  <2> QED
      BY <2>2
<1> QED
    BY <1>1, <1>2, <1>3, <1>4, <1>5, <1>6, <1>7, <1>8, <1>9, <1>10, <1>11
    DEF Next, Task, Saving, Finished

\* Whoever holds the lock holds it on, unless its code is at the end.
LEMMA HeldOn ==
    ASSUME TypeOK, LockOK, PlaceOK, [Next]_vars, NEW a \in held, a.who \in Tasks
    PROVE  \/ a \in held'
           \/ /\ pc'[a.who] = "end"
              /\ data[a.who] \in {0, Whole} \/ a.who \in aborted'
<1>1. PICK gone, new : TaskLockStep(gone, new)
    BY StepLock
<1> QED
    BY <1>1 DEF TaskLockStep, LockStep

LEMMA HalfStep ==
    ASSUME TypeOK, LockOK, PlaceOK, HalfOK, [Next]_vars
    PROVE  HalfOK'
<1>1. aborted \subseteq aborted'
    BY DEF Next, Task, Saving, Finished, vars, Extract, ExtractFails, Mark, LockWrite,
           LockRead, Mutate, DropGuard, Abort, ServiceOk, ServiceErr, CheckClean,
           CheckDirty, Save, SaveFails, SetClean, Respond, Cancel
<1>2. \A u \in Tasks :
        data'[u] = data[u] \/ (Ask(u, "write") \in held /\ UNCHANGED <<held>>)
  <2>1. ASSUME NEW t \in Tasks, Mutate(t)
        PROVE  \A u \in Tasks :
                 data'[u] = data[u] \/ (Ask(u, "write") \in held /\ UNCHANGED <<held>>)
      BY <2>1 DEF Mutate, Holds, lock, TypeOK
  <2>2. (\A t \in Tasks : ~ Mutate(t)) => data' = data
      BY DEF Next, Task, Saving, Finished, vars, Extract, ExtractFails, Mark, LockWrite,
             LockRead, DropGuard, Abort, ServiceOk, ServiceErr, CheckClean,
             CheckDirty, Save, SaveFails, SetClean, Respond, Cancel
  <2> QED
      BY <2>1, <2>2
<1>3. ASSUME NEW u \in Tasks
      PROVE  data'[u] \in {0, Whole} \/ Ask(u, "write") \in held' \/ u \in aborted'
  <2>1. Ask(u, "write").who = u
      BY DEF Ask
  <2>2. Ask(u, "write") \in held =>
          Ask(u, "write") \in held' \/ data[u] \in {0, Whole} \/ u \in aborted'
      BY <2>1, HeldOn
  <2> QED
      BY <1>1, <1>2, <2>2 DEF HalfOK
<1> QED
    BY <1>3 DEF HalfOK

LEMMA EarlyStep ==
    ASSUME TypeOK, TypeOK', LockOK, PlaceOK, PlaceOK', EarlyOK, [Next]_vars
    PROVE  EarlyOK'
<1>1. PICK gone, new : TaskLockStep(gone, new)
    BY StepLock
<1>2. ASSUME NEW u \in early' \cap Tasks
      PROVE  /\ pc'[u] \in {"locking", "end"}
             /\ pc'[u] = "locking" => \E a \in held' : a.who = u
  <2>1. CASE u \in early
      BY <1>1, <1>2, <2>1 DEF EarlyOK, TaskLockStep, LockStep
  <2>2. CASE u \notin early
    <3>1. PICK a \in held' : a.who = u
        BY <1>1, <1>2, <2>2 DEF TaskLockStep, LockStep
    <3>2. pc'[u] = "locking"
        BY <1>2, <3>1 DEF PlaceOK, Asked
    <3> QED
        BY <3>1, <3>2
  <2> QED
      BY <2>1, <2>2
<1> QED
    BY <1>2 DEF EarlyOK

\* Who was given the lock early, and not to write, is never given it to write.
LEMMA NoSecondAsk ==
    ASSUME TypeOK, LockOK, PlaceOK, EarlyOK, [Next]_vars, NEW u \in early \cap Tasks,
           Ask(u, "write") \notin held
    PROVE  Ask(u, "write") \notin held'
<1>1. PICK gone, new : TaskLockStep(gone, new)
    BY StepLock
<1>2. SUFFICES ASSUME Ask(u, "write") \in held' PROVE FALSE
    OBVIOUS
<1>3. Ask(u, "write").who = u
    BY DEF Ask
<1>4. Ask(u, "write") \notin new
    BY <1>1, <1>3 DEF TaskLockStep, EarlyOK
<1>5. Ask(u, "write") \in Asked(held, queue)
    BY <1>1, <1>2, <1>4 DEF TaskLockStep, LockStep, Asked
<1>6. PICK a \in held : a.who = u
    BY <1>3, <1>5 DEF PlaceOK, EarlyOK
<1>7. PICK i \in 1..Len(queue) : queue[i] = Ask(u, "write")
    BY <1>5 DEF Asked
<1> QED
    BY <1>3, <1>6, <1>7 DEF LockOK, Orderly

LEMMA FlagStep ==
    ASSUME TypeOK, LockOK, PlaceOK, FlagOK, [Next]_vars
    PROVE  FlagOK'
<1> USE DEF TypeOK
<1>1. ASSUME UNCHANGED vars PROVE FlagOK'
    BY <1>1 DEF vars, lock, FlagOK
<1>2. ASSUME NEW x \in DOMAIN LookedUp, Extract(x) \/ ExtractFails(x) PROVE FlagOK'
    BY <1>2 DEF Extract, ExtractFails, lock, FlagOK
<1>3. ASSUME NEW t \in Tasks, Mark(t) PROVE FlagOK'
    BY <1>3 DEF Mark, Active, FlagOK
<1>4. ASSUME NEW t \in Tasks, Mutate(t) PROVE FlagOK'
  <2>1. Ask(t, "write") \in Asked(held, queue) /\ Ask(t, "write").mode = "write"
      BY <1>4 DEF Mutate, Holds, Asked, Ask
  <2> QED
      BY <1>4, <2>1 DEF Mutate, Active, FlagOK
<1>5. ASSUME NEW t \in Tasks, LockWrite(t) PROVE FlagOK'
    BY <1>5 DEF LockWrite, Active, FlagOK
<1>6. ASSUME NEW t \in Tasks, LockRead(t) PROVE FlagOK'
  <2>1. Asked(held', queue') = Asked(held, queue) \cup {Ask(t, "read")}
      BY <1>6, ActionsLock DEF LockStep
  <2>2. Ask(t, "read").mode = "read"
      BY DEF Ask
  <2> QED
      BY <1>6, <2>1, <2>2 DEF LockRead, Active, FlagOK
<1>7. ASSUME NEW t \in Tasks, DropGuard(t) \/ Abort(t) PROVE FlagOK'
  <2>1. LockStep({t}, {})
      BY <1>7, ActionsLock
  <2>2. Asked(held', queue') \subseteq Asked(held, queue)
      BY <2>1 DEF LockStep
  <2> QED
      BY <1>7, <2>2 DEF DropGuard, Abort, Active, FlagOK
<1>8. ASSUME ServiceOk PROVE FlagOK'
    BY <1>8 DEF ServiceOk, lock, FlagOK
<1>9. ASSUME ServiceErr \/ Saving \/ Cancel PROVE FlagOK'
    BY <1>9 DEF ServiceErr, Saving, CheckClean, CheckDirty, Save, SaveFails, SetClean,
                Respond, Cancel, FlagOK
<1> QED
    BY <1>1, <1>2, <1>3, <1>4, <1>5, <1>6, <1>7, <1>8, <1>9 DEF Next, Task, Finished

\* No writer holds the lock together with the middleware.
LEMMA NoWriterBeside ==
    ASSUME LockOK, PlaceOK, Holds(Middleware, "read"), NEW t \in Tasks
    PROVE  Ask(t, "write") \notin held
<1>1. /\ Ask(t, "write").mode = "write" /\ Ask(t, "write").who = t
      /\ Ask(Middleware, "read").who = Middleware
    BY DEF Ask
<1> QED
    BY <1>1, HandleAssumption DEF LockOK, Orderly, Holds

\* When a task takes another step after the value was stored, it is not one that
\* wrote early.
LEMMA SettledStep ==
    ASSUME TypeOK, LockOK, PlaceOK, HalfOK, FlagOK, EarlyOK, SettledOK, [Next]_vars
    PROVE  SettledOK'
<1> DEFINE Settled == \A t \in early \cap Tasks : store[t] = data[t] /\ Ask(t, "write") \notin held
<1>1. mw # "handling" => early' = early
    BY StepLock DEF TaskLockStep, LockStep
<1>2. ASSUME Settled, early' = early, UNCHANGED <<store, data>>
      PROVE  Settled'
    BY <1>2, NoSecondAsk
<1>3. ASSUME UNCHANGED vars PROVE SettledOK'
    BY <1>3 DEF vars, lock, SettledOK
<1>4. ASSUME NEW x \in DOMAIN LookedUp, Extract(x) \/ ExtractFails(x) PROVE SettledOK'
    BY <1>4 DEF Extract, ExtractFails, SettledOK
<1>5. ASSUME NEW t \in Tasks, Mark(t) \/ LockWrite(t) \/ LockRead(t) \/ DropGuard(t) \/ Abort(t)
      PROVE  SettledOK'
  <2>1. UNCHANGED <<mw, reply, store, data>>
      BY <1>5 DEF Mark, LockWrite, LockRead, DropGuard, Abort
  <2>2. CASE mw \in {"saved", "clean"} \/ reply = "ok"
      BY <1>1, <1>2, <2>1, <2>2 DEF SettledOK
  <2>3. CASE ~ (mw \in {"saved", "clean"} \/ reply = "ok")
      BY <2>1, <2>3 DEF SettledOK
  <2> QED
      BY <2>2, <2>3
<1>6. ASSUME NEW t \in Tasks, Mutate(t) PROVE SettledOK'
  <2>1. /\ UNCHANGED <<mw, reply, store, held, early>>
        /\ \A u \in Tasks : u # t => data'[u] = data[u]
        /\ Ask(t, "write") \in held
      BY <1>6 DEF Mutate, lock, Holds, TypeOK
  <2> QED
      BY <2>1 DEF SettledOK
<1>7. ASSUME ServiceOk \/ ServiceErr PROVE SettledOK'
    BY <1>7 DEF ServiceOk, ServiceErr, SettledOK
<1>8. ASSUME CheckClean PROVE SettledOK'
  <2>1. \A t \in Tasks : Ask(t, "write") \notin held
    <3>1. \A t \in Tasks : Ask(t, "write").mode = "write"
        BY DEF Ask
    <3> QED
        BY <1>8, <3>1 DEF CheckClean, FlagOK, Asked
  <2>2. Settled
      BY <1>8, <2>1 DEF CheckClean, FlagOK
  <2> QED
      BY <1>8, <2>2 DEF CheckClean, lock, SettledOK
<1>9. ASSUME CheckDirty \/ SaveFails PROVE SettledOK'
    BY <1>9 DEF CheckDirty, SaveFails, SettledOK
<1>10. ASSUME Save PROVE SettledOK'
  <2>1. \A t \in Tasks : Ask(t, "write") \notin held
      BY <1>10, NoWriterBeside DEF Save
  <2> QED
      BY <1>10, <2>1 DEF Save, lock, SettledOK
<1>11. ASSUME SetClean PROVE SettledOK'
    BY <1>11 DEF SetClean, lock, SettledOK
<1>12. ASSUME Respond PROVE SettledOK'
  <2>1. Settled /\ mw' = "done" /\ UNCHANGED <<store, data>> /\ mw # "handling"
      BY <1>12 DEF Respond, SettledOK
  <2>2. Settled'
      BY <1>1, <1>2, <2>1
  <2> QED
      BY <2>1, <2>2 DEF SettledOK
<1>13. ASSUME Cancel PROVE SettledOK'
    BY <1>13 DEF Cancel, SettledOK
<1> QED
    BY <1>3, <1>4, <1>5, <1>6, <1>7, <1>8, <1>9, <1>10, <1>11, <1>12, <1>13
    DEF Next, Task, Saving, Finished

LEMMA WholeStep ==
    ASSUME TypeOK, LockOK, PlaceOK, HalfOK, SavedIsWhole, [Next]_vars
    PROVE  SavedIsWhole'
<1>1. aborted \subseteq aborted'
    BY DEF Next, Task, Saving, Finished, vars, Extract, ExtractFails, Mark, LockWrite,
           LockRead, Mutate, DropGuard, Abort, ServiceOk, ServiceErr, CheckClean,
           CheckDirty, Save, SaveFails, SetClean, Respond, Cancel
<1>2. store' = store \/ (store' = data /\ Holds(Middleware, "read"))
    BY DEF Next, Task, Saving, Finished, vars, Extract, ExtractFails, Mark, LockWrite,
           LockRead, Mutate, DropGuard, Abort, ServiceOk, ServiceErr, CheckClean,
           CheckDirty, Save, SaveFails, SetClean, Respond, Cancel
<1>3. Holds(Middleware, "read") => \A t \in Tasks : data[t] \in {0, Whole} \/ t \in aborted
    BY NoWriterBeside DEF HalfOK
<1> QED
    BY <1>1, <1>2, <1>3 DEF SavedIsWhole

-------------------------------------------------------------------------------

LEMMA InitHolds == Init => IInv
<1> SUFFICES ASSUME Init PROVE IInv
    OBVIOUS
<1> USE HandleAssumption DEF Init
<1>1. Len(queue) = 0 /\ queue \in Seq(Asks)
    BY EmptySeq
<1>2. TypeOK
    BY <1>1 DEF TypeOK, Whole
<1>3. Asked(held, queue) = {}
    BY <1>1 DEF Asked
<1>4. LockOK
    BY <1>1 DEF LockOK, Orderly
<1>5. PlaceOK /\ HalfOK /\ FlagOK /\ EarlyOK /\ SettledOK /\ SavedIsWhole
    BY <1>3 DEF PlaceOK, HalfOK, FlagOK, EarlyOK, SettledOK, SavedIsWhole
<1> QED
    BY <1>2, <1>4, <1>5 DEF IInv

LEMMA StepHolds == IInv /\ [Next]_vars => IInv'
<1> SUFFICES ASSUME IInv, [Next]_vars PROVE IInv'
    OBVIOUS
<1>1. /\ TypeOK /\ LockOK /\ PlaceOK /\ HalfOK /\ FlagOK /\ EarlyOK
      /\ SettledOK /\ SavedIsWhole
    BY DEF IInv
<1>2. TypeOK' /\ LockOK' /\ PlaceOK' /\ HalfOK' /\ FlagOK'
    BY <1>1, TypeStep, PlaceStep, HalfStep, FlagStep
<1>3. EarlyOK' /\ SettledOK' /\ SavedIsWhole'
    BY <1>1, <1>2, EarlyStep, SettledStep, WholeStep
<1> QED
    BY <1>2, <1>3 DEF IInv

LEMMA Invariance == Spec => []IInv
    BY InitHolds, StepHolds, PTL DEF Spec

-------------------------------------------------------------------------------
(* The theorems *)

\* For any number of tasks: whoever was given the write lock before the handler
\* returned has its write in the saved value when the request is answered.
THEOREM EarlyWritesSaved == Spec => []EarlyWritesAreSaved
<1>1. IInv => EarlyWritesAreSaved
    BY DEF IInv, SettledOK, EarlyWritesAreSaved
<1> QED
    BY <1>1, Invariance, PTL

\* For any number of tasks: the value is never stored from under a writer; half of a
\* write is stored only of a task that was dropped in the middle of it.
THEOREM SavedWhole == Spec => []SavedIsWhole
<1>1. IInv => SavedIsWhole
    BY DEF IInv
<1> QED
    BY <1>1, Invariance, PTL
================================================================================
