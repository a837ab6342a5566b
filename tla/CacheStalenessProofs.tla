------------------------- MODULE CacheStalenessProofs --------------------------
(***************************************************************************)
(* Safety of the response cache and of its in-memory store for every set   *)
(* of requests and keys, every limit and lifetime, with or without failing *)
(* store calls.                                                            *)
(***************************************************************************)
EXTENDS CacheStaleness, FiniteSetTheorems, SequenceTheorems, TLAPS

-------------------------------------------------------------------------------
(* The inductive invariant of the cache *)

Bound == IF MaxEntries = 0 THEN 1 ELSE MaxEntries

\* A set runs inside the request that called it.
PlaceOK == \A r \in Requests : setting[r] # "idle" => pc[r] = "storing"

\* As long as no two sets have overlapped, at most one is under way.
SoleOK ==
    crossed \/ \A r, q \in Requests :
                   setting[r] # "idle" /\ setting[q] # "idle" => r = q

\* While clear is between its two halves and nothing has overlapped it, there is
\* nothing in the map and nobody to put something there.
ClearOK == clearing /\ ~ cut => Held = {} /\ Setting = {}

HeldFinite == IsFiniteSet(Held)

\* A set that is about to insert has left room for its entry.
RoomOK ==
    crossed \/ cut \/ \A r \in Requests :
        setting[r] = "inserting" => Cardinality(Held) < Bound

CacheInv ==
    /\ TypeOK /\ PlaceOK /\ SoleOK /\ ClearOK /\ EveryEntryIsEvictable
    /\ HeldFinite /\ RoomOK /\ SizeIsBounded

-------------------------------------------------------------------------------
(* What the histories of CacheStaleness add to it *)

StaleTypeOK ==
    /\ setAt \in [Requests -> Int]
    /\ stored \in SUBSET Requests
    /\ before \in [Requests -> SUBSET Requests]
    /\ outdated \in SUBSET Requests

\* Only a request that is over, or storing, has a whole response.
KeptOK == \A r \in kept : pc[r] \in {"storing", "done", "dropped"}

\* Nobody has been answered before it looked into the store.
ReplyOK == \A r \in Requests : pc[r] = "new" => reply[r].kind = "none"

\* The expiry a set will write is its beginning and a lifetime.
ExpiryOK ==
    \A r \in Requests : setting[r] = "inserting" =>
        r \in kept /\ r \notin stored /\ expires_at[r] = setAt[r] + Ttl

\* An entry is a whole response of a request of its key, and lives as long as the
\* set that stored it computed.
EntryOK ==
    \A k \in Held : LET q == entries[k].by IN
        /\ q \in kept \cap stored
        /\ KeyOf[q] = k
        /\ entries[k].expires_at = setAt[q] + Ttl

StoredOK == stored \subseteq kept

OutdatedOK == \A q \in outdated : pc[q] \in {"done", "dropped"}

\* What had been stored when a request missed is not what can be read now.
BeforeOK ==
    \A r \in Requests :
        /\ before[r] \subseteq stored
        /\ KeyOf[r] \in Readable => entries[KeyOf[r]].by \notin before[r]

StaleInv ==
    /\ StaleTypeOK /\ KeptOK /\ ReplyOK /\ ExpiryOK /\ EntryOK /\ StoredOK
    /\ OutdatedOK /\ BeforeOK /\ DeletedComesBackOnlyInFlight

-------------------------------------------------------------------------------
(* Eviction *)

\* A set of naturals has a least element: the intervals up to its elements are
\* finite, and inclusion is well founded on finite sets.
LEMMA LeastElement ==
    ASSUME NEW T \in SUBSET Nat, T # {}
    PROVE  \E m \in T : \A n \in T : m <= n
<1> DEFINE Below == {0..n : n \in T}
<1>1. \A n \in T : 0..n \in FiniteSubsetsOf(Nat)
  <2> TAKE n \in T
  <2>1. IsFiniteSet(0..n)
      BY FS_Interval
  <2> QED
      BY <2>1 DEF FiniteSubsetsOf
<1>2. Below \subseteq FiniteSubsetsOf(Nat) /\ Below # {}
    BY <1>1
<1> HIDE DEF Below
<1>3. PICK least \in Below : \A b \in Below : <<b, least>> \notin StrictSubsetOrdering(Nat)
    BY <1>2, FS_StrictSubsetOrderingWellFounded, WFMin
<1>4. PICK m \in T : least = 0..m
    BY DEF Below
<1>5. ASSUME NEW n \in T, n < m PROVE FALSE
  <2>1. 0..n \in Below
      BY DEF Below
  <2>2. 0..n \subseteq 0..m /\ 0..n # 0..m /\ 0..n \in SUBSET Nat /\ 0..m \in SUBSET Nat
      BY <1>5
  <2>3. <<0..n, least>> \in StrictSubsetOrdering(Nat)
      BY <1>4, <2>2 DEF StrictSubsetOrdering
  <2> QED
      BY <1>3, <2>1, <2>3
<1> QED
    BY <1>5

\* The eviction loop stops: when it has made room, or when the queue is empty.
LEMMA PopsStops ==
    ASSUME TypeOK, HeldFinite
    PROVE  /\ Pops \in 0..Len(order)
           /\ Pops = Len(order) \/ Cardinality(LeftAfter(Pops)) < MaxEntries
<1> DEFINE Stops(n) == n = Len(order) \/ Cardinality(LeftAfter(n)) < MaxEntries
           T == {n \in 0..Len(order) : Stops(n)}
<1>1. Len(order) \in Nat
    BY DEF TypeOK
<1>2. T \in SUBSET Nat /\ T # {}
  <2>1. Len(order) \in T
      BY <1>1
  <2> QED
      BY <1>1, <2>1
<1>3. \A n : Cardinality(LeftAfter(n)) \in Nat
  <2> TAKE n
  <2>1. LeftAfter(n) \in SUBSET Held
      BY DEF LeftAfter, Readable
  <2> QED
      BY <2>1, FS_Subset, FS_CardinalityType DEF HeldFinite
<1>4. PICK m \in T : \A n \in T : m <= n
    BY <1>2, LeastElement
<1>5. ASSUME NEW n \in 0..(m - 1)
      PROVE  Cardinality(LeftAfter(n)) >= MaxEntries
  <2>1. n \in 0..Len(order) /\ n < m
      BY <1>1, <1>4
  <2>2. n \notin T
      BY <1>4, <2>1
  <2>3. ~ (Cardinality(LeftAfter(n)) < MaxEntries)
      BY <2>1, <2>2
  <2> QED
      BY <1>3, <2>3, CacheAssumption
<1>6. /\ m \in 0..Len(order)
      /\ m = Len(order) \/ Cardinality(LeftAfter(m)) < MaxEntries
      /\ \A n \in 0..(m - 1) : Cardinality(LeftAfter(n)) >= MaxEntries
    BY <1>4, <1>5
<1> HIDE DEF T, Stops
<1> QED
    BY <1>6 DEF Pops

\* What is left of the queue: the keys that were not popped, each still there.
LEMMA QueueAfterEvict ==
    ASSUME TypeOK, HeldFinite
    PROVE  /\ SubSeq(order, Pops + 1, Len(order)) \in Seq(Keys)
           /\ \A i \in DOMAIN order :
                i \notin 1..Pops =>
                  \E j \in DOMAIN SubSeq(order, Pops + 1, Len(order)) :
                    SubSeq(order, Pops + 1, Len(order))[j] = order[i]
<1>1. /\ Len(order) \in Nat /\ DOMAIN order = 1..Len(order)
      /\ \A i \in 1..Len(order) : order[i] \in Keys
    BY DEF TypeOK
<1>2. PICK n \in 0..Len(order) : n = Pops
    BY PopsStops
<1>3. \A i \in (n + 1)..Len(order) : order[i] \in Keys
    BY <1>1
<1>4. PICK rest : rest = SubSeq(order, n + 1, Len(order))
    OBVIOUS
<1>5. /\ rest \in Seq(Keys)
      /\ Len(rest) = IF n + 1 <= Len(order) THEN Len(order) - (n + 1) + 1 ELSE 0
      /\ \A j \in 1..(Len(order) - (n + 1) + 1) : rest[j] = order[n + 1 + j - 1]
    BY <1>1, <1>3, <1>4, SubSeqProperties
<1>6. ASSUME NEW i \in 1..Len(order), i \notin 1..n
      PROVE  \E j \in DOMAIN rest : rest[j] = order[i]
  <2>1. i - n \in 1..(Len(order) - (n + 1) + 1) /\ n + 1 + (i - n) - 1 = i
      BY <1>1, <1>6
  <2>2. DOMAIN rest = 1..Len(rest)
      BY <1>5
  <2>3. i - n \in DOMAIN rest
    <3>1. n + 1 <= Len(order)
        BY <1>1, <1>6
    <3>2. Len(rest) = Len(order) - (n + 1) + 1
        BY <1>5, <3>1
    <3> QED
        BY <2>1, <2>2, <3>2
  <2>4. rest[i - n] = order[n + 1 + (i - n) - 1]
      BY <1>5, <2>1
  <2> QED
      BY <2>1, <2>3, <2>4
<1> QED
    BY <1>1, <1>2, <1>4, <1>5, <1>6

-------------------------------------------------------------------------------
(* The steps of a request *)

\* A step of a request that leaves the store alone.
Aside(r) ==
    /\ pc[r] \in {"new", "bypass", "calling", "buffering"}
    /\ \E p \in {"bypass", "calling", "buffering", "done"} :
           pc' = [pc EXCEPT ![r] = p]
    /\ reply' \in [Requests -> [kind : Kinds, of : Requests]]
    /\ \A q \in Requests \ {r} : reply'[q] = reply[q]
    /\ pc[r] # "new" => reply'[r].kind # "hit" \/ reply'[r] = reply[r]
    /\ UNCHANGED <<storeVars, history>>

\* Whatever a request does, it leaves the store alone or takes one of the four
\* steps of a set.
LEMMA RequestSteps ==
    ASSUME TypeOK, NEW r \in Requests, Request(r)
    PROVE  \/ Aside(r)
           \/ BodyRead(r) \/ StoreInserts(r) \/ StorePushes(r) \/ Cancel(r)
<1> DEFINE Answers == [kind : Kinds, of : Requests]
<1>1. pc \in [Requests -> Places] /\ reply \in [Requests -> Answers]
    BY DEF TypeOK
<1>2. ASSUME NEW p \in {"bypass", "calling", "buffering", "done"}, Goto(r, p),
             pc[r] \in {"new", "bypass", "calling", "buffering"},
             UNCHANGED reply, UNCHANGED <<storeVars, history>>
      PROVE  Aside(r)
    BY <1>1, <1>2 DEF Aside, Goto
<1>3. ASSUME NEW k \in Kinds, NEW q \in Requests, Reply(r, k, q),
             k = "hit" => pc[r] = "new",
             pc[r] \in {"new", "bypass", "calling", "buffering"},
             UNCHANGED <<storeVars, history>>
      PROVE  Aside(r)
  <2>1. /\ reply' = [reply EXCEPT ![r] = [kind |-> k, of |-> q]]
        /\ pc' = [pc EXCEPT ![r] = "done"]
      BY <1>3 DEF Reply, Goto
  <2>2. [kind |-> k, of |-> q] \in Answers
      OBVIOUS
  <2>3. reply' \in [Requests -> Answers] /\ reply'[r] = [kind |-> k, of |-> q]
      BY <1>1, <2>1, <2>2
  <2>4. \A x \in Requests \ {r} : reply'[x] = reply[x]
      BY <1>1, <2>1
  <2>5. pc[r] # "new" => reply'[r].kind # "hit"
      BY <1>3, <2>3
  <2> QED
      BY <1>3, <2>1, <2>3, <2>4, <2>5 DEF Aside
<1>4. "own" \in Kinds /\ "hit" \in Kinds
    BY DEF Kinds
<1>5. CASE Bypass(r)
    BY <1>2, <1>5 DEF Bypass
<1>6. CASE BypassReturns(r)
    BY <1>3, <1>4, <1>6 DEF BypassReturns
<1>7. CASE Hit(r)
  <2>1. KeyOf[r] \in Keys /\ entries[KeyOf[r]].by \in Requests
      BY <1>7 DEF Hit, Readable, Held, TypeOK
  <2> QED
      BY <1>3, <1>4, <1>7, <2>1 DEF Hit
<1>8. CASE Miss(r)
    BY <1>2, <1>8 DEF Miss
<1>9. CASE GetFails(r)
    BY <1>2, <1>9 DEF GetFails
<1>10. CASE ServiceReturns(r)
    BY <1>3, <1>4, <1>10 DEF ServiceReturns
<1>11. CASE ServiceCacheable(r)
    BY <1>2, <1>11 DEF ServiceCacheable
<1>12. CASE BodyFails(r)
    BY <1>3, <1>4, <1>12 DEF BodyFails
<1>13. CASE SetFails(r)
    BY <1>3, <1>4, <1>13 DEF SetFails
<1> QED
    BY <1>5, <1>6, <1>7, <1>8, <1>9, <1>10, <1>11, <1>12, <1>13
       DEF Request, Stage

Times == 0..(MaxTime + Ttl)
Entries == [by : Requests, expires_at : Times]

\* What a step of a set, of a delete or of a clear does to the map.
LEMMA AbsentIsNoEntry == Absent \notin Entries
<1>1. Times \subseteq Int
    BY DEF Times
<1> QED
    BY <1>1, CacheAssumption DEF Entries, Requests

LEMMA EvictLeaves ==
    ASSUME TypeOK, NEW r \in Requests, Evict(r)
    PROVE  /\ Held' = LeftAfter(Pops)
           /\ Held' \subseteq Readable
           /\ \A k \in Held' : entries'[k] = entries[k]
           /\ entries' \in [Keys -> Entries \cup {Absent}]
<1>1. entries \in [Keys -> Entries \cup {Absent}]
    BY DEF TypeOK, Entries, Times
<1>2. PICK left : left = LeftAfter(Pops)
    OBVIOUS
<1>3. left \subseteq Readable /\ left \subseteq Keys /\ \A k \in left : entries[k] # Absent
    BY <1>2 DEF LeftAfter, Readable, Held
<1>4. entries' = [k \in Keys |-> IF k \in left THEN entries[k] ELSE Absent]
    BY <1>2 DEF Evict
<1>5. Held' = left
    BY <1>3, <1>4 DEF Held
<1>6. entries' \in [Keys -> Entries \cup {Absent}]
    BY <1>1, <1>4
<1> QED
    BY <1>2, <1>3, <1>4, <1>5, <1>6

LEMMA InsertAdds ==
    ASSUME TypeOK, NEW r \in Requests, Insert(r)
    PROVE  /\ Held' = Held \cup {KeyOf[r]}
           /\ KeyOf[r] \in Keys
           /\ entries'[KeyOf[r]] = [by |-> r, expires_at |-> expires_at[r]]
           /\ \A k \in Keys \ {KeyOf[r]} : entries'[k] = entries[k]
           /\ entries' \in [Keys -> Entries \cup {Absent}]
<1>1. entries \in [Keys -> Entries \cup {Absent}] /\ expires_at[r] \in Times
    BY DEF TypeOK, Entries, Times
<1>2. PICK new : new = [by |-> r, expires_at |-> expires_at[r]]
    OBVIOUS
<1>3. new \in Entries
    BY <1>1, <1>2 DEF Entries
<1>4. new # Absent
    BY <1>3, AbsentIsNoEntry
<1>5. KeyOf[r] \in Keys
    BY CacheAssumption DEF Requests
<1>6. entries' = [entries EXCEPT ![KeyOf[r]] = new]
    BY <1>2 DEF Insert
<1>7. /\ entries'[KeyOf[r]] = new
      /\ \A k \in Keys \ {KeyOf[r]} : entries'[k] = entries[k]
      /\ entries' \in [Keys -> Entries \cup {Absent}]
    BY <1>1, <1>3, <1>5, <1>6
<1>8. Held' = Held \cup {KeyOf[r]}
    BY <1>4, <1>5, <1>7 DEF Held
<1> QED
    BY <1>2, <1>5, <1>7, <1>8

LEMMA DeleteRemoves ==
    ASSUME TypeOK, NEW k \in Keys, Delete(k)
    PROVE  /\ Held' = Held \ {k}
           /\ \A x \in Held' : entries'[x] = entries[x]
           /\ entries' \in [Keys -> Entries \cup {Absent}]
<1>1. entries \in [Keys -> Entries \cup {Absent}]
    BY DEF TypeOK, Entries, Times
<1>2. entries' = [entries EXCEPT ![k] = Absent]
    BY DEF Delete
<1>3. \A x \in Keys : entries'[x] = IF x = k THEN Absent ELSE entries[x]
    BY <1>1, <1>2
<1>4. Held' = Held \ {k}
    BY <1>3 DEF Held
<1>5. \A x \in Held' : entries'[x] = entries[x]
    BY <1>3, <1>4 DEF Held
<1>6. entries' \in [Keys -> Entries \cup {Absent}]
    BY <1>1, <1>2
<1> QED
    BY <1>4, <1>5, <1>6

LEMMA ClearEmpties ==
    ASSUME ClearEntries
    PROVE  /\ Held' = {}
           /\ entries' \in [Keys -> Entries \cup {Absent}]
    BY DEF ClearEntries, Held

\* When set returns the request is over, otherwise it is where it was.
LEMMA SetReturnsType ==
    ASSUME TypeOK, NEW r \in Requests, SetReturns(r)
    PROVE  /\ pc' \in [Requests -> Places]
           /\ \A q \in Requests \ {r} : pc'[q] = pc[q]
           /\ pc'[r] = IF setting'[r] = "idle" THEN "done" ELSE pc[r]
           /\ reply' \in [Requests -> [kind : Kinds, of : Requests]]
           /\ \A q \in Requests \ {r} : reply'[q] = reply[q]
           /\ reply'[r] = reply[r] \/ reply'[r].kind = "own"
<1> DEFINE Answers == [kind : Kinds, of : Requests]
<1>1. pc \in [Requests -> Places] /\ reply \in [Requests -> Answers]
    BY DEF TypeOK
<1>2. CASE setting'[r] = "idle"
  <2>1. PICK own \in Answers : own = [kind |-> "own", of |-> r]
      BY DEF Kinds
  <2>2. pc' = [pc EXCEPT ![r] = "done"] /\ reply' = [reply EXCEPT ![r] = own]
      BY <1>2, <2>1 DEF SetReturns, Reply, Goto
  <2>3. "done" \in Places
      BY DEF Places
  <2>4. own.kind = "own"
      BY <2>1
  <2> QED
      BY <1>1, <1>2, <2>2, <2>3, <2>4
<1>3. CASE setting'[r] # "idle"
    BY <1>1, <1>3 DEF SetReturns
<1> QED
    BY <1>2, <1>3

LEMMA TypeInit == Init => TypeOK
<1> SUFFICES ASSUME Init PROVE TypeOK
    OBVIOUS
<1>1. 0 \in 0..MaxTime /\ 0 \in 0..(MaxTime + Ttl)
    BY CacheAssumption
<1>2. << >> \in Seq(Keys)
    OBVIOUS
<1>3. reply \in [Requests -> [kind : Kinds, of : Requests]]
    BY DEF Init, Kinds
<1>4. /\ entries \in [Keys -> Entries \cup {Absent}]
      /\ setting \in [Requests -> Phases]
      /\ expires_at \in [Requests -> Times]
      /\ pc \in [Requests -> Places]
    BY <1>1 DEF Init, StoreInit, Phases, Places, Times, Requests
<1>5. /\ clock = 0 /\ order = << >> /\ clearing = FALSE
      /\ kept = {} /\ crossed = FALSE /\ cut = FALSE
    BY DEF Init, StoreInit
<1> QED
    BY <1>1, <1>2, <1>3, <1>4, <1>5 DEF TypeOK, Entries, Times

LEMMA TypeStep == TypeOK /\ HeldFinite /\ [Next]_vars => TypeOK'
<1> SUFFICES ASSUME TypeOK, HeldFinite, [Next]_vars PROVE TypeOK'
    OBVIOUS
<1> DEFINE Answers == [kind : Kinds, of : Requests]
<1>1. /\ clock \in 0..MaxTime /\ clock \in Times /\ clock + Ttl \in Times /\ 0 \in Times
      /\ entries \in [Keys -> Entries \cup {Absent}]
      /\ order \in Seq(Keys)
      /\ setting \in [Requests -> Phases]
      /\ expires_at \in [Requests -> Times]
      /\ clearing \in BOOLEAN /\ pc \in [Requests -> Places]
      /\ reply \in [Requests -> Answers]
      /\ kept \in SUBSET Requests /\ crossed \in BOOLEAN /\ cut \in BOOLEAN
    BY CacheAssumption DEF TypeOK, Times, Entries
<1>2. ASSUME   /\ clock' \in 0..MaxTime
               /\ entries' \in [Keys -> Entries \cup {Absent}]
               /\ order' \in Seq(Keys)
               /\ setting' \in [Requests -> Phases]
               /\ expires_at' \in [Requests -> Times]
               /\ clearing' \in BOOLEAN /\ pc' \in [Requests -> Places]
               /\ reply' \in [Requests -> Answers]
               /\ kept' \in SUBSET Requests /\ crossed' \in BOOLEAN /\ cut' \in BOOLEAN
      PROVE    TypeOK'
    BY <1>2 DEF TypeOK, Times, Entries
<1>3. ASSUME NEW r \in Requests, Aside(r) PROVE TypeOK'
  <2>1. PICK p \in Places : pc' = [pc EXCEPT ![r] = p]
      BY <1>3 DEF Aside, Places
  <2> QED
      BY <1>1, <1>2, <1>3, <2>1 DEF Aside, storeVars, history
<1>4. ASSUME NEW r \in Requests, BodyRead(r) PROVE TypeOK'
  <2>1. entries' \in [Keys -> Entries \cup {Absent}]
      BY <1>4, EvictLeaves DEF BodyRead
  <2>2. order' \in Seq(Keys)
      BY <1>4, QueueAfterEvict DEF BodyRead, Evict
  <2>3. setting' \in [Requests -> Phases] /\ expires_at' \in [Requests -> Times]
      BY <1>1, <1>4 DEF BodyRead, Evict, Expiry, Phases
  <2>4. pc' \in [Requests -> Places]
      BY <1>1, <1>4 DEF BodyRead, Goto, Places
  <2>5. kept' \in SUBSET Requests /\ crossed' \in BOOLEAN /\ cut' \in BOOLEAN
      BY <1>1, <1>4 DEF BodyRead
  <2> QED
      BY <1>1, <1>2, <1>4, <2>1, <2>2, <2>3, <2>4, <2>5 DEF BodyRead, Evict
<1>5. ASSUME NEW r \in Requests, StoreInserts(r) PROVE TypeOK'
  <2>1. entries' \in [Keys -> Entries \cup {Absent}]
      BY <1>5, InsertAdds DEF StoreInserts
  <2>2. setting' \in [Requests -> Phases] /\ expires_at' \in [Requests -> Times]
      BY <1>1, <1>5 DEF StoreInserts, Insert, Phases
  <2>3. pc' \in [Requests -> Places] /\ reply' \in [Requests -> Answers]
      BY <1>5, SetReturnsType DEF StoreInserts
  <2> QED
      BY <1>1, <1>2, <1>5, <2>1, <2>2, <2>3 DEF StoreInserts, Insert, history
<1>6. ASSUME NEW r \in Requests, StorePushes(r) PROVE TypeOK'
  <2>1. order' \in Seq(Keys)
    <3>1. KeyOf[r] \in Keys
        BY CacheAssumption DEF Requests
    <3> QED
        BY <1>1, <1>6, <3>1, AppendProperties DEF StorePushes, Push
  <2>2. setting' \in [Requests -> Phases]
      BY <1>1, <1>6 DEF StorePushes, Push, Phases
  <2>3. pc' \in [Requests -> Places] /\ reply' \in [Requests -> Answers]
      BY <1>6, SetReturnsType DEF StorePushes
  <2> QED
      BY <1>1, <1>2, <1>6, <2>1, <2>2, <2>3 DEF StorePushes, Push, history
<1>7. ASSUME NEW r \in Requests, Cancel(r) PROVE TypeOK'
  <2>1. setting' \in [Requests -> Phases] /\ expires_at' \in [Requests -> Times]
      BY <1>1, <1>7 DEF Cancel, DropSet, Phases
  <2>2. pc' \in [Requests -> Places] /\ cut' \in BOOLEAN
      BY <1>1, <1>7 DEF Cancel, Goto, Places
  <2> QED
      BY <1>1, <1>2, <1>7, <2>1, <2>2 DEF Cancel, DropSet
<1>8. ASSUME NEW k \in Keys, AppDeletes(k) PROVE TypeOK'
  <2>1. entries' \in [Keys -> Entries \cup {Absent}]
      BY <1>8, DeleteRemoves DEF AppDeletes
  <2> QED
      BY <1>1, <1>2, <1>8, <2>1 DEF AppDeletes, Delete, history
<1>9. CASE AppClears
  <2>1. cut' \in BOOLEAN /\ clearing' \in BOOLEAN
      BY <1>1, <1>9 DEF AppClears, ClearEntries, ClearOrder
  <2>2. entries' \in [Keys -> Entries \cup {Absent}]
      BY <1>1, <1>9, ClearEmpties DEF AppClears, ClearOrder
  <2>3. order' \in Seq(Keys)
    <3>1. << >> \in Seq(Keys)
        OBVIOUS
    <3> QED
        BY <1>1, <1>9, <3>1 DEF AppClears, ClearEntries, ClearOrder
  <2> QED
      BY <1>1, <1>2, <1>9, <2>1, <2>2, <2>3 DEF AppClears, ClearEntries, ClearOrder
<1>10. CASE TimePasses
  <2>1. clock' \in 0..MaxTime
      BY <1>1, <1>10, CacheAssumption DEF TimePasses, Tick
  <2> QED
      BY <1>1, <1>2, <1>10, <2>1 DEF TimePasses, Tick, history
<1>11. CASE UNCHANGED vars
    BY <1>1, <1>2, <1>11 DEF vars, storeVars, history
<1> QED
    BY <1>3, <1>4, <1>5, <1>6, <1>7, <1>8, <1>9, <1>10, <1>11, RequestSteps
       DEF Next, Finished

-------------------------------------------------------------------------------
(* The sets under way, and what bounds the map *)

\* A set is under way only inside the request that is storing, and two are under
\* way at a time only after they have overlapped.
LEMMA SetsStep ==
    ASSUME TypeOK, PlaceOK, SoleOK, [Next]_vars
    PROVE  PlaceOK' /\ SoleOK'
<1>1. setting \in [Requests -> Phases] /\ pc \in [Requests -> Places]
    BY DEF TypeOK
<1>2. ASSUME NEW r \in Requests, Aside(r) PROVE PlaceOK' /\ SoleOK'
  <2>1. setting[r] = "idle" /\ setting' = setting /\ crossed' = crossed
      BY <1>2 DEF Aside, PlaceOK, storeVars, history
  <2>2. \A q \in Requests \ {r} : pc'[q] = pc[q]
      BY <1>1, <1>2 DEF Aside
  <2> QED
      BY <2>1, <2>2 DEF PlaceOK, SoleOK
<1>3. ASSUME NEW r \in Requests, BodyRead(r) PROVE PlaceOK' /\ SoleOK'
  <2>1. /\ setting' = [setting EXCEPT ![r] = "inserting"]
        /\ pc' = [pc EXCEPT ![r] = "storing"]
        /\ crossed' = (crossed \/ Setting # {})
      BY <1>3 DEF BodyRead, Evict, Goto
  <2>2. PlaceOK'
      BY <1>1, <2>1 DEF PlaceOK
  <2>3. SoleOK'
    <3>1. CASE Setting = {}
      <4>1. \A q \in Requests \ {r} : setting'[q] = "idle"
          BY <1>1, <2>1, <3>1 DEF Setting
      <4> QED
          BY <4>1 DEF SoleOK
    <3>2. CASE Setting # {}
        BY <2>1, <3>2 DEF SoleOK
    <3> QED
        BY <3>1, <3>2
  <2> QED
      BY <2>2, <2>3
<1>4. ASSUME NEW r \in Requests,
             StoreInserts(r) \/ StorePushes(r) \/ Cancel(r)
      PROVE  PlaceOK' /\ SoleOK'
  <2>1. /\ \A q \in Requests \ {r} : setting'[q] = setting[q] /\ pc'[q] = pc[q]
        /\ setting'[r] # "idle" => setting[r] # "idle" /\ pc'[r] = pc[r]
        /\ crossed' = crossed
    <3>1. CASE StoreInserts(r)
        BY <1>1, <3>1, SetReturnsType DEF StoreInserts, Insert, history
    <3>2. CASE StorePushes(r)
        BY <1>1, <3>2, SetReturnsType DEF StorePushes, Push, history
    <3>3. CASE Cancel(r)
        BY <1>1, <3>3 DEF Cancel, DropSet, Goto
    <3> QED
        BY <1>4, <3>1, <3>2, <3>3
  <2>2. \A q \in Requests : setting'[q] # "idle" => setting[q] # "idle" /\ pc'[q] = pc[q]
      BY <2>1
  <2> QED
      BY <2>1, <2>2 DEF PlaceOK, SoleOK
<1>5. ASSUME UNCHANGED <<setting, pc, crossed>> PROVE PlaceOK' /\ SoleOK'
    BY <1>5 DEF PlaceOK, SoleOK
<1>6. ASSUME NEW k \in Keys, AppDeletes(k) PROVE UNCHANGED <<setting, pc, crossed>>
    BY <1>6 DEF AppDeletes, Delete, history
<1>7. CASE AppClears
    BY <1>5, <1>7 DEF AppClears, ClearEntries, ClearOrder
<1>8. CASE TimePasses
    BY <1>5, <1>8 DEF TimePasses, Tick, history
<1>9. CASE UNCHANGED vars
    BY <1>5, <1>9 DEF vars, storeVars, history
<1> QED
    BY <1>2, <1>3, <1>4, <1>5, <1>6, <1>7, <1>8, <1>9, RequestSteps
       DEF Next, Finished

\* A clear that nothing overlaps finds nothing new when it empties the queue.
LEMMA ClearStep ==
    ASSUME TypeOK, ClearOK, [Next]_vars
    PROVE  ClearOK'
<1>1. setting \in [Requests -> Phases]
    BY DEF TypeOK
<1>2. SUFFICES ASSUME clearing', ~ cut' PROVE Held' = {} /\ Setting' = {}
    BY DEF ClearOK
<1>3. ASSUME clearing, ~ cut, Held' \subseteq Held,
             \A q \in Requests : setting'[q] # "idle" => setting[q] # "idle"
      PROVE  Held' = {} /\ Setting' = {}
  <2>1. Held = {} /\ Setting = {}
      BY <1>3 DEF ClearOK
  <2>2. Setting' = {}
      BY <1>3, <2>1 DEF Setting
  <2> QED
      BY <1>3, <2>1, <2>2
<1>4. ASSUME NEW r \in Requests, Aside(r) PROVE Held' = {} /\ Setting' = {}
    BY <1>2, <1>3, <1>4 DEF Aside, storeVars, history, Held
<1>5. ASSUME NEW r \in Requests, BodyRead(r) PROVE FALSE
    BY <1>2, <1>5 DEF BodyRead, Evict
<1>6. ASSUME NEW r \in Requests, StoreInserts(r) PROVE FALSE
  <2>1. clearing /\ ~ cut /\ r \in Setting
      BY <1>2, <1>6 DEF StoreInserts, Insert, history, Setting
  <2> QED
      BY <2>1 DEF ClearOK
<1>7. ASSUME NEW r \in Requests, StorePushes(r) PROVE FALSE
  <2>1. clearing /\ ~ cut /\ r \in Setting
      BY <1>2, <1>7 DEF StorePushes, Push, history, Setting
  <2> QED
      BY <2>1 DEF ClearOK
<1>8. ASSUME NEW r \in Requests, Cancel(r) PROVE Held' = {} /\ Setting' = {}
  <2>1. clearing /\ ~ cut /\ Held' = Held
      BY <1>2, <1>8 DEF Cancel, DropSet, Held
  <2>2. \A q \in Requests : setting'[q] # "idle" => setting[q] # "idle"
      BY <1>1, <1>8 DEF Cancel, DropSet
  <2> QED
      BY <1>3, <2>1, <2>2
<1>9. ASSUME NEW k \in Keys, AppDeletes(k) PROVE Held' = {} /\ Setting' = {}
  <2>1. Held' \subseteq Held
      BY <1>9, DeleteRemoves DEF AppDeletes
  <2>2. clearing /\ ~ cut /\ setting' = setting
      BY <1>2, <1>9 DEF AppDeletes, Delete, history
  <2> QED
      BY <1>3, <2>1, <2>2
<1>10. CASE AppClears
  <2>1. CASE ClearEntries
    <3>1. Setting = {} /\ setting' = setting
        BY <1>2, <1>10, <2>1 DEF AppClears, ClearEntries
    <3>2. Setting' = {}
        BY <3>1 DEF Setting
    <3> QED
        BY <2>1, <3>2, ClearEmpties
  <2>2. CASE ClearOrder
      BY <1>2, <2>2 DEF ClearOrder
  <2> QED
      BY <1>10, <2>1, <2>2 DEF AppClears
<1>11. CASE TimePasses
    BY <1>2, <1>3, <1>11 DEF TimePasses, Tick, history, Held
<1>12. CASE UNCHANGED vars
    BY <1>2, <1>3, <1>12 DEF vars, storeVars, history, Held
<1> QED
    BY <1>4, <1>5, <1>6, <1>7, <1>8, <1>9, <1>10, <1>11, <1>12, RequestSteps
       DEF Next, Finished

\* Eviction can find the key, now or when the set that pushes it goes on.
Queued(k) == \E i \in DOMAIN order : order[i] = k
Coming(k) == \E r \in Requests : setting[r] = "pushing" /\ KeyOf[r] = k

\* Unless something was cut off, whatever the map holds after a step eviction can
\* still find.
LEMMA EvictableStep ==
    ASSUME TypeOK, HeldFinite, ClearOK, EveryEntryIsEvictable, [Next]_vars
    PROVE  EveryEntryIsEvictable'
<1>1. setting \in [Requests -> Phases]
    BY DEF TypeOK
<1>2. SUFFICES ASSUME ~ cut', NEW k \in Held' PROVE Queued(k)' \/ Coming(k)'
    BY DEF EveryEntryIsEvictable, Queued, Coming
<1>3. cut \/ k \notin Held \/ Queued(k) \/ Coming(k)
    BY DEF EveryEntryIsEvictable, Queued, Coming
<1>4. ASSUME ~ cut, k \in Held, order' = order, setting' = setting
      PROVE  Queued(k)' \/ Coming(k)'
    BY <1>3, <1>4 DEF Queued, Coming
<1>5. ASSUME NEW r \in Requests, Aside(r) PROVE Queued(k)' \/ Coming(k)'
    BY <1>2, <1>4, <1>5 DEF Aside, storeVars, history, Held
<1>6. ASSUME NEW r \in Requests, BodyRead(r) PROVE Queued(k)' \/ Coming(k)'
  <2>1. ~ cut /\ Evict(r)
      BY <1>2, <1>6 DEF BodyRead
  <2>2. k \in Held /\ k \in LeftAfter(Pops)
      BY <1>2, <2>1, EvictLeaves DEF LeftAfter, Readable
  <2>3. CASE Queued(k)
    <3>1. PICK i \in DOMAIN order : order[i] = k
        BY <2>3 DEF Queued
    <3>2. i \notin 1..Pops
        BY <2>2, <3>1 DEF LeftAfter
    <3>3. \E j \in DOMAIN order' : order'[j] = k
        BY <2>1, <3>1, <3>2, QueueAfterEvict DEF Evict
    <3> QED
        BY <3>3 DEF Queued
  <2>4. CASE Coming(k)
    <3>1. PICK q \in Requests : setting[q] = "pushing" /\ KeyOf[q] = k
        BY <2>4 DEF Coming
    <3>2. setting'[q] = "pushing"
        BY <1>1, <2>1, <3>1 DEF Evict
    <3> QED
        BY <3>1, <3>2 DEF Coming
  <2> QED
      BY <1>3, <2>1, <2>2, <2>3, <2>4
<1>7. ASSUME NEW r \in Requests, StoreInserts(r) PROVE Queued(k)' \/ Coming(k)'
  <2>1. ~ cut /\ Insert(r) /\ order' = order
      BY <1>2, <1>7 DEF StoreInserts, Insert, history
  <2>2. CASE k \in Held
    <3>1. CASE Queued(k)
        BY <2>1, <3>1 DEF Queued
    <3>2. CASE Coming(k)
      <4>1. PICK q \in Requests : setting[q] = "pushing" /\ KeyOf[q] = k
          BY <3>2 DEF Coming
      <4>2. setting'[q] = "pushing"
          BY <1>1, <2>1, <4>1 DEF Insert
      <4> QED
          BY <4>1, <4>2 DEF Coming
    <3> QED
        BY <1>3, <2>1, <2>2, <3>1, <3>2
  <2>3. CASE k \notin Held
    <3>1. k = KeyOf[r]
      <4>1. Held' = Held \cup {KeyOf[r]}
          BY <2>1, InsertAdds
      <4> QED
          BY <2>3, <4>1
    <3>2. setting'[r] = "pushing"
        BY <1>1, <2>1, <2>3, <3>1 DEF Insert
    <3> QED
        BY <3>1, <3>2 DEF Coming
  <2> QED
      BY <2>2, <2>3
<1>8. ASSUME NEW r \in Requests, StorePushes(r) PROVE Queued(k)' \/ Coming(k)'
  <2>1. ~ cut /\ Push(r) /\ k \in Held
      BY <1>2, <1>8 DEF StorePushes, Push, history, Held
  <2>2. /\ order' = Append(order, KeyOf[r])
        /\ order \in Seq(Keys) /\ KeyOf[r] \in Keys
      BY <2>1, CacheAssumption DEF Push, TypeOK, Requests
  <2>3. /\ DOMAIN order = 1..Len(order) /\ DOMAIN order' = 1..(Len(order) + 1)
        /\ \A i \in 1..Len(order) : order'[i] = order[i]
        /\ order'[Len(order) + 1] = KeyOf[r]
        /\ Len(order) \in Nat
    <3>1. Len(order') = Len(order) + 1 /\ order' \in Seq(Keys)
        BY <2>2, AppendProperties
    <3> QED
        BY <2>2, <3>1, AppendProperties
  <2>4. CASE Queued(k)
      BY <2>3, <2>4 DEF Queued
  <2>5. CASE Coming(k)
    <3>1. PICK q \in Requests : setting[q] = "pushing" /\ KeyOf[q] = k
        BY <2>5 DEF Coming
    <3>2. CASE q = r
      <4>1. Len(order) + 1 \in DOMAIN order'
          BY <2>3
      <4> QED
          BY <2>3, <3>1, <3>2, <4>1 DEF Queued
    <3>3. CASE q # r
      <4>1. setting'[q] = "pushing"
          BY <1>1, <2>1, <3>1, <3>3 DEF Push
      <4> QED
          BY <3>1, <4>1 DEF Coming
    <3> QED
        BY <3>2, <3>3
  <2> QED
      BY <1>3, <2>1, <2>4, <2>5
<1>9. ASSUME NEW r \in Requests, Cancel(r) PROVE Queued(k)' \/ Coming(k)'
  <2>1. ~ cut /\ setting[r] # "pushing" /\ order' = order /\ k \in Held
      BY <1>2, <1>9 DEF Cancel, DropSet, Held
  <2>2. CASE Queued(k)
      BY <2>1, <2>2 DEF Queued
  <2>3. CASE Coming(k)
    <3>1. PICK q \in Requests : setting[q] = "pushing" /\ KeyOf[q] = k
        BY <2>3 DEF Coming
    <3>2. setting'[q] = "pushing"
        BY <1>1, <1>9, <2>1, <3>1 DEF Cancel, DropSet
    <3> QED
        BY <3>1, <3>2 DEF Coming
  <2> QED
      BY <1>3, <2>1, <2>2, <2>3
<1>10. ASSUME NEW x \in Keys, AppDeletes(x) PROVE Queued(k)' \/ Coming(k)'
  <2>1. k \in Held
      BY <1>2, <1>10, DeleteRemoves DEF AppDeletes
  <2> QED
      BY <1>2, <1>4, <1>10, <2>1 DEF AppDeletes, Delete, history
<1>11. CASE AppClears
  <2>1. ~ cut /\ Setting = {}
      BY <1>2, <1>11 DEF AppClears
  <2>2. CASE ClearEntries
      BY <1>2, <2>2, ClearEmpties
  <2>3. CASE ClearOrder
      BY <1>2, <2>1, <2>3 DEF ClearOrder, ClearOK, Held
  <2> QED
      BY <1>11, <2>2, <2>3 DEF AppClears
<1>12. CASE TimePasses
    BY <1>2, <1>4, <1>12 DEF TimePasses, Tick, history, Held
<1>13. CASE UNCHANGED vars
    BY <1>2, <1>4, <1>13 DEF vars, storeVars, history, Held
<1> QED
    BY <1>5, <1>6, <1>7, <1>8, <1>9, <1>10, <1>11, <1>12, <1>13, RequestSteps
       DEF Next, Finished

LEMMA BoundIsPositive == Bound \in Nat /\ Bound >= 1 /\ MaxEntries <= Bound
    BY CacheAssumption DEF Bound

\* What eviction leaves, when nothing was cut off and no other set is under way,
\* leaves room for an entry: either the loop stopped for it, or it has popped every
\* key, and every entry is among them.
LEMMA EvictMakesRoom ==
    ASSUME TypeOK, HeldFinite, EveryEntryIsEvictable, ~ cut, Setting = {}
    PROVE  Cardinality(LeftAfter(Pops)) < Bound
<1>1. PICK n : n = Pops
    OBVIOUS
<1>2. n = Len(order) \/ Cardinality(LeftAfter(n)) < MaxEntries
    BY <1>1, PopsStops
<1>3. CASE n = Len(order)
  <2>1. \A k \in Held : \E i \in 1..n : order[i] = k
    <3>1. DOMAIN order = 1..n
        BY <1>3 DEF TypeOK
    <3>2. \A r \in Requests : setting[r] # "pushing"
        BY DEF Setting
    <3> QED
        BY <3>1, <3>2 DEF EveryEntryIsEvictable
  <2>2. LeftAfter(n) = {}
      BY <2>1 DEF LeftAfter, Readable
  <2> QED
      BY <1>1, <2>2, FS_EmptySet, BoundIsPositive
<1>4. CASE Cardinality(LeftAfter(n)) < MaxEntries
  <2>1. LeftAfter(n) \in SUBSET Held
      BY DEF LeftAfter, Readable
  <2>2. Cardinality(LeftAfter(n)) \in Nat
      BY <2>1, FS_Subset, FS_CardinalityType DEF HeldFinite
  <2> QED
      BY <1>1, <1>4, <2>2, BoundIsPositive, CacheAssumption
<1> QED
    BY <1>2, <1>3, <1>4

\* The map stays finite, and within its bound as long as no two sets have
\* overlapped and none was cut off.
LEMMA SizeStep ==
    ASSUME TypeOK, PlaceOK, SoleOK, EveryEntryIsEvictable, HeldFinite, RoomOK,
           SizeIsBounded, [Next]_vars
    PROVE  HeldFinite' /\ RoomOK' /\ SizeIsBounded'
<1>1. setting \in [Requests -> Phases] /\ Cardinality(Held) \in Nat
    BY FS_CardinalityType DEF TypeOK, HeldFinite
<1>2. SizeIsBounded <=> crossed \/ cut \/ Cardinality(Held) <= Bound
    BY DEF SizeIsBounded, Bound
<1>3. SizeIsBounded' <=> crossed' \/ cut' \/ Cardinality(Held') <= Bound
    BY DEF SizeIsBounded, Bound
<1>4. ASSUME Held' \subseteq Held,
             crossed => crossed', cut => cut',
             \A r \in Requests : setting'[r] = "inserting" => setting[r] = "inserting"
      PROVE  HeldFinite' /\ RoomOK' /\ SizeIsBounded'
  <2>1. IsFiniteSet(Held') /\ Cardinality(Held') <= Cardinality(Held)
      BY <1>4, FS_Subset DEF HeldFinite
  <2>2. Cardinality(Held') \in Nat
      BY <2>1, FS_CardinalityType
  <2>3. SizeIsBounded'
      BY <1>1, <1>2, <1>3, <1>4, <2>1, <2>2, BoundIsPositive
  <2>4. RoomOK'
    <3>1. SUFFICES ASSUME ~ crossed', ~ cut', NEW r \in Requests, setting'[r] = "inserting"
                   PROVE  Cardinality(Held') < Bound
        BY DEF RoomOK, Bound
    <3>2. Cardinality(Held) < Bound
        BY <1>4, <3>1 DEF RoomOK
    <3> QED
        BY <1>1, <2>1, <2>2, <3>2, BoundIsPositive
  <2> QED
      BY <2>1, <2>3, <2>4 DEF HeldFinite
<1>5. ASSUME NEW r \in Requests, Aside(r)
      PROVE  HeldFinite' /\ RoomOK' /\ SizeIsBounded'
    BY <1>4, <1>5 DEF Aside, storeVars, history, Held
<1>6. ASSUME NEW r \in Requests, BodyRead(r)
      PROVE  HeldFinite' /\ RoomOK' /\ SizeIsBounded'
  <2>1. Evict(r) /\ (cut => cut') /\ (crossed' <=> crossed \/ Setting # {})
      BY <1>6 DEF BodyRead
  <2>2. Held' = LeftAfter(Pops) /\ Held' \in SUBSET Held
      BY <2>1, EvictLeaves DEF Readable
  <2>3. IsFiniteSet(Held') /\ Cardinality(Held') \in Nat
      BY <2>2, FS_Subset, FS_CardinalityType DEF HeldFinite
  <2>4. crossed' \/ cut' \/ Cardinality(Held') < Bound
      BY <2>1, <2>2, EvictMakesRoom
  <2>5. SizeIsBounded'
      BY <1>3, <2>3, <2>4, BoundIsPositive
  <2>6. RoomOK'
      BY <2>4 DEF RoomOK, Bound
  <2> QED
      BY <2>3, <2>5, <2>6 DEF HeldFinite
<1>7. ASSUME NEW r \in Requests, StoreInserts(r)
      PROVE  HeldFinite' /\ RoomOK' /\ SizeIsBounded'
  <2>1. /\ Insert(r) /\ setting[r] = "inserting"
        /\ crossed' = crossed /\ cut' = cut
      BY <1>7 DEF StoreInserts, Insert, history
  <2>2. Held' = Held \cup {KeyOf[r]}
      BY <2>1, InsertAdds
  <2>3. IsFiniteSet(Held') /\ Cardinality(Held') <= Cardinality(Held) + 1
      BY <1>1, <2>2, FS_AddElement DEF HeldFinite
  <2>4. Cardinality(Held') \in Nat
      BY <2>3, FS_CardinalityType
  <2>5. crossed \/ cut \/ Cardinality(Held) < Bound
      BY <2>1 DEF RoomOK
  <2>6. SizeIsBounded'
      BY <1>1, <1>3, <2>1, <2>3, <2>4, <2>5, BoundIsPositive
  <2>7. crossed' \/ \A q \in Requests : setting'[q] # "inserting"
    <3>1. setting' = [setting EXCEPT ![r] = IF KeyOf[r] \in Held THEN "idle" ELSE "pushing"]
        BY <2>1 DEF Insert
    <3>2. crossed \/ \A q \in Requests \ {r} : setting[q] = "idle"
        BY <2>1 DEF SoleOK
    <3> QED
        BY <1>1, <2>1, <3>1, <3>2
  <2>8. RoomOK'
      BY <2>7 DEF RoomOK
  <2> QED
      BY <2>3, <2>6, <2>8 DEF HeldFinite
<1>8. ASSUME NEW r \in Requests, StorePushes(r) \/ Cancel(r)
      PROVE  HeldFinite' /\ RoomOK' /\ SizeIsBounded'
  <2>1. CASE StorePushes(r)
      BY <1>1, <1>4, <2>1 DEF StorePushes, Push, history, Held
  <2>2. CASE Cancel(r)
      BY <1>1, <1>4, <2>2 DEF Cancel, DropSet, Held
  <2> QED
      BY <1>8, <2>1, <2>2
<1>9. ASSUME NEW k \in Keys, AppDeletes(k)
      PROVE  HeldFinite' /\ RoomOK' /\ SizeIsBounded'
  <2>1. Held' \subseteq Held
      BY <1>9, DeleteRemoves DEF AppDeletes
  <2> QED
      BY <1>4, <1>9, <2>1 DEF AppDeletes, Delete, history
<1>10. CASE AppClears
  <2>1. Held' \subseteq Held
      BY <1>10, ClearEmpties DEF AppClears, ClearOrder, Held
  <2> QED
      BY <1>4, <1>10, <2>1 DEF AppClears, ClearEntries, ClearOrder
<1>11. CASE TimePasses
    BY <1>4, <1>11 DEF TimePasses, Tick, history, Held
<1>12. CASE UNCHANGED vars
    BY <1>4, <1>12 DEF vars, storeVars, history, Held
<1> QED
    BY <1>5, <1>6, <1>7, <1>8, <1>9, <1>10, <1>11, <1>12, RequestSteps
       DEF Next, Finished

LEMMA CacheInvInit == Init => CacheInv
<1> SUFFICES ASSUME Init PROVE CacheInv
    OBVIOUS
<1>1. Held = {} /\ \A r \in Requests : setting[r] = "idle"
    BY DEF Init, StoreInit, Held, Requests
<1>2. HeldFinite /\ SizeIsBounded
    BY <1>1, FS_EmptySet, CacheAssumption DEF HeldFinite, SizeIsBounded
<1>3. PlaceOK /\ SoleOK /\ ClearOK /\ EveryEntryIsEvictable /\ RoomOK
    BY <1>1 DEF PlaceOK, SoleOK, ClearOK, Setting, EveryEntryIsEvictable, RoomOK
<1> QED
    BY <1>2, <1>3, TypeInit DEF CacheInv

LEMMA CacheInvStep == CacheInv /\ [Next]_vars => CacheInv'
    BY TypeStep, SetsStep, ClearStep, EvictableStep, SizeStep DEF CacheInv

LEMMA CacheInvariance == Spec => []CacheInv
    BY CacheInvInit, CacheInvStep, PTL DEF Spec

\* Every variable keeps its type, whatever the requests, keys, limit and lifetime.
THEOREM TypeCorrect == Spec => []TypeOK
    BY CacheInvariance, PTL DEF CacheInv

\* For every limit: the map outgrows it only after two sets have overlapped, or one
\* was cut off.
THEOREM GrowthIsBounded == Spec => []SizeIsBounded
    BY CacheInvariance, PTL DEF CacheInv

\* For every limit: eviction can find every entry, unless a clear overlapped a set
\* or a set was dropped half way.
THEOREM NothingIsLeftOut == Spec => []EveryEntryIsEvictable
    BY CacheInvariance, PTL DEF CacheInv

-------------------------------------------------------------------------------
(* What is handed out *)

\* The histories take no part in what the cache does.
LEMMA StaleStepIsStep == [SNext]_<<vars, staleVars>> => [Next]_vars
    BY DEF SNext, Watch, Request, Next

LEMMA StaleSpecIsSpec == SSpec => Spec
<1>1. SInit => Init
    BY DEF SInit
<1> QED
    BY <1>1, StaleStepIsStep, PTL DEF SSpec, Spec

LEMMA StaleInvInit == SInit => StaleInv
<1> SUFFICES ASSUME SInit PROVE StaleInv
    OBVIOUS
<1>1. /\ Held = {} /\ Readable = {} /\ kept = {}
      /\ \A r \in Requests : setting[r] = "idle" /\ reply[r].kind = "none"
    BY DEF SInit, Init, StoreInit, Held, Readable, Requests
<1>2. StaleTypeOK
    BY DEF SInit, StaleTypeOK
<1>3. \A r \in Requests : before[r] = {} /\ KeyOf[r] \notin Readable
    BY <1>1 DEF SInit
<1> QED
    BY <1>1, <1>2, <1>3
       DEF SInit, StaleInv, KeptOK, ReplyOK, ExpiryOK, EntryOK, StoredOK,
           OutdatedOK, BeforeOK, DeletedComesBackOnlyInFlight

\* A step of a request that leaves the store alone.
LEMMA StaleAside ==
    ASSUME TypeOK, StaleInv, NEW r \in Requests, Watch(r), Aside(r)
    PROVE  StaleInv'
<1>1. /\ pc \in [Requests -> Places] /\ StaleTypeOK
    BY DEF TypeOK, StaleInv
<1>2. /\ Held' = Held /\ Readable' = Readable /\ entries' = entries
      /\ setting' = setting /\ expires_at' = expires_at /\ kept' = kept
    BY DEF Aside, storeVars, history, Held, Readable, Expired
<1>3. setAt' = setAt /\ stored' = stored /\ outdated' = outdated
    BY <1>1, <1>2 DEF Watch, StaleTypeOK
<1>4. /\ \A q \in Requests \ {r} : pc'[q] = pc[q] /\ reply'[q] = reply[q]
      /\ pc'[r] # "new" /\ pc[r] \notin {"storing", "done", "dropped"}
    BY <1>1 DEF Aside
<1>5. \/ before' = before
      \/ /\ KeyOf[r] \notin Readable
         /\ before' = [before EXCEPT ![r] = stored \cap Rivals(r)]
    BY DEF Watch, Miss
<1>6. before' \in [Requests -> SUBSET Requests]
    BY <1>1, <1>5 DEF StaleTypeOK
<1>7. StaleTypeOK'
    BY <1>1, <1>3, <1>6 DEF StaleTypeOK
<1>8. BeforeOK'
  <2>1. BeforeOK
      BY DEF StaleInv
  <2>2. CASE before' = before
      BY <1>2, <1>3, <2>1, <2>2 DEF BeforeOK
  <2>3. CASE /\ KeyOf[r] \notin Readable
             /\ before' = [before EXCEPT ![r] = stored \cap Rivals(r)]
    <3>1. /\ before'[r] \subseteq stored
          /\ \A q \in Requests \ {r} : before'[q] = before[q]
        BY <1>1, <2>3 DEF StaleTypeOK
    <3> QED
        BY <1>2, <1>3, <2>1, <2>3, <3>1 DEF BeforeOK
  <2> QED
      BY <1>5, <2>2, <2>3
<1>9. KeptOK' /\ ReplyOK' /\ OutdatedOK'
    BY <1>1, <1>2, <1>3, <1>4 DEF StaleInv, StaleTypeOK, KeptOK, ReplyOK, OutdatedOK, TypeOK
<1>10. ExpiryOK' /\ EntryOK' /\ StoredOK' /\ DeletedComesBackOnlyInFlight'
    BY <1>2, <1>3
       DEF StaleInv, ExpiryOK, EntryOK, StoredOK, DeletedComesBackOnlyInFlight
<1> QED
    BY <1>7, <1>8, <1>9, <1>10 DEF StaleInv

\* A set begins: nothing new in the map, and nothing about other requests changes.
LEMMA StaleBodyRead ==
    ASSUME TypeOK, StaleInv, NEW r \in Requests, Watch(r), BodyRead(r)
    PROVE  StaleInv'
<1>1. /\ pc \in [Requests -> Places] /\ setting \in [Requests -> Phases]
      /\ expires_at \in [Requests -> 0..(MaxTime + Ttl)] /\ kept \in SUBSET Requests
      /\ clock \in Int /\ StaleTypeOK
    BY DEF TypeOK, StaleInv
<1>2. /\ Held' \subseteq Readable /\ Readable \subseteq Held
      /\ \A k \in Held' : entries'[k] = entries[k]
      /\ clock' = clock /\ reply' = reply /\ kept' = kept \cup {r}
    BY EvictLeaves DEF BodyRead, Evict, Readable
<1>3. /\ setting[r] = "idle" /\ setting'[r] = "inserting"
      /\ expires_at'[r] = clock + Ttl /\ pc[r] = "buffering" /\ pc'[r] = "storing"
      /\ \A q \in Requests \ {r} : /\ setting'[q] = setting[q]
                                   /\ expires_at'[q] = expires_at[q]
                                   /\ pc'[q] = pc[q]
    BY <1>1 DEF BodyRead, Evict, Expiry, Goto
<1>4. before' = before /\ stored' = stored /\ outdated' = outdated
    BY <1>3 DEF Watch, Miss
<1>5. /\ setAt' \in [Requests -> Int] /\ setAt'[r] = clock
      /\ \A q \in Requests \ {r} : setAt'[q] = setAt[q]
    BY <1>1, <1>3 DEF Watch, StaleTypeOK
<1>6. r \notin kept /\ r \notin stored /\ r \notin outdated
    BY <1>3 DEF StaleInv, KeptOK, StoredOK, OutdatedOK
<1>7. StaleTypeOK'
    BY <1>1, <1>4, <1>5 DEF StaleTypeOK
<1>8. KeptOK' /\ ReplyOK' /\ OutdatedOK' /\ StoredOK'
    BY <1>1, <1>2, <1>3, <1>4, <1>6
       DEF StaleInv, StaleTypeOK, KeptOK, ReplyOK, OutdatedOK, StoredOK
<1>9. ExpiryOK'
    BY <1>2, <1>3, <1>4, <1>5, <1>6 DEF StaleInv, ExpiryOK
<1>10. EntryOK' /\ DeletedComesBackOnlyInFlight'
  <2>1. ASSUME NEW k \in Held'
        PROVE  /\ k \in Held /\ entries'[k] = entries[k]
               /\ entries[k].by \in kept /\ entries[k].by # r
               /\ setAt'[entries[k].by] = setAt[entries[k].by]
    <3>1. k \in Held /\ entries'[k] = entries[k]
        BY <1>2
    <3>2. entries[k].by \in kept
        BY <3>1 DEF StaleInv, EntryOK
    <3> QED
        BY <1>1, <1>5, <1>6, <3>1, <3>2
  <2> QED
      BY <1>2, <1>4, <2>1 DEF StaleInv, EntryOK, DeletedComesBackOnlyInFlight
<1>11. BeforeOK'
  <2>1. \A k \in Readable' : k \in Readable /\ entries'[k] = entries[k]
      BY <1>2 DEF Readable, Expired
  <2> QED
      BY <1>4, <2>1 DEF StaleInv, BeforeOK
<1> QED
    BY <1>7, <1>8, <1>9, <1>10, <1>11 DEF StaleInv

\* A set inserts its entry.  It had stored nothing before, so nobody missed it.
LEMMA StaleInserts ==
    ASSUME TypeOK, StaleInv, NEW r \in Requests, Watch(r), StoreInserts(r)
    PROVE  StaleInv'
<1> DEFINE key == KeyOf[r]
<1>1. /\ pc \in [Requests -> Places] /\ setting \in [Requests -> Phases]
      /\ expires_at \in [Requests -> 0..(MaxTime + Ttl)] /\ kept \in SUBSET Requests
      /\ StaleTypeOK
    BY DEF TypeOK, StaleInv
<1>2. /\ Held' = Held \cup {key} /\ key \in Keys
      /\ entries'[key] = [by |-> r, expires_at |-> expires_at[r]]
      /\ \A k \in Keys \ {key} : entries'[k] = entries[k]
    BY InsertAdds DEF StoreInserts
<1>3. /\ clock' = clock /\ kept' = kept
      /\ setting[r] = "inserting" /\ setting'[r] # "inserting"
      /\ pc[r] = "storing" /\ pc'[r] \in {"storing", "done"}
      /\ \A q \in Requests \ {r} : setting'[q] = setting[q] /\ pc'[q] = pc[q]
      /\ \A q \in Requests \ {r} : reply'[q] = reply[q] /\ expires_at'[q] = expires_at[q]
  <2>1. /\ pc[r] = "storing" /\ clock' = clock /\ kept' = kept
        /\ setting[r] = "inserting"
        /\ setting' = [setting EXCEPT ![r] = IF key \in Held THEN "idle" ELSE "pushing"]
        /\ expires_at' = [expires_at EXCEPT ![r] = 0]
      BY DEF StoreInserts, Insert, history
  <2>2. /\ \A q \in Requests \ {r} : pc'[q] = pc[q] /\ reply'[q] = reply[q]
        /\ pc'[r] = IF setting'[r] = "idle" THEN "done" ELSE pc[r]
      BY SetReturnsType DEF StoreInserts
  <2> QED
      BY <1>1, <2>1, <2>2
<1>4. r \in kept /\ r \notin stored /\ expires_at[r] = setAt[r] + Ttl
    BY <1>3 DEF StaleInv, ExpiryOK
<1>5. r \notin outdated
    BY <1>3 DEF StaleInv, OutdatedOK
<1>6. entries' # entries
  <2>1. CASE key \in Held
    <3>1. entries[key].by # r
        BY <1>4, <2>1 DEF StaleInv, EntryOK
    <3> QED
        BY <1>2, <3>1
  <2>2. CASE key \notin Held
      BY <1>2, <2>2 DEF Held
  <2> QED
      BY <2>1, <2>2
<1>7. /\ before' = before /\ outdated' = outdated /\ stored' = stored \cup {r}
      /\ setAt' = setAt
    BY <1>1, <1>3, <1>6 DEF Watch, Miss, StaleTypeOK
<1>8. StaleTypeOK' /\ KeptOK' /\ ReplyOK' /\ OutdatedOK' /\ StoredOK'
    BY <1>1, <1>3, <1>4, <1>5, <1>7
       DEF StaleInv, StaleTypeOK, KeptOK, ReplyOK, OutdatedOK, StoredOK
<1>9. ExpiryOK'
    BY <1>3, <1>7 DEF StaleInv, ExpiryOK
<1>10. \A k \in Held' : \/ /\ k = key
                           /\ entries'[k].by = r
                           /\ entries'[k].expires_at = expires_at[r]
                        \/ k # key /\ k \in Held /\ entries'[k] = entries[k]
    BY <1>2 DEF Held
<1>11. EntryOK'
    BY <1>3, <1>4, <1>7, <1>10 DEF StaleInv, EntryOK
<1>12. DeletedComesBackOnlyInFlight'
    BY <1>5, <1>7, <1>10 DEF StaleInv, DeletedComesBackOnlyInFlight
<1>13. BeforeOK'
  <2>1. \A q \in Requests : r \notin before[q]
      BY <1>4 DEF StaleInv, BeforeOK
  <2>2. \A k \in Readable' :
          entries'[k].by # r => k \in Readable /\ entries'[k] = entries[k]
    <3> SUFFICES ASSUME NEW k \in Readable', entries'[k].by # r
                 PROVE  k \in Readable /\ entries'[k] = entries[k]
        OBVIOUS
    <3>1. k \in Held' /\ ~ (clock' >= entries'[k].expires_at)
        BY DEF Readable, Expired
    <3>2. k \in Held /\ entries'[k] = entries[k]
        BY <1>10, <3>1
    <3> QED
        BY <1>3, <3>1, <3>2 DEF Readable, Expired
  <2> QED
      BY <1>7, <2>1, <2>2 DEF StaleInv, BeforeOK
<1> QED
    BY <1>8, <1>9, <1>11, <1>12, <1>13 DEF StaleInv

\* A set ends: it has pushed its key, or is dropped.
LEMMA StaleEnds ==
    ASSUME TypeOK, PlaceOK, StaleInv, NEW r \in Requests, Watch(r),
           StorePushes(r) \/ Cancel(r)
    PROVE  StaleInv'
<1>1. /\ pc \in [Requests -> Places] /\ setting \in [Requests -> Phases]
      /\ expires_at \in [Requests -> 0..(MaxTime + Ttl)] /\ StaleTypeOK
    BY DEF TypeOK, StaleInv
<1>2. /\ clock' = clock /\ entries' = entries /\ kept' = kept
      /\ pc[r] \notin {"new", "done", "dropped"} /\ pc'[r] \in {"done", "dropped"}
      /\ \A q \in Requests \ {r} : /\ setting'[q] = setting[q]
                                   /\ expires_at'[q] = expires_at[q]
                                   /\ pc'[q] = pc[q] /\ reply'[q] = reply[q]
      /\ setting'[r] = "idle"
  <2>1. CASE StorePushes(r)
      BY <1>1, <2>1, SetReturnsType DEF StorePushes, Push, history
  <2>2. CASE Cancel(r)
      BY <1>1, <2>2 DEF Cancel, DropSet, Goto
  <2> QED
      BY <2>1, <2>2
<1>3. UNCHANGED staleVars
    BY <1>1, <1>2 DEF Watch, Miss, StaleTypeOK, staleVars
<1>4. r \notin outdated /\ Held' = Held /\ Readable' = Readable
    BY <1>2 DEF StaleInv, OutdatedOK, Held, Readable, Expired
<1>5. StaleTypeOK' /\ KeptOK' /\ ReplyOK' /\ OutdatedOK' /\ StoredOK'
    BY <1>1, <1>2, <1>3, <1>4
       DEF StaleInv, StaleTypeOK, KeptOK, ReplyOK, OutdatedOK, StoredOK, staleVars, TypeOK
<1>6. ExpiryOK' /\ EntryOK' /\ BeforeOK' /\ DeletedComesBackOnlyInFlight'
    BY <1>2, <1>3, <1>4
       DEF StaleInv, ExpiryOK, EntryOK, BeforeOK, DeletedComesBackOnlyInFlight, staleVars
<1> QED
    BY <1>5, <1>6 DEF StaleInv

\* What only takes entries away, or lets them grow old, and outdates no response
\* whose entry it leaves.
LEMMA StaleFades ==
    ASSUME StaleInv,
           UNCHANGED <<setting, expires_at, pc, reply, kept, setAt, stored, before>>,
           Held' \subseteq Held, Readable' \subseteq Readable,
           \A k \in Held' : entries'[k] = entries[k] /\ entries[k].by \notin outdated',
           outdated' \subseteq {q \in Requests : pc[q] \in {"done", "dropped"}}
    PROVE  StaleInv'
<1>1. StaleTypeOK' /\ KeptOK' /\ ReplyOK' /\ ExpiryOK' /\ StoredOK' /\ OutdatedOK'
    BY DEF StaleInv, StaleTypeOK, KeptOK, ReplyOK, ExpiryOK, StoredOK, OutdatedOK
<1>2. EntryOK' /\ DeletedComesBackOnlyInFlight'
    BY DEF StaleInv, EntryOK, DeletedComesBackOnlyInFlight
<1>3. \A k \in Readable' : k \in Readable /\ entries'[k] = entries[k]
    BY DEF Readable
<1>4. BeforeOK'
    BY <1>3 DEF StaleInv, BeforeOK
<1> QED
    BY <1>1, <1>2, <1>4 DEF StaleInv

LEMMA StaleInvStep == CacheInv /\ StaleInv /\ [SNext]_<<vars, staleVars>> => StaleInv'
<1> SUFFICES ASSUME CacheInv, StaleInv, [SNext]_<<vars, staleVars>> PROVE StaleInv'
    OBVIOUS
<1>1. TypeOK /\ PlaceOK
    BY DEF CacheInv
<1>2. outdated \subseteq {q \in Requests : pc[q] \in {"done", "dropped"}}
    BY DEF StaleInv, StaleTypeOK, OutdatedOK
<1>3. ASSUME NEW r \in Requests, Watch(r) PROVE StaleInv'
  <2>1. Request(r)
      BY <1>3 DEF Watch, Request
  <2> QED
      BY <1>1, <1>3, <2>1, RequestSteps, StaleAside, StaleBodyRead, StaleInserts, StaleEnds
<1>4. ASSUME NEW k \in Keys, AppDeletes(k), outdated' = outdated \cup Over(k),
             UNCHANGED <<setAt, stored, before>>
      PROVE  StaleInv'
  <2>1. Held' = Held \ {k} /\ \A x \in Held' : entries'[x] = entries[x]
      BY <1>1, <1>4, DeleteRemoves DEF AppDeletes
  <2>2. /\ UNCHANGED <<setting, expires_at, pc, reply, kept, clock>>
      BY <1>4 DEF AppDeletes, Delete, history
  <2>3. Readable' \subseteq Readable
      BY <2>1, <2>2 DEF Readable, Expired
  <2>4. ASSUME NEW x \in Held' PROVE entries[x].by \notin outdated'
    <3>1. x \in Held /\ x # k
        BY <2>1
    <3>2. KeyOf[entries[x].by] = x /\ entries[x].by \notin outdated
        BY <3>1 DEF StaleInv, EntryOK, DeletedComesBackOnlyInFlight
    <3> QED
        BY <1>4, <3>1, <3>2 DEF Over
  <2>5. outdated' \subseteq {q \in Requests : pc[q] \in {"done", "dropped"}}
      BY <1>2, <1>4 DEF Over
  <2>6. Held' \subseteq Held
      BY <2>1
  <2> QED
      BY <1>4, <2>1, <2>2, <2>3, <2>4, <2>5, <2>6, StaleFades
<1>5. ASSUME AppClears, UNCHANGED <<setAt, stored, before>>,
             outdated' = outdated \cup (IF clearing THEN {} ELSE UNION {Over(k) : k \in Keys})
      PROVE  StaleInv'
  <2>1. UNCHANGED <<setting, expires_at, pc, reply, kept>>
      BY <1>5 DEF AppClears, ClearEntries, ClearOrder
  <2>2. \/ Held' = {}
        \/ entries' = entries /\ Held' = Held /\ clock' = clock /\ outdated' = outdated
    <3>1. CASE ClearEntries
        BY <3>1, ClearEmpties
    <3>2. CASE ClearOrder
        BY <1>5, <3>2 DEF ClearOrder, Held
    <3> QED
        BY <1>5, <3>1, <3>2 DEF AppClears
  <2>3. Held' \subseteq Held /\ Readable' \subseteq Readable
      BY <2>2 DEF Readable, Expired
  <2>4. \A k \in Held' : entries'[k] = entries[k] /\ entries[k].by \notin outdated'
      BY <2>2 DEF StaleInv, DeletedComesBackOnlyInFlight
  <2>5. outdated' \subseteq {q \in Requests : pc[q] \in {"done", "dropped"}}
      BY <1>2, <1>5 DEF Over
  <2> QED
      BY <1>5, <2>1, <2>3, <2>4, <2>5, StaleFades
<1>6. ASSUME TimePasses, UNCHANGED staleVars PROVE StaleInv'
  <2>1. /\ UNCHANGED <<setting, expires_at, pc, reply, kept, entries>>
        /\ UNCHANGED <<setAt, stored, before, outdated>>
        /\ clock' = clock + 1 /\ Held' = Held
      BY <1>6 DEF TimePasses, Tick, history, staleVars, Held
  <2>2. Readable' \subseteq Readable
    <3>1. clock \in Int /\ \A k \in Held : entries[k].expires_at \in Int
      <4>1. \A k \in Held : entries[k].by \in Requests /\ entries[k].expires_at = setAt[entries[k].by] + Ttl
          BY <1>1 DEF StaleInv, EntryOK, TypeOK
      <4>2. clock \in Int /\ Ttl \in Int /\ setAt \in [Requests -> Int]
          BY <1>1, CacheAssumption DEF StaleInv, StaleTypeOK, TypeOK
      <4> QED
          BY <4>1, <4>2
    <3> QED
        BY <2>1, <3>1 DEF Readable, Expired
  <2>3. \A k \in Held' : entries'[k] = entries[k] /\ entries[k].by \notin outdated'
      BY <2>1 DEF StaleInv, DeletedComesBackOnlyInFlight
  <2> QED
      BY <1>2, <2>1, <2>2, <2>3, StaleFades
<1>7. ASSUME UNCHANGED <<vars, staleVars>> PROVE StaleInv'
  <2>1. /\ UNCHANGED <<setting, expires_at, pc, reply, kept, entries, clock>>
        /\ UNCHANGED <<setAt, stored, before, outdated>>
      BY <1>7 DEF vars, storeVars, history, staleVars
  <2>2. Held' = Held /\ Readable' = Readable
      BY <2>1 DEF Held, Readable, Expired
  <2>3. \A k \in Held' : entries'[k] = entries[k] /\ entries[k].by \notin outdated'
      BY <2>1, <2>2 DEF StaleInv, DeletedComesBackOnlyInFlight
  <2> QED
      BY <1>2, <2>1, <2>2, <2>3, StaleFades
<1> QED
    BY <1>3, <1>4, <1>5, <1>6, <1>7 DEF SNext, Finished

\* The spec with the histories keeps the invariants of the cache and its own.
LEMMA StaleInvariance == SSpec => []CacheInv /\ []StaleInv
<1>1. SSpec => []CacheInv
    BY StaleSpecIsSpec, CacheInvariance, PTL
<1> QED
    BY <1>1, StaleInvInit, StaleInvStep, PTL DEF SSpec

\* For every store and every clock: what was over when its key was deleted or the
\* store cleared is never in the map again.
THEOREM DeletedStaysOut == SSpec => []DeletedComesBackOnlyInFlight
    BY StaleInvariance, PTL DEF StaleInv

\* Only Hit answers from the store, and only a request that has not been answered.
LEMMA OnlyHitReplays ==
    ASSUME TypeOK, ReplyOK, NEW r \in Requests, [Next]_vars,
           pc[r] = "new", reply'[r].kind = "hit"
    PROVE  Hit(r)
<1>1. reply[r].kind = "none"
    BY DEF ReplyOK
<1>2. reply'[r] # reply[r]
    BY <1>1
<1>3. ASSUME NEW q \in Requests, Request(q) PROVE q = r
  <2>1. \A x \in Requests \ {q} : reply'[x] = reply[x]
    <3>1. CASE Aside(q)
        BY <3>1 DEF Aside
    <3>2. CASE StoreInserts(q) \/ StorePushes(q)
        BY <3>2, SetReturnsType DEF StoreInserts, StorePushes
    <3>3. CASE BodyRead(q) \/ Cancel(q)
        BY <3>3 DEF BodyRead, Cancel
    <3> QED
        BY <1>3, <3>1, <3>2, <3>3, RequestSteps
  <2> QED
      BY <1>2, <2>1
<1>4. Request(r)
    BY <1>2, <1>3 DEF Next, AppDeletes, AppClears, TimePasses, Finished, vars
<1>5. Bypass(r) \/ Hit(r) \/ GetFails(r) \/ Miss(r)
    BY <1>4
       DEF Request, Stage, BypassReturns, ServiceReturns, ServiceCacheable, BodyFails,
           BodyRead, SetFails, StoreInserts, StorePushes, Cancel
<1> QED
    BY <1>2, <1>5 DEF Bypass, GetFails, Miss

\* Whatever the store replays was stored whole, for the same key, less than a
\* lifetime after its set began.
THEOREM ReplayedWholeAndFresh == SSpec => HitsAreWholeAndFresh
<1>1. ASSUME CacheInv, StaleInv, [SNext]_<<vars, staleVars>>,
             NEW r \in Requests, pc[r] = "new", reply'[r].kind = "hit",
             NEW q, q = reply'[r].of
      PROVE  q \in kept \ {r} /\ KeyOf[q] = KeyOf[r] /\ clock < setAt[q] + Ttl
  <2>1. TypeOK /\ ReplyOK /\ EntryOK /\ KeptOK /\ StaleTypeOK
      BY <1>1 DEF CacheInv, StaleInv
  <2>2. Hit(r)
      BY <1>1, <2>1, StaleStepIsStep, OnlyHitReplays
  <2>3. PICK k \in Readable : k = KeyOf[r] /\ q = entries[k].by
    <3>1. reply' = [reply EXCEPT ![r] = [kind |-> "hit", of |-> entries[KeyOf[r]].by]]
        BY <2>2 DEF Hit, Reply
    <3>2. reply'[r].of = entries[KeyOf[r]].by
        BY <2>1, <3>1 DEF TypeOK
    <3> QED
        BY <1>1, <2>2, <3>2 DEF Hit
  <2>4. k \in Held /\ ~ (clock >= entries[k].expires_at)
      BY DEF Readable, Expired
  <2>5. q \in kept /\ KeyOf[q] = k /\ entries[k].expires_at = setAt[q] + Ttl
      BY <2>1, <2>3, <2>4 DEF EntryOK
  <2>6. q # r
      BY <1>1, <2>1, <2>5 DEF KeptOK
  <2>7. clock < setAt[q] + Ttl
    <3>1. clock \in Int /\ setAt[q] \in Int /\ Ttl \in Int
        BY <2>1, <2>5, CacheAssumption DEF TypeOK, StaleTypeOK
    <3> QED
        BY <2>4, <2>5, <3>1
  <2> QED
      BY <2>3, <2>5, <2>6, <2>7
<1>2. CacheInv /\ StaleInv /\ [SNext]_<<vars, staleVars>> =>
        \A r \in Requests : pc[r] = "new" /\ reply'[r].kind = "hit" =>
          LET q == reply'[r].of IN
          /\ q \in kept \ {r}
          /\ KeyOf[q] = KeyOf[r]
          /\ clock < setAt[q] + Ttl
    BY <1>1
<1> QED
    BY <1>2, StaleInvariance, PTL DEF SSpec, HitsAreWholeAndFresh

\* The only step that puts another entry in the place of one is an insert under
\* its key.
LEMMA OnlyInsertReplaces ==
    ASSUME TypeOK, [Next]_vars, NEW k \in Held, k \in Held', entries'[k] # entries[k]
    PROVE  \E r \in Requests : KeyOf[r] = k /\ entries'[k].by = r
<1>1. ASSUME NEW r \in Requests, Request(r)
      PROVE  \E q \in Requests : KeyOf[q] = k /\ entries'[k].by = q
  <2>1. CASE Aside(r) \/ StorePushes(r) \/ Cancel(r)
      BY <2>1 DEF Aside, storeVars, StorePushes, Push, Cancel, DropSet
  <2>2. CASE BodyRead(r)
      BY <2>2, EvictLeaves DEF BodyRead
  <2>3. CASE StoreInserts(r)
    <3>1. /\ entries'[KeyOf[r]].by = r
          /\ \A x \in Keys \ {KeyOf[r]} : entries'[x] = entries[x]
      <4>1. /\ entries'[KeyOf[r]] = [by |-> r, expires_at |-> expires_at[r]]
            /\ \A x \in Keys \ {KeyOf[r]} : entries'[x] = entries[x]
          BY <2>3, InsertAdds DEF StoreInserts
      <4> QED
          BY <4>1
    <3> QED
        BY <3>1 DEF Held
  <2> QED
      BY <1>1, <2>1, <2>2, <2>3, RequestSteps
<1>2. ASSUME NEW x \in Keys, AppDeletes(x) PROVE FALSE
    BY <1>2, DeleteRemoves DEF AppDeletes
<1>3. CASE AppClears
    BY <1>3, ClearEmpties DEF AppClears, ClearOrder
<1>4. CASE TimePasses \/ UNCHANGED vars
    BY <1>4 DEF TimePasses, Tick, vars, storeVars
<1> QED
    BY <1>1, <1>2, <1>3, <1>4 DEF Next, Finished

\* For every limit and lifetime: an entry that can be read gives way only to a
\* request that could not have found it.
THEOREM ReplacedByOverlap == SSpec => ReplacedOnlyByOverlap
<1>1. ASSUME CacheInv, StaleInv, [SNext]_<<vars, staleVars>>,
             NEW k \in Readable, NEW r \in Requests,
             entries'[k] # Absent, entries'[k].by = r, entries[k].by # r
      PROVE  entries[k].by \notin before[r]
  <2>1. k \in Held /\ k \in Held' /\ entries'[k] # entries[k]
      BY <1>1 DEF Readable, Held
  <2>2. KeyOf[r] = k
      BY <1>1, <2>1, StaleStepIsStep, OnlyInsertReplaces DEF CacheInv
  <2> QED
      BY <1>1, <2>2 DEF StaleInv, BeforeOK
<1>2. CacheInv /\ StaleInv /\ [SNext]_<<vars, staleVars>> =>
        \A k \in Readable, r \in Requests :
          entries'[k] # Absent /\ entries'[k].by = r /\ entries[k].by # r =>
            entries[k].by \notin before[r]
    BY <1>1
<1> QED
    BY <1>2, StaleInvariance, PTL DEF SSpec, ReplacedOnlyByOverlap
================================================================================
