--------------------------- MODULE RateLimiterProofs ---------------------------
(***************************************************************************)
(* Safety of the rate limiter for every set of requests and identities,    *)
(* every limit and window, with or without failing store calls.            *)
(***************************************************************************)
EXTENDS RateLimiter, FiniteSetTheorems, SequenceTheorems, TLAPS

\* A set of naturals has a least element: the intervals up to its elements are
\* finite, and inclusion is well founded on finite sets.
LEMMA LeastElement ==
    ASSUME NEW T \in SUBSET Nat, T # {}
    PROVE  \E m \in T : \A n \in T : m <= n
<1> DEFINE Below == {0..n : n \in T}
<1>1. \A n \in T : 0..n \in FiniteSubsetsOf(Nat)
  <2> TAKE n \in T
  <2>1. IsFiniteSet(0..n)
      BY FS_Interval
  <2> QED
      BY <2>1 DEF FiniteSubsetsOf
<1>2. Below \subseteq FiniteSubsetsOf(Nat) /\ Below # {}
    BY <1>1
<1> HIDE DEF Below
<1>3. PICK least \in Below : \A b \in Below : <<b, least>> \notin StrictSubsetOrdering(Nat)
    BY <1>2, FS_StrictSubsetOrderingWellFounded, WFMin
<1>4. PICK m \in T : least = 0..m
    BY DEF Below
<1>5. ASSUME NEW n \in T, n < m PROVE FALSE
  <2>1. 0..n \in Below
      BY DEF Below
  <2>2. 0..n \subseteq 0..m /\ 0..n # 0..m /\ 0..n \in SUBSET Nat /\ 0..m \in SUBSET Nat
      BY <1>5
  <2>3. <<0..n, least>> \in StrictSubsetOrdering(Nat)
      BY <1>4, <2>2 DEF StrictSubsetOrdering
  <2> QED
      BY <1>3, <2>1, <2>3
<1> QED
    BY <1>5

\* Purge leaves a suffix: what it pops is outside of the window, what it leaves,
\* if anything, begins with a timestamp inside.
LEMMA PurgeLeavesSuffix ==
    ASSUME NEW s \in Seq(0..MaxTime), NEW n \in 0..MaxTime
    PROVE  \E m \in 1..(Len(s) + 1) :
             /\ Purge(s, n) = SubSeq(s, m, Len(s))
             /\ \A i \in 1..(m - 1) : Outside(s[i], n)
             /\ m <= Len(s) => ~ Outside(s[m], n)
<1> DEFINE live == {i \in DOMAIN s : ~ Outside(s[i], n)}
<1>1. DOMAIN s = 1..Len(s) /\ Len(s) \in Nat
    OBVIOUS
<1>2. CASE live = {}
  <2>1. Purge(s, n) = SubSeq(s, Len(s) + 1, Len(s))
      BY <1>1, <1>2 DEF Purge
  <2>2. \A i \in 1..Len(s) : Outside(s[i], n)
      BY <1>1, <1>2
  <2> QED
      BY <1>1, <2>1, <2>2
<1>3. CASE live # {}
  <2>1. live \in SUBSET Nat
      BY <1>1
  <2>2. PICK m \in live : \A j \in live : m <= j
      BY <1>3, <2>1, LeastElement
  <2>3. (CHOOSE i \in live : \A j \in live : i <= j) = m
      BY <2>1, <2>2
  <2>4. Purge(s, n) = SubSeq(s, m, Len(s))
      BY <1>3, <2>3 DEF Purge
  <2>5. \A i \in 1..(m - 1) : Outside(s[i], n)
      BY <1>1, <2>1, <2>2
  <2> QED
      BY <1>1, <2>2, <2>4, <2>5
<1> QED
    BY <1>2, <1>3

\* What is left is a log of timestamps that were there before.
LEMMA PurgeType ==
    ASSUME NEW s \in Seq(0..MaxTime), NEW n \in 0..MaxTime
    PROVE  /\ Purge(s, n) \in Seq(0..MaxTime)
           /\ \A x \in 1..Len(Purge(s, n)) : \E j \in 1..Len(s) : Purge(s, n)[x] = s[j]
<1>1. PICK m \in 1..(Len(s) + 1) : Purge(s, n) = SubSeq(s, m, Len(s))
    BY PurgeLeavesSuffix
<1>2. Len(s) \in Nat /\ \A i \in m..Len(s) : s[i] \in 0..MaxTime
  <2>1. Len(s) \in Nat /\ m..Len(s) \subseteq 1..Len(s)
      BY LenProperties
  <2> QED
      BY <2>1, ElementOfSeq
<1>3. /\ SubSeq(s, m, Len(s)) \in Seq(0..MaxTime)
      /\ Len(SubSeq(s, m, Len(s))) = IF m <= Len(s) THEN Len(s) - m + 1 ELSE 0
      /\ \A x \in 1..(Len(s) - m + 1) : SubSeq(s, m, Len(s))[x] = s[m + x - 1]
    BY <1>2, SubSeqProperties
<1>4. ASSUME NEW x \in 1..Len(Purge(s, n))
      PROVE  \E j \in 1..Len(s) : Purge(s, n)[x] = s[j]
  <2>1. x \in 1..(Len(s) - m + 1) /\ m + x - 1 \in 1..Len(s)
      BY <1>1, <1>2, <1>3
  <2> QED
      BY <1>1, <1>3, <2>1
<1> QED
    BY <1>1, <1>3, <1>4

-------------------------------------------------------------------------------
(* The inductive invariant *)

\* Where a request is on record: only its set puts it there, under its identity.
BookOK ==
    \A r \in Requests :
        /\ pc[r] \in {"getting", "setting"} \/ r \in recorded => IdOf[r] \in Ids
        /\ pc[r] \in {"new", "getting", "setting"} => r \notin recorded
        /\ verdict[r] = "admitted" => r \in recorded

\* The requests recorded when r read the clock had read it before.
SeenOK ==
    \A r \in Requests :
        /\ now[r] <= clock
        /\ seen[r] \subseteq recorded
        /\ \A q \in seen[r] : now[q] <= now[r]

\* The store, and what is about to be stored, hold times of requests on record,
\* and no more than the limit.
LogOK ==
    \A i \in Ids : \A j \in 1..Len(log[i]) :
        \E q \in Recorded(i) : now[q] = log[i][j]

EntryOK ==
    \A r \in Requests : pc[r] = "setting" =>
        /\ Len(entry[r]) <= MaxRequests
        /\ \A j \in 1..Len(entry[r]) :
             \E q \in Recorded(IdOf[r]) \cup {r} : now[q] = entry[r][j]

\* As long as nobody was recorded since r read the clock, r's update is still
\* the one that the present log calls for.
EntryCurrent ==
    \A r \in Requests :
        pc[r] = "setting" /\ Recorded(IdOf[r]) \subseteq seen[r] =>
            entry[r] = Append(Purge(log[IdOf[r]], now[r]), now[r])

\* A log s holds, in order and each once, the times f of requests on the record R;
\* the others on record are out of the window of a later one.
Faithful(s, R, f, g) ==
    /\ g \in Injection(1..Len(s), R)
    /\ \A j \in 1..Len(s) : f[g[j]] = s[j]
    /\ \A j, k \in 1..Len(s) : j <= k => s[j] <= s[k]
    /\ \A q \in R : (\A j \in 1..Len(s) : g[j] # q) => \E p \in R : Outside(f[q], f[p])

\* Without overlap the log of an identity is faithful to the record.
LogIsFaithful ==
    \A i \in Ids : Overlap(i) \/ \E g : Faithful(log[i], Recorded(i), now, g)

Within(i, t) == {q \in Recorded(i) : now[q] \in t..(t + Window)}

WindowsHold ==
    \A i \in Ids : Overlap(i) \/ \A t \in 0..MaxTime :
        IsFiniteSet(Within(i, t)) /\ Cardinality(Within(i, t)) <= MaxRequests

IInv ==
    /\ TypeOK
    /\ BookOK
    /\ SeenOK
    /\ LogOK
    /\ EntryOK
    /\ EntryCurrent
    /\ IsFiniteSet(recorded)
    /\ LogIsFaithful
    /\ WindowsHold

-------------------------------------------------------------------------------
(* One lemma per conjunct: what a step preserves, action by action. *)

LEMMA TypeStep ==
    ASSUME TypeOK, BookOK, EntryOK, [Next]_vars
    PROVE  TypeOK'
<1> USE LimiterAssumption DEF TypeOK, BookOK, Goto, Conclude
<1>1. ASSUME UNCHANGED vars PROVE TypeOK'
    BY <1>1 DEF vars
<1>2. ASSUME Tick PROVE TypeOK'
    BY <1>2 DEF Tick
<1>3. ASSUME NEW r \in Requests, NoIdentity(r) PROVE TypeOK'
    BY <1>3 DEF NoIdentity
<1>11. ASSUME NEW r \in Requests, Identify(r) PROVE TypeOK'
    BY <1>11 DEF Identify
<1>4. ASSUME NEW r \in Requests, Reject(r) PROVE TypeOK'
    BY <1>4 DEF Reject
<1>5. ASSUME NEW r \in Requests, Accept(r) PROVE TypeOK'
  <2>1. Purge(log[IdOf[r]], now[r]) \in Seq(0..MaxTime)
      BY <1>5, PurgeType DEF Accept
  <2>2. Append(Purge(log[IdOf[r]], now[r]), now[r]) \in Seq(0..MaxTime)
      BY <2>1, AppendProperties
  <2> QED
      BY <1>5, <2>2 DEF Accept
<1>6. ASSUME NEW r \in Requests, pc[r] = "setting", StoreSet(r)
      PROVE  /\ log' \in [Ids -> Seq(0..MaxTime)]
             /\ \A i \in Ids : Len(log'[i]) <= MaxRequests
             /\ recorded' \in SUBSET Requests
    BY <1>6 DEF StoreSet, EntryOK
<1>7. ASSUME NEW r \in Requests, Record(r) PROVE TypeOK'
    BY <1>6, <1>7 DEF Record
<1>8. ASSUME NEW r \in Requests, StoreError(r) PROVE TypeOK'
    BY <1>6, <1>8 DEF StoreError
<1>9. ASSUME NEW r \in Requests, Serve(r) PROVE TypeOK'
    BY <1>9 DEF Serve
<1>10. ASSUME NEW r \in Requests, Cancel(r) PROVE TypeOK'
    BY <1>6, <1>10 DEF Cancel
<1> QED
    BY <1>1, <1>2, <1>3, <1>4, <1>5, <1>7, <1>8, <1>9, <1>10, <1>11
    DEF Next, Request, Finished

LEMMA BookStep ==
    ASSUME TypeOK, BookOK, [Next]_vars
    PROVE  BookOK'
<1> USE LimiterAssumption DEF TypeOK, BookOK, Goto, Conclude, StoreSet
<1>1. ASSUME UNCHANGED vars \/ Tick PROVE BookOK'
    BY <1>1 DEF vars, Tick
<1>2. ASSUME NEW r \in Requests, NoIdentity(r) \/ Identify(r) \/ Serve(r) PROVE BookOK'
    BY <1>2 DEF NoIdentity, Identify, Serve
<1>3. ASSUME NEW r \in Requests, Reject(r) \/ Accept(r) PROVE BookOK'
    BY <1>3 DEF Reject, Accept
<1>4. ASSUME NEW r \in Requests, Record(r) \/ StoreError(r) \/ Cancel(r) PROVE BookOK'
    BY <1>4 DEF Record, StoreError, Cancel
<1> QED
    BY <1>1, <1>2, <1>3, <1>4 DEF Next, Request, Finished

\* The store and the record of it change together, by a request whose set is
\* under way, and no step touches what a recorded request once read.
LEMMA StoreChange ==
    ASSUME TypeOK, BookOK, [Next]_vars
    PROVE  /\ \/ UNCHANGED <<log, recorded>>
              \/ \E r \in Requests :
                   pc[r] = "setting" /\ StoreSet(r) /\ UNCHANGED <<now, seen>>
           /\ \A q \in recorded : now'[q] = now[q] /\ seen'[q] = seen[q]
<1> USE LimiterAssumption DEF TypeOK, BookOK, Goto, Conclude
<1> DEFINE Change ==
           /\ \/ UNCHANGED <<log, recorded>>
              \/ \E r \in Requests :
                   pc[r] = "setting" /\ StoreSet(r) /\ UNCHANGED <<now, seen>>
           /\ \A q \in recorded : now'[q] = now[q] /\ seen'[q] = seen[q]
<1>1. ASSUME UNCHANGED vars \/ Tick PROVE Change
    BY <1>1 DEF vars, Tick
<1>2. ASSUME NEW r \in Requests, Identify(r) PROVE Change
    BY <1>2 DEF Identify
<1>3. ASSUME NEW r \in Requests, NoIdentity(r) \/ Reject(r) \/ Accept(r) \/ Serve(r)
      PROVE  Change
    BY <1>3 DEF NoIdentity, Reject, Accept, Serve
<1>4. ASSUME NEW r \in Requests, Record(r) \/ StoreError(r) \/ Cancel(r) PROVE Change
    BY <1>4 DEF Record, StoreError, Cancel
<1> QED
    BY <1>1, <1>2, <1>3, <1>4 DEF Next, Request, Finished

LEMMA SeenStep ==
    ASSUME TypeOK, BookOK, SeenOK, [Next]_vars
    PROVE  SeenOK'
<1> USE LimiterAssumption DEF TypeOK, SeenOK, Goto, Conclude
<1>1. ASSUME UNCHANGED vars \/ Tick PROVE SeenOK'
    BY <1>1 DEF vars, Tick
<1>2. ASSUME NEW r \in Requests, Identify(r) PROVE SeenOK'
    BY <1>2 DEF Identify, BookOK
<1>3. ASSUME NEW r \in Requests, NoIdentity(r) \/ Reject(r) \/ Accept(r) \/ Serve(r)
      PROVE  SeenOK'
    BY <1>3 DEF NoIdentity, Reject, Accept, Serve
<1>4. ASSUME NEW r \in Requests, Record(r) \/ StoreError(r) \/ Cancel(r) PROVE SeenOK'
    BY <1>4 DEF Record, StoreError, Cancel, StoreSet
<1> QED
    BY <1>1, <1>2, <1>3, <1>4 DEF Next, Request, Finished

LEMMA LogStep ==
    ASSUME TypeOK, BookOK, LogOK, EntryOK, [Next]_vars
    PROVE  LogOK'
<1> USE LimiterAssumption DEF TypeOK, LogOK, Recorded
<1>1. \A q \in recorded : now'[q] = now[q]
    BY StoreChange
<1>2. CASE UNCHANGED <<log, recorded>>
    BY <1>1, <1>2
<1>3. ASSUME NEW r \in Requests, pc[r] = "setting", StoreSet(r), UNCHANGED <<now, seen>>
      PROVE  LogOK'
  <2>1. /\ log' = [log EXCEPT ![IdOf[r]] = entry[r]]
        /\ recorded' = recorded \cup {r}
      BY <1>3 DEF StoreSet
  <2>2. \A j \in 1..Len(entry[r]) : \E q \in Recorded(IdOf[r]) \cup {r} : now[q] = entry[r][j]
      BY <1>3 DEF EntryOK
  <2> QED
      BY <1>3, <2>1, <2>2
<1> QED
    BY <1>2, <1>3, StoreChange

\* What a request is about to store stays on record while others act.
LEMMA EntryKept ==
    ASSUME TypeOK, BookOK, EntryOK, [Next]_vars, NEW q \in Requests, pc[q] = "setting",
           entry'[q] = entry[q], now'[q] = now[q]
    PROVE  /\ Len(entry'[q]) <= MaxRequests
           /\ \A j \in 1..Len(entry'[q]) :
                \E x \in Recorded(IdOf[q])' \cup {q} : now'[x] = entry'[q][j]
<1>1. \A x \in Recorded(IdOf[q]) : x \in Recorded(IdOf[q])' /\ now'[x] = now[x]
    BY StoreChange DEF Recorded, StoreSet
<1>2. /\ Len(entry[q]) <= MaxRequests
      /\ \A j \in 1..Len(entry[q]) :
           \E x \in Recorded(IdOf[q]) \cup {q} : now[x] = entry[q][j]
    BY DEF EntryOK
<1> HIDE DEF EntryOK, TypeOK, BookOK
<1>3. ASSUME NEW j \in 1..Len(entry'[q])
      PROVE  \E x \in Recorded(IdOf[q])' \cup {q} : now'[x] = entry'[q][j]
  <2>1. PICK x \in Recorded(IdOf[q]) \cup {q} : now[x] = entry[q][j]
      BY <1>2, <1>3
  <2>2. x \in Recorded(IdOf[q])' \cup {q} /\ now'[x] = entry'[q][j]
      BY <1>1, <2>1
  <2> QED
      BY <2>2
<1> QED
    BY <1>2, <1>3

LEMMA EntryStep ==
    ASSUME TypeOK, BookOK, LogOK, EntryOK, EntryCurrent, SeenOK, [Next]_vars
    PROVE  EntryOK' /\ EntryCurrent'
\* A request that is not in the middle of its set is not bound by either.
<1>1. ASSUME NEW q \in Requests, pc'[q] = "setting", pc[q] = "setting",
             entry'[q] = entry[q], now'[q] = now[q], seen'[q] = seen[q]
      PROVE  Recorded(IdOf[q])' \subseteq seen'[q] =>
                 entry'[q] = Append(Purge(log'[IdOf[q]], now'[q]), now'[q])
  <2>1. CASE UNCHANGED <<log, recorded>>
      BY <1>1, <2>1 DEF EntryCurrent, Recorded
  <2>2. ASSUME NEW r \in Requests, pc[r] = "setting", StoreSet(r), IdOf[r] = IdOf[q]
        PROVE  ~ Recorded(IdOf[q])' \subseteq seen'[q]
      BY <1>1, <2>2 DEF StoreSet, SeenOK, BookOK, Recorded
  <2>3. ASSUME NEW r \in Requests, pc[r] = "setting", StoreSet(r), IdOf[r] # IdOf[q]
        PROVE  /\ log'[IdOf[q]] = log[IdOf[q]]
               /\ Recorded(IdOf[q])' = Recorded(IdOf[q])
    <3>1. IdOf[q] \in Ids
        BY <1>1 DEF BookOK
    <3> QED
        BY <2>3, <3>1 DEF StoreSet, Recorded, TypeOK
  <2> QED
      BY <1>1, <2>1, <2>2, <2>3, StoreChange DEF EntryCurrent
\* The others keep what they are about to store, unless they have just been let in.
<1>2. ASSUME NEW q \in Requests, pc'[q] = "setting"
      PROVE  \/ /\ pc[q] = "setting" /\ entry'[q] = entry[q]
                /\ now'[q] = now[q] /\ seen'[q] = seen[q]
             \/ Accept(q)
  <2> USE DEF Goto, Conclude, TypeOK
  <2>1. ASSUME UNCHANGED vars \/ Tick PROVE pc[q] = "setting" /\ UNCHANGED <<entry, now, seen>>
      BY <1>2, <2>1 DEF vars, Tick
  <2>2. ASSUME NEW r \in Requests, NoIdentity(r) \/ Identify(r) \/ Reject(r) \/ Serve(r)
        PROVE  /\ pc[q] = "setting" /\ entry'[q] = entry[q]
               /\ now'[q] = now[q] /\ seen'[q] = seen[q]
      BY <1>2, <2>2 DEF NoIdentity, Identify, Reject, Serve
  <2>3. ASSUME NEW r \in Requests, Record(r) \/ StoreError(r) \/ Cancel(r)
        PROVE  /\ pc[q] = "setting" /\ entry'[q] = entry[q]
               /\ now'[q] = now[q] /\ seen'[q] = seen[q]
      BY <1>2, <2>3 DEF Record, StoreError, Cancel
  <2>4. ASSUME NEW r \in Requests, Accept(r), r # q
        PROVE  /\ pc[q] = "setting" /\ entry'[q] = entry[q]
               /\ now'[q] = now[q] /\ seen'[q] = seen[q]
      BY <1>2, <2>4 DEF Accept
  <2> QED
      BY <2>1, <2>2, <2>3, <2>4 DEF Next, Request, Finished
\* One that has just been let in adds its own time to a purged log.
<1>3. ASSUME NEW r \in Requests, Accept(r)
      PROVE  /\ Len(entry'[r]) <= MaxRequests
             /\ \A x \in 1..Len(entry'[r]) :
                  \E q \in Recorded(IdOf[r])' \cup {r} : now'[q] = entry'[r][x]
             /\ entry'[r] = Append(Purge(log'[IdOf[r]], now'[r]), now'[r])
  <2> DEFINE i == IdOf[r]
             p == Purge(log[i], now[r])
  <2>1. /\ i \in Ids /\ log[i] \in Seq(0..MaxTime) /\ now[r] \in 0..MaxTime
        /\ Len(p) < MaxRequests /\ entry'[r] = Append(p, now[r])
        /\ UNCHANGED <<log, now, recorded>>
        /\ MaxRequests \in Nat
      BY <1>3, LimiterAssumption DEF Accept, BookOK, TypeOK
  <2>2. /\ p \in Seq(0..MaxTime)
        /\ \A x \in 1..Len(p) : \E j \in 1..Len(log[i]) : p[x] = log[i][j]
      BY <2>1, PurgeType
  <2>3. \A x \in 1..Len(p) : \E q \in Recorded(i) : now[q] = p[x]
      BY <2>1, <2>2 DEF LogOK
  <2> HIDE DEF p
  <2>4. /\ Len(p) \in Nat
        /\ Len(Append(p, now[r])) = Len(p) + 1
        /\ \A x \in 1..Len(p) : Append(p, now[r])[x] = p[x]
        /\ Append(p, now[r])[Len(p) + 1] = now[r]
      BY <2>1, <2>2, AppendProperties
  <2>5. Recorded(i)' = Recorded(i)
      BY <2>1 DEF Recorded
  <2>6. ASSUME NEW x \in 1..Len(entry'[r])
        PROVE  \E q \in Recorded(i) \cup {r} : now[q] = entry'[r][x]
    <3>1. CASE x = Len(p) + 1
        BY <2>1, <2>4, <3>1
    <3>2. CASE x # Len(p) + 1
        BY <2>1, <2>3, <2>4, <2>6, <3>2
    <3> QED
        BY <3>1, <3>2
  <2> QED
      BY <2>1, <2>4, <2>5, <2>6 DEF p
<1>4. EntryOK'
    BY <1>2, <1>3, EntryKept DEF EntryOK
<1>5. EntryCurrent'
    BY <1>1, <1>2, <1>3 DEF EntryCurrent
<1> QED
    BY <1>4, <1>5

-------------------------------------------------------------------------------
(* The log against the record *)

\* A set of requests that are all found among the entries of a sequence is no
\* larger than the sequence.
LEMMA CountedBySequence ==
    ASSUME NEW n \in Nat, NEW S, NEW g, g \in [1..n -> S], NEW T,
           \A q \in T : \E j \in 1..n : g[j] = q
    PROVE  IsFiniteSet(T) /\ Cardinality(T) <= n
<1> DEFINE R == {g[j] : j \in 1..n}
<1>1. g \in Surjection(1..n, R)
    BY DEF Surjection
<1>2. IsFiniteSet(1..n) /\ Cardinality(1..n) = n
    BY FS_Interval
<1>3. IsFiniteSet(R) /\ Cardinality(R) <= n
    BY <1>1, <1>2, FS_Surjection
<1>4. T \in SUBSET R
    OBVIOUS
<1> HIDE DEF R
<1>5. IsFiniteSet(T) /\ Cardinality(T) <= Cardinality(R)
    BY <1>3, <1>4, FS_Subset
<1>6. Cardinality(T) \in Nat /\ Cardinality(R) \in Nat
    BY <1>3, <1>5, FS_CardinalityType
<1> QED
    BY <1>3, <1>5, <1>6

\* Only the times of those on record matter.
LEMMA FaithfulSame ==
    ASSUME NEW s, NEW R, NEW f, NEW h, NEW g, Faithful(s, R, f, g),
           \A q \in R : h[q] = f[q]
    PROVE  Faithful(s, R, h, g)
<1>1. \A j \in 1..Len(s) : g[j] \in R
    BY DEF Faithful, Injection
<1>2. \A j \in 1..Len(s) : h[g[j]] = s[j]
    BY <1>1 DEF Faithful
<1>3. \A q \in R : (\A j \in 1..Len(s) : g[j] # q) => \E p \in R : Outside(h[q], h[p])
    BY DEF Faithful, Outside
<1> QED
    BY <1>2, <1>3 DEF Faithful

\* r, not on the record R, read the clock after all that are.
Follows(r, R, f) ==
    /\ r \notin R
    /\ \A q \in R \cup {r} : f[q] \in 0..MaxTime
    /\ \A q \in R : f[q] <= f[r]

\* g makes the log faithful to the record with r added, and finds in it all that
\* are in the window of r.
Extends(new, R, r, f, g) ==
    /\ Faithful(new, R \cup {r}, f, g)
    /\ \A q \in R \cup {r} :
         ~ Outside(f[q], f[r]) => \E j \in 1..Len(new) : g[j] = q

\* One that comes after all on record takes its place at the end of the log, whose
\* purged front is out of its window: the log stays faithful, and tells who is in
\* that window.
LEMMA FaithfulAppend ==
    ASSUME NEW s \in Seq(0..MaxTime), NEW R, NEW f, NEW h, Faithful(s, R, f, h),
           NEW r, Follows(r, R, f)
    PROVE  \E g : Extends(Append(Purge(s, f[r]), f[r]), R, r, f, g)
<1>0. /\ r \notin R
      /\ \A q \in R \cup {r} : f[q] \in 0..MaxTime
      /\ \A q \in R : f[q] <= f[r]
    BY DEF Follows
<1>1. PICK m \in 1..(Len(s) + 1) :
        /\ Purge(s, f[r]) = SubSeq(s, m, Len(s))
        /\ \A j \in 1..(m - 1) : Outside(s[j], f[r])
    BY <1>0, PurgeLeavesSuffix
<1> DEFINE n == Len(s) - m + 1
<1>2. n \in Nat /\ Len(s) \in Nat /\ m \in Nat /\ n = Len(s) - m + 1 /\ m >= 1
    BY <1>1
<1>3. PICK new : new = Append(Purge(s, f[r]), f[r])
    OBVIOUS
<1>4. /\ new \in Seq(0..MaxTime)
      /\ Len(new) = n + 1
      /\ \A x \in 1..n : new[x] = s[m + x - 1]
      /\ new[n + 1] = f[r]
  <2>1. \A j \in m..Len(s) : s[j] \in 0..MaxTime
    <3>1. m..Len(s) \subseteq 1..Len(s)
        BY <1>2
    <3> QED
        BY <3>1, ElementOfSeq
  <2>2. PICK p : p = SubSeq(s, m, Len(s))
      OBVIOUS
  <2>3. /\ p \in Seq(0..MaxTime)
        /\ Len(p) = n
        /\ \A x \in 1..n : p[x] = s[m + x - 1]
      BY <1>2, <2>1, <2>2, SubSeqProperties
  <2>4. new = Append(p, f[r]) /\ f[r] \in 0..MaxTime
      BY <1>0, <1>1, <1>3, <2>2
  <2> HIDE DEF n
  <2> QED
      BY <2>3, <2>4, AppendProperties
<1> HIDE DEF n
<1>5. h \in [1..Len(s) -> R] /\ \A a, b \in 1..Len(s) : h[a] = h[b] => a = b
    BY DEF Faithful, Injection, IsInjective
<1>6. /\ \A j \in 1..Len(s) : f[h[j]] = s[j]
      /\ \A j, k \in 1..Len(s) : j <= k => s[j] <= s[k]
      /\ \A q \in R :
           (\A j \in 1..Len(s) : h[j] # q) => \E p \in R : Outside(f[q], f[p])
    BY DEF Faithful
<1>7. \A x \in 1..n : m + x - 1 \in 1..Len(s)
    BY <1>2
<1>8. PICK g : g = [x \in 1..(n + 1) |-> IF x <= n THEN h[m + x - 1] ELSE r]
    OBVIOUS
<1>9. /\ \A x \in 1..n : g[x] = h[m + x - 1] /\ g[x] \in R
      /\ g[n + 1] = r
      /\ g \in [1..(n + 1) -> R \cup {r}]
  <2>1. \A x \in 1..n : h[m + x - 1] \in R
      BY <1>5, <1>7
  <2>2. \A x \in 1..n : x \in 1..(n + 1)
      BY <1>2
  <2>3. \A x \in 1..n : g[x] = h[m + x - 1]
      BY <1>2, <1>8, <2>2
  <2>4. g[n + 1] = r
      BY <1>2, <1>8
  <2>5. \A x \in 1..(n + 1) : (IF x <= n THEN h[m + x - 1] ELSE r) \in R \cup {r}
      BY <1>2, <2>1
  <2> QED
      BY <1>8, <2>1, <2>3, <2>4, <2>5
<1>10. g \in Injection(1..(n + 1), R \cup {r})
  <2>1. ASSUME NEW a \in 1..(n + 1), NEW b \in 1..(n + 1), g[a] = g[b] PROVE a = b
    <3>1. CASE a \in 1..n /\ b \in 1..n
      <4>1. h[m + a - 1] = h[m + b - 1]
          BY <1>9, <2>1, <3>1
      <4>2. m + a - 1 = m + b - 1
          BY <1>5, <1>7, <3>1, <4>1
      <4> QED
          BY <1>2, <3>1, <4>2
    <3>2. CASE a = n + 1 \/ b = n + 1
      <4>1. \A x \in 1..(n + 1) : x \in 1..n \/ x = n + 1
          BY <1>2
      <4>2. \A x \in 1..n : g[x] # r
          BY <1>0, <1>9
      <4>3. a = n + 1 /\ b = n + 1
          BY <1>9, <2>1, <3>2, <4>1, <4>2
      <4> QED
          BY <4>3
    <3> QED
        BY <1>2, <3>1, <3>2
  <2> QED
      BY <1>9, <2>1 DEF Injection, IsInjective
<1>11. ASSUME NEW x \in 1..(n + 1) PROVE f[g[x]] = new[x]
  <2>1. CASE x \in 1..n
      BY <1>4, <1>6, <1>7, <1>9, <2>1
  <2>2. CASE x = n + 1
      BY <1>4, <1>9, <2>2
  <2> QED
      BY <1>2, <2>1, <2>2
<1>12. ASSUME NEW j \in 1..(n + 1), NEW k \in 1..(n + 1), j <= k
       PROVE  new[j] <= new[k]
  <2>1. CASE k \in 1..n
    <3>1. j \in 1..n /\ m + j - 1 <= m + k - 1
        BY <1>2, <1>12, <2>1
    <3>2. s[m + j - 1] <= s[m + k - 1]
        BY <1>6, <1>7, <2>1, <3>1
    <3> QED
        BY <1>4, <2>1, <3>1, <3>2
  <2>2. CASE k = n + 1
    <3>1. new[k] = f[r] /\ new[j] = f[g[j]] /\ g[j] \in R \cup {r}
        BY <1>4, <1>9, <1>11, <2>2
    <3>2. f[r] <= f[r]
        BY <1>0
    <3> QED
        BY <1>0, <3>1, <3>2
  <2> QED
      BY <1>2, <2>1, <2>2
\* Who is in the window of r was in the log, and not purged.
<1>13. ASSUME NEW q \in R \cup {r}, ~ Outside(f[q], f[r])
       PROVE  \E x \in 1..(n + 1) : g[x] = q
  <2>1. CASE q = r
      BY <1>2, <1>9, <2>1
  <2>2. CASE q # r
    <3>1. q \in R
        BY <2>2
    <3>2. \A p \in R : ~ Outside(f[q], f[p])
        BY <1>0, <1>13, <3>1, LimiterAssumption DEF Outside
    <3>3. PICK j \in 1..Len(s) : h[j] = q
        BY <1>6, <3>1, <3>2
    <3>4. ~ Outside(s[j], f[r])
        BY <1>6, <1>13, <3>3
    <3>5. j \notin 1..(m - 1)
        BY <1>1, <3>4
    <3>6. PICK x : x = j - m + 1
        OBVIOUS
    <3>7. x \in 1..n /\ m + x - 1 = j /\ x \in 1..(n + 1)
        BY <1>2, <3>5, <3>6
    <3>8. g[x] = q
        BY <1>9, <3>3, <3>7
    <3> QED
        BY <3>7, <3>8
  <2> QED
      BY <2>1, <2>2
<1>14. \A q \in R \cup {r} : (\A j \in 1..(n + 1) : g[j] # q) =>
          \E p \in R \cup {r} : Outside(f[q], f[p])
    BY <1>13
<1>15. Faithful(new, R \cup {r}, f, g)
    BY <1>4, <1>10, <1>11, <1>12, <1>14 DEF Faithful
<1>16. Extends(new, R, r, f, g)
    BY <1>4, <1>13, <1>15 DEF Extends
<1> QED
    BY <1>3, <1>16

\* A request that is recorded without overlap comes after all that are on record.
LEMMA RecordedLast ==
    ASSUME TypeOK, BookOK, SeenOK, EntryCurrent, NEW r \in Requests,
           pc[r] = "setting", StoreSet(r), UNCHANGED <<now, seen>>,
           ~ Overlap(IdOf[r])'
    PROVE  /\ ~ Overlap(IdOf[r])
           /\ \A q \in Recorded(IdOf[r]) : now[q] <= now[r]
           /\ log'[IdOf[r]] = Append(Purge(log[IdOf[r]], now[r]), now[r])
<1>1. Recorded(IdOf[r])' = Recorded(IdOf[r]) \cup {r} /\ r \notin recorded
    BY DEF StoreSet, Recorded, BookOK
<1>2. ~ Overlap(IdOf[r])
    BY <1>1 DEF Overlap
<1>3. \A q \in Recorded(IdOf[r]) : q \in seen[r]
  <2>1. \A q \in Requests : r \notin seen[q]
      BY <1>1 DEF SeenOK
  <2> QED
      BY <1>1, <2>1 DEF Overlap, Recorded, TypeOK
<1>4. \A q \in Recorded(IdOf[r]) : now[q] <= now[r]
    BY <1>3 DEF SeenOK
<1>5. log'[IdOf[r]] = entry[r] /\ entry[r] = Append(Purge(log[IdOf[r]], now[r]), now[r])
    BY <1>3 DEF StoreSet, EntryCurrent, BookOK, TypeOK
<1> QED
    BY <1>2, <1>4, <1>5

\* An identity whose log and record a step leaves alone stays as it was.
LEMMA OthersKept ==
    ASSUME LogIsFaithful, WindowsHold, NEW i \in Ids, log'[i] = log[i],
           Recorded(i)' = Recorded(i),
           \A q \in Recorded(i) : now'[q] = now[q] /\ seen'[q] = seen[q]
    PROVE  /\ Overlap(i)' \/ \E g : Faithful(log'[i], Recorded(i)', now', g)
           /\ Overlap(i)' \/ \A t \in 0..MaxTime :
                IsFiniteSet(Within(i, t)') /\ Cardinality(Within(i, t)') <= MaxRequests
<1>1. Overlap(i) => Overlap(i)'
    BY DEF Overlap
<1>2. ASSUME NEW t \in 0..MaxTime PROVE Within(i, t)' = Within(i, t)
    BY DEF Within
<1>3. ASSUME NEW g, Faithful(log[i], Recorded(i), now, g)
      PROVE  Faithful(log'[i], Recorded(i)', now', g)
    BY <1>3, FaithfulSame
<1>4. \/ Overlap(i)
      \/ \E g : Faithful(log[i], Recorded(i), now, g)
    BY DEF LogIsFaithful
<1>5. \/ Overlap(i)
      \/ \A t \in 0..MaxTime :
           IsFiniteSet(Within(i, t)) /\ Cardinality(Within(i, t)) <= MaxRequests
    BY DEF WindowsHold
<1> QED
    BY <1>1, <1>2, <1>3, <1>4, <1>5

\* The identity of a request that is put on record: without overlap the log takes
\* it in, and no window holds more than the log does.
LEMMA OwnLogGrows ==
    ASSUME TypeOK, TypeOK', BookOK, SeenOK, EntryCurrent, LogIsFaithful, WindowsHold,
           NEW r \in Requests, pc[r] = "setting", StoreSet(r), UNCHANGED <<now, seen>>,
           ~ Overlap(IdOf[r])'
    PROVE  /\ \E g : Faithful(log'[IdOf[r]], Recorded(IdOf[r])', now', g)
           /\ \A t \in 0..MaxTime :
                /\ IsFiniteSet(Within(IdOf[r], t)')
                /\ Cardinality(Within(IdOf[r], t)') <= MaxRequests
<1>1. PICK i : i = IdOf[r]
    OBVIOUS
<1>2. i \in Ids /\ r \notin Recorded(i) /\ Recorded(i)' = Recorded(i) \cup {r}
    BY <1>1 DEF StoreSet, Recorded, BookOK
<1>3. /\ ~ Overlap(i)
      /\ \A q \in Recorded(i) : now[q] <= now[r]
      /\ log'[i] = Append(Purge(log[i], now[r]), now[r])
    BY <1>1, RecordedLast
<1>4. PICK h : Faithful(log[i], Recorded(i), now, h)
    BY <1>2, <1>3 DEF LogIsFaithful
<1>5. log[i] \in Seq(0..MaxTime) /\ \A q \in Recorded(i) \cup {r} : now[q] \in 0..MaxTime
    BY <1>2 DEF TypeOK, Recorded
<1>6. PICK g : /\ Faithful(log'[i], Recorded(i) \cup {r}, now, g)
               /\ \A q \in Recorded(i) \cup {r} :
                    ~ Outside(now[q], now[r]) => \E j \in 1..Len(log'[i]) : g[j] = q
  <2>1. PICK R, f, s : R = Recorded(i) /\ f = now /\ s = log[i]
      OBVIOUS
  <2>2. s \in Seq(0..MaxTime) /\ Faithful(s, R, f, h)
      BY <1>4, <1>5, <2>1
  <2>3. Follows(r, R, f)
      BY <1>2, <1>3, <1>5, <2>1 DEF Follows
  <2>4. PICK g : Extends(Append(Purge(s, f[r]), f[r]), R, r, f, g)
      BY <2>2, <2>3, FaithfulAppend
  <2>5. Extends(log'[i], Recorded(i), r, now, g)
      BY <1>3, <2>1, <2>4
  <2> QED
      BY <2>5 DEF Extends
<1>7. Faithful(log'[i], Recorded(i)', now', g)
    BY <1>2, <1>6
<1>8. PICK n : n = Len(log'[i])
    OBVIOUS
<1>9. n \in Nat /\ n <= MaxRequests
    BY <1>2, <1>8 DEF TypeOK
<1>10. g \in [1..n -> Recorded(i) \cup {r}]
    BY <1>6, <1>8 DEF Faithful, Injection
<1>11. ASSUME NEW t \in 0..MaxTime
       PROVE  IsFiniteSet(Within(i, t)') /\ Cardinality(Within(i, t)') <= MaxRequests
  <2>1. PICK T : T = {q \in Recorded(i) \cup {r} : now[q] \in t..(t + Window)}
      OBVIOUS
  <2>2. Within(i, t)' = T
      BY <1>2, <2>1 DEF Within
  <2>3. CASE now[r] \in t..(t + Window)
    <3>1. ASSUME NEW q \in T PROVE \E j \in 1..n : g[j] = q
      <4>1. q \in Recorded(i) \cup {r} /\ now[q] \in t..(t + Window)
          BY <2>1
      <4>2. ~ Outside(now[q], now[r])
          BY <1>5, <2>3, <4>1, LimiterAssumption DEF Outside
      <4> QED
          BY <1>6, <1>8, <4>1, <4>2
    <3>2. IsFiniteSet(T) /\ Cardinality(T) <= n
        BY <1>9, <1>10, <3>1, CountedBySequence
    <3>3. Cardinality(T) \in Nat
        BY <3>2, FS_CardinalityType
    <3> QED
        BY <1>9, <2>2, <3>2, <3>3, LimiterAssumption
  <2>4. CASE now[r] \notin t..(t + Window)
    <3>1. T = Within(i, t)
        BY <2>1, <2>4 DEF Within
    <3> QED
        BY <1>2, <1>3, <2>2, <3>1 DEF WindowsHold
  <2> QED
      BY <2>3, <2>4
<1> QED
    BY <1>1, <1>7, <1>11

LEMMA RecordStep ==
    ASSUME TypeOK, TypeOK', BookOK, SeenOK, EntryCurrent, IsFiniteSet(recorded),
           LogIsFaithful, WindowsHold, [Next]_vars
    PROVE  IsFiniteSet(recorded') /\ LogIsFaithful' /\ WindowsHold'
<1>1. \A q \in recorded : now'[q] = now[q] /\ seen'[q] = seen[q]
    BY StoreChange
<1>2. CASE UNCHANGED <<log, recorded>>
  <2>1. \A i \in Ids : Recorded(i)' = Recorded(i) /\ log'[i] = log[i]
      BY <1>2 DEF Recorded
  <2>2. \A i \in Ids : \A q \in Recorded(i) : now'[q] = now[q] /\ seen'[q] = seen[q]
      BY <1>1 DEF Recorded
  <2> QED
      BY <1>2, <2>1, <2>2, OthersKept DEF LogIsFaithful, WindowsHold
<1>3. ASSUME NEW r \in Requests, pc[r] = "setting", StoreSet(r), UNCHANGED <<now, seen>>
      PROVE  IsFiniteSet(recorded') /\ LogIsFaithful' /\ WindowsHold'
  <2>1. IsFiniteSet(recorded')
      BY <1>3, FS_AddElement DEF StoreSet
  <2>2. ASSUME NEW i \in Ids
        PROVE  /\ Overlap(i)' \/ \E g : Faithful(log'[i], Recorded(i)', now', g)
               /\ Overlap(i)' \/ \A t \in 0..MaxTime :
                    /\ IsFiniteSet(Within(i, t)')
                    /\ Cardinality(Within(i, t)') <= MaxRequests
    <3>1. CASE i = IdOf[r]
        BY <1>3, <3>1, OwnLogGrows
    <3>2. CASE i # IdOf[r]
      <4>1. /\ log'[i] = log[i] /\ Recorded(i)' = Recorded(i)
            /\ \A q \in Recorded(i) : now'[q] = now[q] /\ seen'[q] = seen[q]
          BY <1>3, <3>2 DEF StoreSet, Recorded, TypeOK
      <4> QED
          BY <4>1, OthersKept
    <3> QED
        BY <3>1, <3>2
  <2> QED
      BY <2>1, <2>2 DEF LogIsFaithful, WindowsHold
<1> QED
    BY <1>2, <1>3, StoreChange

-------------------------------------------------------------------------------

LEMMA InitHolds == Init => IInv
<1> SUFFICES ASSUME Init PROVE IInv
    OBVIOUS
<1> USE LimiterAssumption DEF Init
<1>1. TypeOK
    BY DEF TypeOK
<1>2. BookOK /\ SeenOK /\ LogOK /\ EntryOK /\ EntryCurrent /\ IsFiniteSet(recorded)
    BY FS_EmptySet DEF BookOK, SeenOK, LogOK, EntryOK, EntryCurrent
<1>3. \A i \in Ids : Recorded(i) = {} /\ Len(log[i]) = 0
    BY DEF Recorded
<1>4. LogIsFaithful
  <2>1. \A i \in Ids : Faithful(log[i], Recorded(i), now, << >>)
      BY <1>3 DEF Faithful, Injection, IsInjective
  <2> QED
      BY <2>1 DEF LogIsFaithful
<1>5. WindowsHold
  <2>1. \A i \in Ids, t \in 0..MaxTime : Within(i, t) = {}
      BY <1>3 DEF Within
  <2>2. IsFiniteSet({}) /\ Cardinality({}) = 0
      BY FS_EmptySet
  <2>3. 0 <= MaxRequests
      OBVIOUS
  <2>4. \A i \in Ids, t \in 0..MaxTime :
          IsFiniteSet(Within(i, t)) /\ Cardinality(Within(i, t)) <= MaxRequests
      BY <2>1, <2>2, <2>3
  <2> QED
      BY <2>4 DEF WindowsHold
<1> QED
    BY <1>1, <1>2, <1>4, <1>5 DEF IInv

LEMMA StepHolds == IInv /\ [Next]_vars => IInv'
<1> SUFFICES ASSUME IInv, [Next]_vars PROVE IInv'
    OBVIOUS
<1>1. TypeOK /\ BookOK /\ SeenOK /\ LogOK /\ EntryOK /\ EntryCurrent
    BY DEF IInv
<1>2. IsFiniteSet(recorded) /\ LogIsFaithful /\ WindowsHold
    BY DEF IInv
<1>3. TypeOK' /\ BookOK' /\ SeenOK' /\ LogOK' /\ EntryOK' /\ EntryCurrent'
    BY <1>1, TypeStep, BookStep, SeenStep, LogStep, EntryStep
<1>4. IsFiniteSet(recorded') /\ LogIsFaithful' /\ WindowsHold'
    BY <1>1, <1>2, <1>3, RecordStep
<1> QED
    BY <1>3, <1>4 DEF IInv

LEMMA Invariance == Spec => []IInv
    BY InitHolds, StepHolds, PTL DEF Spec

-------------------------------------------------------------------------------
(* The theorems *)

\* Every variable keeps its type, and no log of the store outgrows the limit.
THEOREM TypeCorrect == Spec => []TypeOK
<1>1. IInv => TypeOK
    BY DEF IInv
<1> QED
    BY <1>1, Invariance, PTL

\* For every limit and window: requests of which no two of the same identity
\* overlap are never let through beyond the limit, whatever store calls fail and
\* wherever futures are dropped.
THEOREM OverrunIsByOverlap == Spec => []OverrunNeedsOverlap
<1>1. IInv => OverrunNeedsOverlap
  <2> SUFFICES ASSUME IInv, NEW i \in Ids, NEW t \in 0..MaxTime, ~ Overlap(i)
               PROVE  Cardinality({r \in Admitted(i) : now[r] \in t..(t + Window)})
                          <= MaxRequests
      BY DEF OverrunNeedsOverlap
  <2>1. PICK T : T = {r \in Admitted(i) : now[r] \in t..(t + Window)}
      OBVIOUS
  <2>2. T \in SUBSET Within(i, t)
      BY <2>1 DEF IInv, BookOK, Admitted, Within, Recorded
  <2>3. IsFiniteSet(Within(i, t)) /\ Cardinality(Within(i, t)) <= MaxRequests
      BY DEF IInv, WindowsHold
  <2>4. IsFiniteSet(T) /\ Cardinality(T) <= Cardinality(Within(i, t))
      BY <2>2, <2>3, FS_Subset
  <2>5. Cardinality(T) \in Nat /\ Cardinality(Within(i, t)) \in Nat
      BY <2>3, <2>4, FS_CardinalityType
  <2> QED
      BY <2>1, <2>3, <2>4, <2>5, LimiterAssumption
<1> QED
    BY <1>1, Invariance, PTL

\* Where the log that a rejected request found begins after the purge.
LEMMA PurgedLog ==
    ASSUME IInv, NEW r \in Requests, Reject(r)
    PROVE  /\ IdOf[r] \in Ids /\ log[IdOf[r]] \in Seq(0..MaxTime) /\ now[r] \in 0..MaxTime
           /\ \E m \in 1..(Len(log[IdOf[r]]) + 1) :
                /\ Len(log[IdOf[r]]) - m + 1 >= MaxRequests
                /\ m <= Len(log[IdOf[r]]) => ~ Outside(log[IdOf[r]][m], now[r])
<1>1. IdOf[r] \in Ids
    BY DEF IInv, BookOK, Reject
<1>2. PICK s, n : s = log[IdOf[r]] /\ n = now[r]
    OBVIOUS
<1>3. s \in Seq(0..MaxTime) /\ n \in 0..MaxTime
    BY <1>1, <1>2 DEF IInv, TypeOK
<1>4. PICK m \in 1..(Len(s) + 1) :
        Purge(s, n) = SubSeq(s, m, Len(s)) /\ (m <= Len(s) => ~ Outside(s[m], n))
    BY <1>3, PurgeLeavesSuffix
<1>5. Len(s) \in Nat
    BY <1>3, LenProperties
<1>6. \A x \in m..Len(s) : s[x] \in 0..MaxTime
  <2>1. m..Len(s) \subseteq 1..Len(s)
      BY <1>5
  <2> QED
      BY <1>3, <2>1, ElementOfSeq
<1>7. Len(Purge(s, n)) = IF m <= Len(s) THEN Len(s) - m + 1 ELSE 0
    BY <1>4, <1>5, <1>6, SubSeqProperties
<1>8. Len(Purge(s, n)) >= MaxRequests
    BY <1>2 DEF Reject
<1>9. Len(s) - m + 1 >= MaxRequests
    BY <1>5, <1>7, <1>8, LimiterAssumption
<1> QED
    BY <1>1, <1>2, <1>3, <1>4, <1>9

\* For every limit and window: whoever is turned away without overlap had the whole
\* limit of its identity recorded in its window.  The log is in order, so all that
\* the lazy pruning leaves is inside.
THEOREM RejectedIsDue == Spec => RejectionIsDue
<1>1. ASSUME IInv, NEW r \in Requests, Reject(r), ~ Overlap(IdOf[r])
      PROVE  Cardinality(Counting(r)) >= MaxRequests
  <2>1. PICK i, s, n : i = IdOf[r] /\ s = log[i] /\ n = now[r]
      OBVIOUS
  <2>2. i \in Ids /\ s \in Seq(0..MaxTime) /\ n \in 0..MaxTime /\ Len(s) \in Nat
      BY <1>1, <2>1, PurgedLog, LenProperties
  <2>3. PICK m \in 1..(Len(s) + 1) :
          Len(s) - m + 1 >= MaxRequests /\ (m <= Len(s) => ~ Outside(s[m], n))
      BY <1>1, <2>1, PurgedLog
  <2>4. PICK g : Faithful(s, Recorded(i), now, g)
      BY <1>1, <2>1, <2>2 DEF IInv, LogIsFaithful
  <2>5. /\ g \in [1..Len(s) -> Recorded(i)]
        /\ \A a, b \in 1..Len(s) : g[a] = g[b] => a = b
      BY <2>4 DEF Faithful, Injection, IsInjective
  <2>6. /\ \A j \in 1..Len(s) : now[g[j]] = s[j]
        /\ \A j, k \in 1..Len(s) : j <= k => s[j] <= s[k]
      BY <2>4 DEF Faithful
  <2>7. \A j \in 1..Len(s) : s[j] \in 0..MaxTime
      BY <2>2, ElementOfSeq
  <2>8. ASSUME NEW j \in m..Len(s) PROVE j \in 1..Len(s) /\ g[j] \in Counting(r)
    <3>1. j \in 1..Len(s) /\ m \in 1..Len(s) /\ m <= j /\ m <= Len(s)
        BY <2>2, <2>8
    <3>2. ~ Outside(s[j], n)
      <4>1. s[m] <= s[j] /\ ~ Outside(s[m], n)
          BY <2>3, <2>6, <3>1
      <4>2. s[m] \in 0..MaxTime /\ s[j] \in 0..MaxTime
          BY <2>7, <3>1
      <4> QED
          BY <2>2, <4>1, <4>2, LimiterAssumption DEF Outside
    <3>3. g[j] \in Recorded(i) /\ now[g[j]] = s[j]
        BY <2>5, <2>6, <3>1
    <3> QED
        BY <2>1, <3>1, <3>2, <3>3 DEF Counting
  <2>9. PICK f : f = [j \in m..Len(s) |-> g[j]]
      OBVIOUS
  <2>10. f \in Injection(m..Len(s), Counting(r))
      BY <2>5, <2>8, <2>9 DEF Injection, IsInjective
  <2>11. IsFiniteSet(Counting(r))
    <3>1. Counting(r) \in SUBSET recorded /\ IsFiniteSet(recorded)
        BY <1>1 DEF Counting, Recorded, IInv
    <3> QED
        BY <3>1, FS_Subset
  <2>12. Cardinality(m..Len(s)) <= Cardinality(Counting(r))
      BY <2>10, <2>11, FS_Injection
  <2>13. Cardinality(m..Len(s)) = Len(s) - m + 1
    <3>1. PICK a, b : a = m /\ b = Len(s) /\ a \in Int /\ b \in Int
        BY <2>2
    <3>2. Cardinality(a..b) = IF a > b THEN 0 ELSE b - a + 1
        BY <3>1, FS_Interval
    <3> QED
        BY <2>2, <3>1, <3>2
  <2>14. Cardinality(Counting(r)) \in Nat
      BY <2>11, FS_CardinalityType
  <2> QED
      BY <2>2, <2>3, <2>12, <2>13, <2>14, LimiterAssumption
<1>2. IInv => \A r \in Requests : Reject(r) =>
                \/ Cardinality(Counting(r)) >= MaxRequests
                \/ Overlap(IdOf[r])
    BY <1>1
<1> QED
    BY <1>2, Invariance, PTL DEF RejectionIsDue

\* For every limit and window, overlap or not: an identity of which nobody is
\* recorded inside the window is let in.
THEOREM QuietIsAdmitted == Spec => QuietIdentityIsAdmitted
<1>1. ASSUME IInv, NEW r \in Requests, MaxRequests > 0, Reject(r)
      PROVE  Counting(r) # {}
  <2>1. PICK i, s, n : i = IdOf[r] /\ s = log[i] /\ n = now[r]
      OBVIOUS
  <2>2. i \in Ids /\ Len(s) \in Nat
      BY <1>1, <2>1, PurgedLog, LenProperties
  <2>3. PICK m \in 1..(Len(s) + 1) :
          Len(s) - m + 1 >= MaxRequests /\ (m <= Len(s) => ~ Outside(s[m], n))
      BY <1>1, <2>1, PurgedLog
  <2>4. m \in 1..Len(s) /\ ~ Outside(s[m], n)
      BY <1>1, <2>2, <2>3, LimiterAssumption
  <2>5. PICK q \in Recorded(i) : now[q] = s[m]
      BY <1>1, <2>1, <2>2, <2>4 DEF IInv, LogOK
  <2>6. q \in Counting(r)
      BY <2>1, <2>4, <2>5 DEF Counting
  <2> QED
      BY <2>6
<1>2. IInv => \A r \in Requests : MaxRequests > 0 /\ Reject(r) => Counting(r) # {}
    BY <1>1
<1> QED
    BY <1>2, Invariance, PTL DEF QuietIdentityIsAdmitted
================================================================================
