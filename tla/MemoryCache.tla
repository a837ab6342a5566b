------------------------------ MODULE MemoryCache ------------------------------
(***************************************************************************)
(* The in-memory Store of middleware/cache/memory.rs: a map and a queue of *)
(* keys in insertion order, each behind a lock of its own.                 *)
(*                                                                         *)
(* set is three critical sections, and other calls run between them.       *)
(* evict_if_needed takes the map's lock and then the queue's: as nobody    *)
(* holds the queue's lock across an .await, it is one step.  clear is two. *)
(***************************************************************************)
EXTENDS Integers, Sequences, FiniteSets

CONSTANTS Tasks,        \* the callers of set
          Keys,         \* the keys of the map
          KeyOf,        \* the key each caller stores under
          Absent,       \* no entry
          MaxEntries,   \* max_entries
          Ttl,          \* the fixed lifetime of an entry, in ticks
          MaxTime       \* bound on the clock

ASSUME CacheAssumption ==
    /\ KeyOf \in [Tasks -> Keys]
    /\ Absent \notin [by : Tasks, expires_at : Int]
    /\ MaxEntries \in Nat
    /\ Ttl \in Nat
    /\ MaxTime \in Nat

VARIABLES clock,       \* Instant::now()
          entries,     \* entries: whose response each key holds, and until when
          order,       \* insertion_order
          setting,     \* where each caller's set stands
          expires_at,  \* the expiry each caller computed for the entry to insert
          clearing     \* clear has emptied the map and not yet the queue

storeVars == <<clock, entries, order, setting, expires_at, clearing>>

Phases == {"idle", "inserting", "pushing"}

Held == {k \in Keys : entries[k] # Absent}

\* Slip: an entry is still good at the very end of its lifetime.
Expired_Late(k) == clock > entries[k].expires_at

Expired(k) == clock >= entries[k].expires_at

\* The keys that get would return a response for.
Readable == {k \in Held : ~ Expired(k)}

StoreInit ==
    /\ clock = 0
    /\ entries = [k \in Keys |-> Absent]
    /\ order = << >>
    /\ setting = [t \in Tasks |-> "idle"]
    /\ expires_at = [t \in Tasks |-> 0]
    /\ clearing = FALSE

Tick ==
    /\ clock < MaxTime
    /\ clock' = clock + 1
    /\ UNCHANGED <<entries, order, setting, expires_at, clearing>>

\* The entries left when the first n keys of the queue have been popped.
LeftAfter(n) == Readable \ {order[i] : i \in 1..n}

\* Slip: eviction stops one entry too early.
Pops_OneTooFew ==
    CHOOSE n \in 0..Len(order) :
        /\ n = Len(order) \/ Cardinality(LeftAfter(n)) <= MaxEntries
        /\ \A m \in 0..(n - 1) : Cardinality(LeftAfter(m)) > MaxEntries

\* How many keys the eviction loop pops: until there is room, or none is left.
Pops ==
    CHOOSE n \in 0..Len(order) :
        /\ n = Len(order) \/ Cardinality(LeftAfter(n)) < MaxEntries
        /\ \A m \in 0..(n - 1) : Cardinality(LeftAfter(m)) >= MaxEntries

\* Slip: the lifetime is added twice.
Expiry_Twice == clock + Ttl + Ttl

Expiry == clock + Ttl

\* set: expired entries are dropped, room is made, and the expiry computed.
Evict(t) ==
    /\ setting[t] = "idle"
    /\ entries' = [k \in Keys |-> IF k \in LeftAfter(Pops) THEN entries[k]
                                                           ELSE Absent]
    /\ order' = SubSeq(order, Pops + 1, Len(order))
    /\ expires_at' = [expires_at EXCEPT ![t] = Expiry]
    /\ setting' = [setting EXCEPT ![t] = "inserting"]
    /\ UNCHANGED <<clock, clearing>>

\* Slip: an entry that is replaced is taken for a new one, and not queued again
\* when it is new.
Insert_Inverted(t) ==
    /\ setting[t] = "inserting"
    /\ entries' = [entries EXCEPT
                     ![KeyOf[t]] = [by |-> t, expires_at |-> expires_at[t]]]
    /\ setting' = [setting EXCEPT
                     ![t] = IF KeyOf[t] \in Held THEN "pushing" ELSE "idle"]
    /\ expires_at' = [expires_at EXCEPT ![t] = 0]
    /\ UNCHANGED <<clock, order, clearing>>

\* set: the entry is inserted (its expiry moves into the map); a key that was
\* there is not queued again.
Insert(t) ==
    /\ setting[t] = "inserting"
    /\ entries' = [entries EXCEPT
                     ![KeyOf[t]] = [by |-> t, expires_at |-> expires_at[t]]]
    /\ setting' = [setting EXCEPT
                     ![t] = IF KeyOf[t] \in Held THEN "idle" ELSE "pushing"]
    /\ expires_at' = [expires_at EXCEPT ![t] = 0]
    /\ UNCHANGED <<clock, order, clearing>>

\* set: a new key is queued.
Push(t) ==
    /\ setting[t] = "pushing"
    /\ order' = Append(order, KeyOf[t])
    /\ setting' = [setting EXCEPT ![t] = "idle"]
    /\ UNCHANGED <<clock, entries, expires_at, clearing>>

\* The future of a set is dropped at one of its awaits.
DropSet(t) ==
    /\ setting' = [setting EXCEPT ![t] = "idle"]
    /\ expires_at' = [expires_at EXCEPT ![t] = 0]
    /\ UNCHANGED <<clock, entries, order, clearing>>

\* Slip: the key is taken out of the queue and the entry is left.
Delete_OrderOnly(k) ==
    /\ k \in Held
    /\ order' = SelectSeq(order, LAMBDA q : q # k)
    /\ UNCHANGED <<clock, entries, setting, expires_at, clearing>>

\* delete leaves the key in the queue.
Delete(k) ==
    /\ k \in Held
    /\ entries' = [entries EXCEPT ![k] = Absent]
    /\ UNCHANGED <<clock, order, setting, expires_at, clearing>>

\* clear empties the map, lets its lock go, and empties the queue.
ClearEntries ==
    /\ ~ clearing
    /\ entries' = [k \in Keys |-> Absent]
    /\ clearing' = TRUE
    /\ UNCHANGED <<clock, order, setting, expires_at>>

ClearOrder ==
    /\ clearing
    /\ order' = << >>
    /\ clearing' = FALSE
    /\ UNCHANGED <<clock, entries, setting, expires_at>>
================================================================================
