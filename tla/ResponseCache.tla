----------------------------- MODULE ResponseCache -----------------------------
(***************************************************************************)
(* The Cache middleware of middleware/cache/middleware.rs over the store   *)
(* of MemoryCache.  A response is named by the request whose execution     *)
(* produced it.  The application may delete a key or clear the store at    *)
(* any time.  MemoryCache never reports an error; StoreFails stands for a  *)
(* Store that does.                                                        *)
(***************************************************************************)
EXTENDS MemoryCache

CONSTANTS StoreFails   \* TRUE when store calls may report an error

Requests == Tasks

ASSUME StoreFailsAssumption == StoreFails \in BOOLEAN

VARIABLES pc,      \* where the future of each request stands
          reply,   \* what call() returned: its kind, and whose outcome
          kept,    \* history: requests with a whole response that may be cached
          crossed, \* history: two sets have overlapped
          cut      \* history: a clear overlapped a set, or a set was dropped
                   \* between its insert and its push

history == <<kept, crossed, cut>>
vars == <<storeVars, pc, reply, history>>

Places == {"new", "bypass", "calling", "buffering", "storing", "done", "dropped"}
Kinds == {"none", "hit", "own"}

Goto(r, p) == pc' = [pc EXCEPT ![r] = p]

Reply(r, kind, q) ==
    /\ reply' = [reply EXCEPT ![r] = [kind |-> kind, of |-> q]]
    /\ Goto(r, "done")

Init ==
    /\ StoreInit
    /\ pc = [r \in Requests |-> "new"]
    /\ reply = [r \in Requests |-> [kind |-> "none", of |-> r]]
    /\ kept = {}
    /\ crossed = FALSE
    /\ cut = FALSE

-------------------------------------------------------------------------------
\* Anything but GET never touches the cache.
Bypass(r) ==
    /\ pc[r] = "new"
    /\ Goto(r, "bypass")
    /\ UNCHANGED <<storeVars, reply, history>>

BypassReturns(r) ==
    /\ pc[r] = "bypass"
    /\ Reply(r, "own", r)
    /\ UNCHANGED <<storeVars, history>>

\* get finds an entry that has not expired: it is replayed.
Hit(r) ==
    /\ pc[r] = "new"
    /\ KeyOf[r] \in Readable
    /\ Reply(r, "hit", entries[KeyOf[r]].by)
    /\ UNCHANGED <<storeVars, history>>

\* Slip: the service is called without a look at the store.
Miss_NoGet(r) ==
    /\ pc[r] = "new"
    /\ Goto(r, "calling")
    /\ UNCHANGED <<storeVars, reply, history>>

\* get finds nothing: the service is called.
Miss(r) ==
    /\ pc[r] = "new"
    /\ KeyOf[r] \notin Readable
    /\ Goto(r, "calling")
    /\ UNCHANGED <<storeVars, reply, history>>

\* get reports an error: logged, and the service is called all the same.
GetFails(r) ==
    /\ StoreFails
    /\ pc[r] = "new"
    /\ Goto(r, "calling")
    /\ UNCHANGED <<storeVars, reply, history>>

\* The service answers with an error (passed on), or with a response that must
\* not be cached (status, Set-Cookie, Cache-Control, a body of unknown length).
ServiceReturns(r) ==
    /\ pc[r] = "calling"
    /\ Reply(r, "own", r)
    /\ UNCHANGED <<storeVars, history>>

ServiceCacheable(r) ==
    /\ pc[r] = "calling"
    /\ Goto(r, "buffering")
    /\ UNCHANGED <<storeVars, reply, history>>

\* The body stream fails: status and headers are answered with an empty body.
BodyFails(r) ==
    /\ pc[r] = "buffering"
    /\ Reply(r, "own", r)
    /\ UNCHANGED <<storeVars, history>>

Setting == {t \in Requests : setting[t] # "idle"}

\* The body is there: set is called, and begins by making room.
BodyRead(r) ==
    /\ pc[r] = "buffering"
    /\ Evict(r)
    /\ kept' = kept \cup {r}
    /\ crossed' = (crossed \/ Setting # {})
    /\ cut' = (cut \/ clearing)
    /\ Goto(r, "storing")
    /\ UNCHANGED reply

\* set fails: logged, and the response is answered all the same.
SetFails(r) ==
    /\ StoreFails
    /\ pc[r] = "buffering"
    /\ Reply(r, "own", r)
    /\ UNCHANGED <<storeVars, history>>

\* When set returns, the response is rebuilt and answered.
SetReturns(r) ==
    IF setting'[r] = "idle" THEN Reply(r, "own", r) ELSE UNCHANGED <<pc, reply>>

StoreInserts(r) ==
    /\ pc[r] = "storing"
    /\ Insert(r)
    /\ SetReturns(r)
    /\ UNCHANGED history

StorePushes(r) ==
    /\ pc[r] = "storing"
    /\ Push(r)
    /\ SetReturns(r)
    /\ UNCHANGED history

\* The future is dropped at an await.
Cancel(r) ==
    /\ pc[r] \in {"bypass", "calling", "buffering", "storing"}
    /\ DropSet(r)
    /\ cut' = (cut \/ setting[r] = "pushing")
    /\ Goto(r, "dropped")
    /\ UNCHANGED <<reply, kept, crossed>>

Stage(r) ==
    \/ Bypass(r) \/ BypassReturns(r) \/ Hit(r) \/ GetFails(r)
    \/ ServiceReturns(r) \/ ServiceCacheable(r) \/ BodyFails(r) \/ BodyRead(r)
    \/ SetFails(r) \/ StoreInserts(r) \/ StorePushes(r) \/ Cancel(r)

Request(r) == Miss(r) \/ Stage(r)

\* The application's own calls on the store, and the passing of time.
AppDeletes(k) == Delete(k) /\ UNCHANGED <<pc, reply, history>>

AppClears ==
    /\ ClearEntries \/ ClearOrder
    /\ cut' = (cut \/ Setting # {})
    /\ UNCHANGED <<pc, reply, kept, crossed>>

TimePasses == Tick /\ UNCHANGED <<pc, reply, history>>

Finished == /\ \A r \in Requests : pc[r] \in {"done", "dropped"}
            /\ UNCHANGED vars

Next == \/ \E r \in Requests : Request(r)
        \/ \E k \in Keys : AppDeletes(k)
        \/ AppClears \/ TimePasses \/ Finished

Spec == Init /\ [][Next]_vars

-------------------------------------------------------------------------------
(* Properties *)

\* Every variable keeps its type.
TypeOK ==
    /\ clock \in 0..MaxTime
    /\ entries \in [Keys -> [by : Requests, expires_at : 0..(MaxTime + Ttl)]
                               \cup {Absent}]
    /\ order \in Seq(Keys)
    /\ setting \in [Requests -> Phases]
    /\ expires_at \in [Requests -> 0..(MaxTime + Ttl)]
    /\ clearing \in BOOLEAN
    /\ pc \in [Requests -> Places]
    /\ reply \in [Requests -> [kind : Kinds, of : Requests]]
    /\ kept \in SUBSET Requests
    /\ crossed \in BOOLEAN /\ cut \in BOOLEAN

\* memory.rs:38: growth is bounded by max_entries (an entry more with a limit of
\* 0) as long as no two sets have overlapped and none was cut off.
SizeIsBounded ==
    crossed \/ cut \/ Cardinality(Held) <= IF MaxEntries = 0 THEN 1 ELSE MaxEntries

\* Every entry can be found by eviction: its key is queued, or about to be.  Only
\* a clear that overlaps a set, or a set dropped half way, leaves one outside;
\* overlapping sets do not.
EveryEntryIsEvictable ==
    cut \/ \A k \in Held :
        \/ \E i \in DOMAIN order : order[i] = k
        \/ \E r \in Requests : setting[r] = "pushing" /\ KeyOf[r] = k
================================================================================
