------------------------------- MODULE TaskLocals -------------------------------
(***************************************************************************)
(* Values that travel with a request in a task-local: PaginationMiddleware *)
(* and Pagination (middleware/pagination.rs, locals/pagination.rs) and the *)
(* generic AttachLocal<T> (middleware/attach_local.rs), whose T is taken   *)
(* here to be a pagination that its extractor rejects when it is bad.      *)
(*                                                                         *)
(* A worker thread polls one future at a time and may turn to another at   *)
(* every await.  tokio's task_local is external: one slot per thread; the  *)
(* future scope() returns swaps its value with the slot's when its poll    *)
(* begins and again when it ends, on a panic as well.                      *)
(***************************************************************************)
EXTENDS Integers

CONSTANTS Futures,        \* the requests of one worker thread
          ModeOf,         \* the middleware each goes through
          Pages, Limits,  \* bound: the numbers queries hold
          DefaultLimit,   \* 100
          Words,          \* the numbers a u32 tells apart: 2^32
          OverflowChecks, \* TRUE in a build that panics on overflow
          Idle

Modes == {"pagination", "attach", "none"}

ASSUME LocalsAssumption ==
    /\ ModeOf \in [Futures -> Modes]
    /\ Pages \cup Limits \cup {DefaultLimit} \subseteq 0..(Words - 1)
    /\ OverflowChecks \in BOOLEAN
    /\ Idle \notin Futures

VARIABLES query,  \* page and limit in the query string of each request
          polled, \* the request whose future the thread polls
          slot,   \* the thread's value of the task-local
          kept,   \* what each scope future holds while it is not polled
          pc,     \* where the future of each request stands
          reply,  \* how each request ended
          reads   \* history: what was read, for whom and where

localsVars == <<query, polled, slot, kept, pc, reply, reads>>

Pagination == [page : Pages \cup {0}, limit : Limits \cup {DefaultLimit}]
Default == [page |-> 0, limit |-> DefaultLimit]
Unset == [page |-> -1, limit |-> -1]

Missing == -1
Bad == -2
Queries == [page : Pages \cup {Missing, Bad}, limit : Limits \cup {Missing, Bad}]
IsBad(q) == Bad \in {q.page, q.limit}

\* SafePagination::get: fields that are missing have their defaults; one that
\* is bad (no number, out of range, given twice) discards the other as well.
Parsed(q) ==
    IF IsBad(q) THEN Default
    ELSE [page  |-> IF q.page = Missing THEN 0 ELSE q.page,
          limit |-> IF q.limit = Missing THEN DefaultLimit ELSE q.limit]

\* Pagination::get: the default outside of any scope.
Get == IF slot = Unset THEN Default ELSE slot

\* page times limit: Pagination::offset panics, or wraps, by the build.
Overflows(p) == p.page * p.limit >= Words

\* A query that no middleware reads is left empty.
LocalsInit ==
    /\ query \in [Futures -> Queries]
    /\ \A r \in Futures : ModeOf[r] = "none" =>
         query[r] = [page |-> Missing, limit |-> Missing]
    /\ polled = Idle
    /\ slot = Unset
    /\ kept = [r \in Futures |-> Unset]
    /\ pc = [r \in Futures |-> "extract"]
    /\ reply = [r \in Futures |-> "none"]
    /\ reads = {}

-------------------------------------------------------------------------------
\* The value of r's scope and the value of the thread change places.
Swap(r) == /\ slot' = kept[r]
           /\ kept' = [kept EXCEPT ![r] = slot]

InScope(r) == pc[r] = "inner" \/ (pc[r] = "call" /\ ModeOf[r] = "pagination")

\* The poll of r's future ends.
Leave(r) == IF InScope(r) THEN Swap(r) ELSE UNCHANGED <<slot, kept>>

End(r, how) ==
    /\ reply' = [reply EXCEPT ![r] = how]
    /\ pc' = [pc EXCEPT ![r] = "done"]

Reads(r, where) == reads' = reads \cup {[by |-> r, where |-> where, value |-> Get]}

\* The thread turns to r's future.
Poll(r) ==
    /\ polled = Idle /\ pc[r] # "done"
    /\ polled' = r
    /\ IF InScope(r) THEN Swap(r) ELSE UNCHANGED <<slot, kept>>
    /\ UNCHANGED <<query, pc, reply, reads>>

\* An await on the way: T::from_request, or anything inside the service.
Yield(r) ==
    /\ polled = r
    /\ pc[r] = "inner" \/ (pc[r] = "extract" /\ ModeOf[r] = "attach")
    /\ Leave(r)
    /\ polled' = Idle
    /\ UNCHANGED <<query, pc, reply, reads>>

\* PaginationMiddleware enters its scope before it calls the service.
ExtractPagination(r) ==
    /\ polled = r /\ pc[r] = "extract" /\ ModeOf[r] = "pagination"
    /\ slot' = Parsed(query[r])
    /\ kept' = [kept EXCEPT ![r] = slot]
    /\ pc' = [pc EXCEPT ![r] = "call"]
    /\ UNCHANGED <<query, polled, reply, reads>>

\* AttachLocal has its value and calls the service first.
ExtractLocal(r) ==
    /\ polled = r /\ pc[r] = "extract" /\ ModeOf[r] = "attach"
    /\ ~ IsBad(query[r])
    /\ kept' = [kept EXCEPT ![r] = Parsed(query[r])]
    /\ pc' = [pc EXCEPT ![r] = "call"]
    /\ UNCHANGED <<query, polled, slot, reply, reads>>

\* The extractor's error rejects the request.
ExtractFails(r) ==
    /\ polled = r /\ pc[r] = "extract" /\ ModeOf[r] = "attach"
    /\ IsBad(query[r])
    /\ End(r, "rejected")
    /\ polled' = Idle
    /\ UNCHANGED <<query, slot, kept, reads>>

\* A request that meets neither.
NoMiddleware(r) ==
    /\ polled = r /\ pc[r] = "extract" /\ ModeOf[r] = "none"
    /\ pc' = [pc EXCEPT ![r] = "call"]
    /\ UNCHANGED <<query, polled, slot, kept, reply, reads>>

\* Slip: PaginationMiddleware's future is built before its scope is entered.
Call_ThenScope(r) ==
    /\ polled = r /\ pc[r] = "call"
    /\ reads' = reads \cup
         {[by |-> r, where |-> "call",
           value |-> IF ModeOf[r] = "pagination" THEN Default ELSE Get]}
    /\ pc' = [pc EXCEPT ![r] = "inner"]
    /\ IF ModeOf[r] = "attach" THEN Swap(r) ELSE UNCHANGED <<slot, kept>>
    /\ UNCHANGED <<query, polled, reply>>

\* service.call(req) returns the inner future, having run what the inner stages
\* do at once (the key function of Singleflight, say).  AttachLocal enters its
\* scope with the future in hand.
Call(r) ==
    /\ polled = r /\ pc[r] = "call"
    /\ Reads(r, "call")
    /\ pc' = [pc EXCEPT ![r] = "inner"]
    /\ IF ModeOf[r] = "attach" THEN Swap(r) ELSE UNCHANGED <<slot, kept>>
    /\ UNCHANGED <<query, polled, reply>>

\* The handler, or what it calls, reads the pagination.
Read(r) ==
    /\ polled = r /\ pc[r] = "inner"
    /\ Reads(r, "future")
    /\ UNCHANGED <<query, polled, slot, kept, pc, reply>>

\* offset() panics: the future is dropped, its scope left.
ReadPanics(r) ==
    /\ polled = r /\ pc[r] = "inner"
    /\ OverflowChecks /\ Overflows(Get)
    /\ Leave(r)
    /\ polled' = Idle
    /\ End(r, "panic")
    /\ UNCHANGED <<query, reads>>

\* A task that r spawned is polled on its own.
SpawnedRead(r) ==
    /\ polled = Idle /\ pc[r] \in {"inner", "done"} /\ reply[r] \in {"none", "ok"}
    /\ Reads(r, "spawned")
    /\ UNCHANGED <<query, polled, slot, kept, pc, reply>>

Return(r) ==
    /\ polled = r /\ pc[r] = "inner"
    /\ Leave(r)
    /\ polled' = Idle
    /\ End(r, "ok")
    /\ UNCHANGED <<query, reads>>

\* The client goes away while the future waits.
Cancel(r) ==
    /\ polled = Idle /\ pc[r] # "done"
    /\ End(r, "dropped")
    /\ UNCHANGED <<query, polled, slot, kept, reads>>

AllDone == /\ \A r \in Futures : pc[r] = "done"
           /\ UNCHANGED localsVars

Request(r) ==
    \/ Poll(r) \/ Yield(r)
    \/ ExtractPagination(r) \/ ExtractLocal(r) \/ ExtractFails(r) \/ NoMiddleware(r)
    \/ Call(r) \/ Read(r) \/ ReadPanics(r) \/ SpawnedRead(r)
    \/ Return(r) \/ Cancel(r)

LocalsNext == (\E r \in Futures : Request(r)) \/ AllDone

LocalsSpec == LocalsInit /\ [][LocalsNext]_localsVars

-------------------------------------------------------------------------------
(* Properties *)

\* Where the task-local of r's own middleware is set: in the inner future, and
\* behind PaginationMiddleware in what stages do at once in call() too.  AttachLocal
\* enters its scope later than that, and a spawned task is outside of any.
Covered(x) == CASE ModeOf[x.by] = "pagination" -> x.where \in {"call", "future"}
                [] ModeOf[x.by] = "attach" -> x.where = "future"
                [] OTHER -> FALSE

\* However the thread switches between requests, what is read for a request is
\* what its own query says, field by field; and no value stays behind on the
\* thread: what is read outside of a scope is the default, whoever was polled
\* before, and panicked.
ReadsAreOwn ==
    \A x \in reads :
        LET q == query[x.by] IN
        IF ~ Covered(x) \/ IsBad(q) THEN x.value = Default
        ELSE /\ x.value.page = (IF q.page = Missing THEN 0 ELSE q.page)
             /\ x.value.limit = (IF q.limit = Missing THEN DefaultLimit ELSE q.limit)
================================================================================
