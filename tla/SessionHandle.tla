----------------------------- MODULE SessionHandle -----------------------------
(***************************************************************************)
(* The handle a request's session is reached through: Session and          *)
(* ReadSession (extractors/session.rs, extractors/read_session.rs) and the *)
(* saving end of SessionMiddleware and RequiredSession, which read the     *)
(* same RwLock and the same dirty flag.                                    *)
(*                                                                         *)
(* One request.  Its handler and the tasks it spawned hold clones of the   *)
(* handle; the handler may return while tasks still wait for the lock or   *)
(* hold it.  Each of them asks for the lock once, to read or to write.  A  *)
(* write is made in two parts, with an await between them.  The tokio      *)
(* RwLock is external: fair, first come first served, its waiters leaving  *)
(* the queue when their future is dropped.                                 *)
(***************************************************************************)
EXTENDS Naturals, Sequences, SequencesExt

CONSTANTS Tasks,      \* the handler and the tasks that hold clones
          Handler,    \* the handler
          Middleware, \* the middleware, which takes the lock as well
          StoreFails  \* TRUE when Store::set may report an error

ASSUME HandleAssumption ==
    /\ Handler \in Tasks
    /\ Middleware \notin Tasks
    /\ StoreFails \in BOOLEAN

VARIABLES extensions, \* the types found in the extensions of the request
          mw,         \* where the future of the middleware stands
          pc,         \* where each task stands
          data,       \* Session::data: the parts of each task's write it holds
          dirty,      \* Session::dirty
          held,       \* the RwLock: who holds it, in which mode
          queue,      \* the RwLock: who waits for it, in which mode
          store,      \* the value in the Store
          reply,      \* what call() returned
          early,      \* history: lock granted before the handler returned
          aborted     \* history: the tasks that were dropped at an await

lock == <<held, queue>>
vars == <<extensions, mw, pc, data, dirty, lock, store, reply, early, aborted>>

Parties == Tasks \cup {Middleware}
Asks == [who : Parties, mode : {"read", "write"}]
Ask(who, mode) == [who |-> who, mode |-> mode]
Whole == 2

-------------------------------------------------------------------------------
(* The RwLock *)

\* Those at the head of the queue that h lets in: readers together, a writer
\* alone.
Admitted(h, q) ==
    LET readers == {n \in 1..Len(q) : \A i \in 1..n : q[i].mode = "read"}
    IN  IF \E a \in h : a.mode = "write" THEN 0
        ELSE IF readers # {} THEN CHOOSE n \in readers : \A m \in readers : m <= n
        ELSE IF h = {} /\ q # <<>> THEN 1
        ELSE 0

\* The lock with the holders h and the waiters q, after it lets in whom it can.
Settle(h, q) ==
    LET n == Admitted(h, q)
        in == {q[i] : i \in 1..n}
    IN  /\ held' = h \cup in
        /\ queue' = SubSeq(q, n + 1, Len(q))
        /\ early' = early \cup (IF mw = "handling" THEN {a.who : a \in in} ELSE {})

Acquire(who, mode) == Settle(held, Append(queue, Ask(who, mode)))

\* The waiters q without who, whose future is dropped.
Leave(q, who) ==
    IF \E i \in DOMAIN q : q[i].who = who
    THEN RemoveAt(q, CHOOSE i \in DOMAIN q : q[i].who = who)
    ELSE q

\* The guard, or the future that waits for one, is dropped.
Release(who) == Settle({a \in held : a.who # who}, Leave(queue, who))

Holds(who, mode) == Ask(who, mode) \in held
Waits(who) == \E a \in Range(queue) : a.who = who

-------------------------------------------------------------------------------
\* What the middleware puts into the extensions: the shared handle, and a copy of
\* the value when it was loaded.
Inserted(loaded) == {"Arc<Session<T>>"} \cup (IF loaded THEN {"T"} ELSE {})

\* The type each extractor looks for.
LookedUp == [Session |-> "Arc<Session<T>>", ReadSession |-> "Session<T>"]

\* A session that was loaded starts clean, one made for want of a cookie dirty;
\* without the middleware there is neither.  The handler has no handle yet.
Init ==
    /\ extensions \in {{}, Inserted(TRUE), Inserted(FALSE)}
    /\ mw = "extract"
    /\ pc = [t \in Tasks |-> "start"]
    /\ data = [t \in Tasks |-> 0]
    /\ dirty = (extensions = Inserted(FALSE))
    /\ held = {}
    /\ queue = <<>>
    /\ store = [t \in Tasks |-> 0]
    /\ reply = "none"
    /\ early = {}
    /\ aborted = {}

\* FromRequest finds the handle: the handler runs.
Extract(x) ==
    /\ mw = "extract" /\ LookedUp[x] \in extensions
    /\ mw' = "handling"
    /\ UNCHANGED <<extensions, pc, data, dirty, lock, store, reply, early, aborted>>

\* It does not: the handler is not called, and the middleware, if there is one,
\* treats the 500 like any other response.
ExtractFails(x) ==
    /\ mw = "extract" /\ LookedUp[x] \notin extensions
    /\ mw' = IF extensions = {} THEN "done" ELSE "check"
    /\ reply' = "no session"
    /\ pc' = [t \in Tasks |-> "end"]
    /\ UNCHANGED <<extensions, data, dirty, lock, store, early, aborted>>

-------------------------------------------------------------------------------
(* The handler and its tasks *)

\* The handler's own steps are over once it has returned.
Active(t) == mw # "extract" /\ (t = Handler => mw = "handling")

\* Slip: the flag is left to the caller.
Mark_Forgotten(t) ==
    /\ Active(t) /\ pc[t] = "start"
    /\ pc' = [pc EXCEPT ![t] = "marked"]
    /\ UNCHANGED <<extensions, mw, data, dirty, lock, store, reply, early, aborted>>

\* write(), up to the await of the lock: the flag goes up first.
Mark(t) ==
    /\ Active(t) /\ pc[t] = "start"
    /\ dirty' = TRUE
    /\ pc' = [pc EXCEPT ![t] = "marked"]
    /\ UNCHANGED <<extensions, mw, data, lock, store, reply, early, aborted>>

\* write() asks for the lock.
LockWrite(t) ==
    /\ Active(t) /\ pc[t] = "marked"
    /\ Acquire(t, "write")
    /\ pc' = [pc EXCEPT ![t] = "locking"]
    /\ UNCHANGED <<extensions, mw, data, dirty, store, reply, aborted>>

\* read() asks for the lock.
LockRead(t) ==
    /\ Active(t) /\ pc[t] = "start"
    /\ Acquire(t, "read")
    /\ pc' = [pc EXCEPT ![t] = "locking"]
    /\ UNCHANGED <<extensions, mw, data, dirty, store, reply, aborted>>

\* The task makes the next part of its write through the guard.
Mutate(t) ==
    /\ Active(t) /\ Holds(t, "write") /\ data[t] < Whole
    /\ data' = [data EXCEPT ![t] = @ + 1]
    /\ UNCHANGED <<extensions, mw, pc, dirty, lock, store, reply, early, aborted>>

\* The guard goes out of scope, the write made in full or not at all.
DropGuard(t) ==
    /\ Active(t) /\ \E mode \in {"read", "write"} : Holds(t, mode)
    /\ data[t] \in {0, Whole}
    /\ Release(t)
    /\ pc' = [pc EXCEPT ![t] = "end"]
    /\ UNCHANGED <<extensions, mw, data, dirty, store, reply, aborted>>

\* A spawned task is aborted at an await; its guard goes with it.
Abort(t) ==
    /\ t # Handler /\ Active(t) /\ pc[t] = "locking"
    /\ Release(t)
    /\ pc' = [pc EXCEPT ![t] = "end"]
    /\ aborted' = aborted \cup {t}
    /\ UNCHANGED <<extensions, mw, data, dirty, store, reply>>

-------------------------------------------------------------------------------
(* The middleware, once service.call(req) has been awaited *)

\* The handler returns with no guard of its own left.
ServiceOk ==
    /\ mw = "handling" /\ pc[Handler] \in {"start", "end"}
    /\ mw' = "check"
    /\ UNCHANGED <<extensions, pc, data, dirty, lock, store, reply, early, aborted>>

\* An error of an inner middleware, which may have dropped the handler at an
\* await, ends the request: nothing is saved.
ServiceErr ==
    /\ mw = "handling"
    /\ Release(Handler)
    /\ pc' = [pc EXCEPT ![Handler] = "end"]
    /\ aborted' = aborted \cup {Handler}
    /\ mw' = "done"
    /\ reply' = "error"
    /\ UNCHANGED <<extensions, data, dirty, store>>

Answer == IF reply = "none" THEN "ok" ELSE reply

\* is_dirty(): nothing to save.
CheckClean ==
    /\ mw = "check" /\ ~ dirty
    /\ mw' = "done"
    /\ reply' = Answer
    /\ UNCHANGED <<extensions, pc, data, dirty, lock, store, early, aborted>>

\* Slip: the value is taken without waiting for those who hold the lock.
CheckDirty_NoLock ==
    /\ mw = "check" /\ dirty
    /\ held' = held \cup {Ask(Middleware, "read")}
    /\ mw' = "saving"
    /\ UNCHANGED <<extensions, pc, data, dirty, queue, store, reply, early, aborted>>

\* is_dirty(): the read lock is asked for.
CheckDirty ==
    /\ mw = "check" /\ dirty
    /\ Acquire(Middleware, "read")
    /\ mw' = "saving"
    /\ UNCHANGED <<extensions, pc, data, dirty, store, reply, aborted>>

\* Store::set takes effect, under the read guard.
Save ==
    /\ mw = "saving" /\ Holds(Middleware, "read")
    /\ store' = data
    /\ mw' = "saved"
    /\ UNCHANGED <<extensions, pc, data, dirty, lock, reply, early, aborted>>

\* Store::set reports an error, its effect made or not; the flag stays up.
SaveFails ==
    /\ StoreFails /\ mw = "saving" /\ Holds(Middleware, "read")
    /\ store' \in {store, data}
    /\ Release(Middleware)
    /\ mw' = "done"
    /\ reply' = "error"
    /\ UNCHANGED <<extensions, pc, data, dirty, aborted>>

\* Slip: the flag is put down through the write lock, under the read guard.
SetClean_WriteLock ==
    /\ mw = "saved" /\ held = {}
    /\ dirty' = FALSE
    /\ mw' = "clean"
    /\ UNCHANGED <<extensions, pc, data, lock, store, reply, early, aborted>>

\* set_clean(), the guard still held.
SetClean ==
    /\ mw = "saved"
    /\ dirty' = FALSE
    /\ mw' = "clean"
    /\ UNCHANGED <<extensions, pc, data, lock, store, reply, early, aborted>>

\* The guard goes at the end of the block, and the response is returned.
Respond ==
    /\ mw = "clean"
    /\ Release(Middleware)
    /\ mw' = "done"
    /\ reply' = Answer
    /\ UNCHANGED <<extensions, pc, data, dirty, store, aborted>>

\* The client goes away: handler and middleware are dropped, the tasks live on.
\* A set under way may have its effect.
Cancel ==
    /\ mw \notin {"extract", "done", "dropped"}
    /\ \/ UNCHANGED store
       \/ mw = "saving" /\ Holds(Middleware, "read") /\ store' = data
    /\ LET gone == {Middleware, Handler}
       IN  Settle({a \in held : a.who \notin gone},
                  Leave(Leave(queue, Middleware), Handler))
    /\ mw' = "dropped"
    /\ pc' = [pc EXCEPT ![Handler] = "end"]
    /\ aborted' = aborted \cup {Handler}
    /\ UNCHANGED <<extensions, data, dirty, reply>>

-------------------------------------------------------------------------------
Task(t) == \/ Mark(t) \/ LockWrite(t) \/ LockRead(t)
           \/ Mutate(t) \/ DropGuard(t) \/ Abort(t)

Saving == \/ CheckClean \/ CheckDirty \/ Save \/ SaveFails
          \/ SetClean \/ Respond

Finished == /\ mw \in {"done", "dropped"}
            /\ held = {} /\ queue = <<>>
            /\ UNCHANGED vars

Next == \/ \E x \in DOMAIN LookedUp : Extract(x) \/ ExtractFails(x)
        \/ \E t \in Tasks : Task(t)
        \/ ServiceOk \/ ServiceErr \/ Saving \/ Cancel
        \/ Finished

\* The middleware is polled when it can go on, the store answers, and whoever
\* is given the lock finishes and drops its guard.
Fairness == /\ WF_vars(Saving)
            /\ \A t \in Tasks : WF_vars(Mutate(t) \/ DropGuard(t))

Spec == Init /\ [][Next]_vars
FairSpec == Spec /\ Fairness

-------------------------------------------------------------------------------
(* Properties *)

\* Whoever was given the write lock before the handler returned has its write
\* in the saved value when the request is answered, even when it went on
\* writing after the handler returned: the flag is up before the lock is asked
\* for, and the middleware waits for the lock.
EarlyWritesAreSaved ==
    reply = "ok" => \A t \in early \cap Tasks : store[t] = data[t]

\* The store holds half of a write only of a task that was dropped in the
\* middle of it: the value is never taken from under a writer.
SavedIsWhole ==
    \A t \in Tasks : store[t] \in {0, Whole} \/ t \in aborted

\* Nobody hangs: once the handler has returned the request is answered, whatever
\* the tasks that outlive it do (the middleware's read guard blocks nothing it
\* needs), and no task waits for the session forever.
NobodyHangs ==
    /\ mw = "check" ~> mw \in {"done", "dropped"}
    /\ \A t \in Tasks : Waits(t) ~> ~ Waits(t)
================================================================================
