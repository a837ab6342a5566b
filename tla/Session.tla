-------------------------------- MODULE Session --------------------------------
(***************************************************************************)
(* Cookie sessions: SessionMiddleware (middleware/session.rs) in its       *)
(* optional and required forms, RequiredSession (required_session.rs) and  *)
(* the Session handle handlers write through (extractors/session.rs), over *)
(* a shared external Store.                                                *)
(*                                                                         *)
(* A session value is the set of requests whose writes it holds, so an     *)
(* update that is lost shows.  A client presents no cookie, a broken one,  *)
(* or a session id.  Uuid::new_v4 yields an unused id.                     *)
(***************************************************************************)
EXTENDS FiniteSets

CONSTANTS Requests,    \* the requests that reach the middleware
          Ids,         \* session ids
          Stored,      \* the sessions in the store at the start
          ModeOf,      \* which middleware each request goes through
          NoId,
          StoreFails   \* TRUE when store calls may report an error

Modes == {"optional", "required", "required_session"}

ASSUME SessionAssumption ==
    /\ Stored \subseteq Ids
    /\ ModeOf \in [Requests -> Modes]
    /\ NoId \notin Ids
    /\ StoreFails \in BOOLEAN

VARIABLES present,  \* the Store: the sessions it holds
          store,    \* the Store: the value of each session it holds
          pc,       \* where the future of each request stands
          cookie,   \* what each request presented
          sid,      \* session_id
          fresh,    \* new_session
          data,     \* Session::data
          dirty,    \* Session::dirty
          reply,    \* what call() returned
          issued,   \* the session cookies that clients were sent
          base,     \* history: the saves each request's load included
          saved     \* history: the requests whose save took effect

local == <<cookie, sid, fresh, data, dirty, base>>
vars == <<present, store, pc, local, reply, issued, saved>>

Goto(r, p) == pc' = [pc EXCEPT ![r] = p]

Fail(r, status) == /\ reply' = [reply EXCEPT ![r] = status]
                   /\ Goto(r, "done")

\* Session::new(value), made dirty or not, under an id; the handler is called
\* or the store is asked first.
Begin(r, c, id, isNew, isDirty, next) ==
    /\ cookie' = [cookie EXCEPT ![r] = c]
    /\ sid' = [sid EXCEPT ![r] = id]
    /\ fresh' = [fresh EXCEPT ![r] = isNew]
    /\ dirty' = [dirty EXCEPT ![r] = isDirty]
    /\ Goto(r, next)
    /\ UNCHANGED <<present, store, data, reply, issued, base, saved>>

Unused == {i \in Ids \ present : \A r \in Requests : sid[r] # i}

Init ==
    /\ present = Stored
    /\ store = [i \in Ids |-> {}]
    /\ pc = [r \in Requests |-> "new"]
    /\ cookie = [r \in Requests |-> "none"]
    /\ sid = [r \in Requests |-> NoId]
    /\ fresh = [r \in Requests |-> FALSE]
    /\ data = [r \in Requests |-> {}]
    /\ dirty = [r \in Requests |-> FALSE]
    /\ reply = [r \in Requests |-> "none"]
    /\ issued = Stored
    /\ base = [r \in Requests |-> {}]
    /\ saved = {}

-------------------------------------------------------------------------------
\* Slip: the new session is not marked dirty.
NoCookie_Clean(r) ==
    /\ pc[r] = "new" /\ ModeOf[r] = "optional"
    /\ \E id \in Unused : Begin(r, "none", id, TRUE, FALSE, "handling")

\* No cookie: a new session that must be saved once.
NoCookie(r) ==
    /\ pc[r] = "new" /\ ModeOf[r] = "optional"
    /\ \E id \in Unused : Begin(r, "none", id, TRUE, TRUE, "handling")

\* A cookie that is not a Uuid: a new id, whose (absent) value is then loaded.
BrokenCookie(r) ==
    /\ pc[r] = "new" /\ ModeOf[r] = "optional"
    /\ \E id \in Unused : Begin(r, "broken", id, TRUE, FALSE, "loading")

\* A cookie that is a Uuid: one that was issued, or one the store never knew
\* (or has forgotten).
GoodCookie(r) ==
    /\ pc[r] = "new"
    /\ \E id \in issued \cup Unused : Begin(r, "id", id, FALSE, FALSE, "loading")

\* Both required forms reject a missing or broken cookie.
NoGoodCookie(r) ==
    /\ pc[r] = "new" /\ ModeOf[r] # "optional"
    /\ \E c \in {"none", "broken"} : cookie' = [cookie EXCEPT ![r] = c]
    /\ Fail(r, "unauthorized")
    /\ UNCHANGED <<present, store, sid, fresh, data, dirty, issued, base, saved>>

\* Slip: the value in the store is not taken over.
Load_Default(r) ==
    /\ pc[r] = "loading"
    /\ sid[r] \in present \/ ModeOf[r] # "required_session"
    /\ base' = [base EXCEPT ![r] = saved]
    /\ Goto(r, "handling")
    /\ UNCHANGED <<present, store, cookie, sid, fresh, data, dirty, reply, issued, saved>>

\* get returns: SessionMiddleware falls back to a default value.
Load(r) ==
    /\ pc[r] = "loading"
    /\ sid[r] \in present \/ ModeOf[r] # "required_session"
    /\ data' = [data EXCEPT ![r] = IF sid[r] \in present THEN store[sid[r]]
                                                          ELSE {}]
    /\ base' = [base EXCEPT ![r] = saved]
    /\ Goto(r, "handling")
    /\ UNCHANGED <<present, store, cookie, sid, fresh, dirty, reply, issued, saved>>

\* RequiredSession wants the session to exist.
LoadMissing(r) ==
    /\ pc[r] = "loading"
    /\ sid[r] \notin present /\ ModeOf[r] = "required_session"
    /\ Fail(r, "unauthorized")
    /\ UNCHANGED <<present, store, local, issued, saved>>

-------------------------------------------------------------------------------
\* The handler takes the write lock: dirty whether or not it then writes.
Write(r) ==
    /\ pc[r] = "handling"
    /\ dirty' = [dirty EXCEPT ![r] = TRUE]
    /\ \E w \in {{}, {r}} : data' = [data EXCEPT ![r] = @ \cup w]
    /\ UNCHANGED <<present, store, pc, cookie, sid, fresh, reply, issued, base, saved>>

\* Slip: a cookie goes with every response, whether or not there is an id for it.
Respond_NoId(r) ==
    /\ reply' = [reply EXCEPT ![r] = "ok"]
    /\ issued' = IF fresh[r] THEN issued \cup {sid[r]} ELSE issued \cup {NoId}
    /\ Goto(r, "done")

\* call() returns a response; a new session's cookie goes with it.
Respond(r) ==
    /\ reply' = [reply EXCEPT ![r] = "ok"]
    /\ issued' = IF fresh[r] THEN issued \cup {sid[r]} ELSE issued
    /\ Goto(r, "done")

ServiceOkClean(r) ==
    /\ pc[r] = "handling" /\ ~ dirty[r]
    /\ Respond(r)
    /\ UNCHANGED <<present, store, local, saved>>

ServiceOkDirty(r) ==
    /\ pc[r] = "handling" /\ dirty[r]
    /\ Goto(r, "saving")
    /\ UNCHANGED <<present, store, local, reply, issued, saved>>

\* An error of an inner middleware: nothing is saved and no cookie is sent.
ServiceErr(r) ==
    /\ pc[r] = "handling"
    /\ Fail(r, "error")
    /\ UNCHANGED <<present, store, local, issued, saved>>

StoreSet(r) ==
    /\ present' = present \cup {sid[r]}
    /\ store' = [store EXCEPT ![sid[r]] = data[r]]
    /\ saved' = saved \cup {r}

\* set replaces the whole value, whoever wrote it since the load.
Save(r) ==
    /\ pc[r] = "saving"
    /\ StoreSet(r)
    /\ dirty' = [dirty EXCEPT ![r] = FALSE]
    /\ Respond(r)
    /\ UNCHANGED <<cookie, sid, fresh, data, base>>

\* A store error ends the request with an error.
StoreError(r) ==
    /\ StoreFails
    /\ \/ pc[r] = "loading" /\ UNCHANGED <<present, store, saved>>
       \/ pc[r] = "saving" /\ (StoreSet(r) \/ UNCHANGED <<present, store, saved>>)
    /\ Fail(r, "error")
    /\ UNCHANGED <<local, issued>>

\* The future is dropped at an await; a set under way may have its effect.
Cancel(r) ==
    /\ pc[r] \in {"loading", "handling", "saving"}
    /\ \/ UNCHANGED <<present, store, saved>>
       \/ pc[r] = "saving" /\ StoreSet(r)
    /\ Goto(r, "dropped")
    /\ UNCHANGED <<local, reply, issued>>

Request(r) ==
    \/ NoCookie(r) \/ BrokenCookie(r) \/ GoodCookie(r) \/ NoGoodCookie(r)
    \/ Load(r) \/ LoadMissing(r) \/ Write(r)
    \/ ServiceOkClean(r) \/ ServiceOkDirty(r) \/ ServiceErr(r)
    \/ Save(r) \/ StoreError(r) \/ Cancel(r)

Finished == /\ \A r \in Requests : pc[r] \in {"done", "dropped"}
            /\ UNCHANGED vars

Next == (\E r \in Requests : Request(r)) \/ Finished

Spec == Init /\ [][Next]_vars

-------------------------------------------------------------------------------
(* Properties *)

\* Every variable keeps its type.
TypeOK ==
    /\ present \in SUBSET Ids
    /\ store \in [Ids -> SUBSET Requests]
    /\ pc \in [Requests ->
                 {"new", "loading", "handling", "saving", "done", "dropped"}]
    /\ cookie \in [Requests -> {"none", "broken", "id"}]
    /\ sid \in [Requests -> Ids \cup {NoId}]
    /\ fresh \in [Requests -> BOOLEAN]
    /\ data \in [Requests -> SUBSET Requests]
    /\ dirty \in [Requests -> BOOLEAN]
    /\ reply \in [Requests -> {"none", "ok", "error", "unauthorized"}]
    /\ issued \in SUBSET Ids
    /\ base \in [Requests -> SUBSET Requests]
    /\ saved \in SUBSET Requests

\* A write whose request was answered is still in the store, unless a request
\* that had loaded the session before that write was saved has saved it since.
LostUpdateNeedsOverlap ==
    \A r \in Requests :
        reply[r] = "ok" /\ r \in data[r] /\ r \notin store[sid[r]] =>
            \E q \in saved \ {r} : sid[q] = sid[r] /\ r \notin base[q]

\* Nobody is told of a session that is not in the store: neither a client, by a
\* cookie it is sent when it had none (the save comes before the cookie and its
\* failure withholds it), nor a handler behind RequiredSession.
SessionsToldOfAreStored ==
    \A r \in Requests :
        \/ reply[r] = "ok" /\ fresh[r] /\ cookie[r] = "none"
        \/ pc[r] \in {"handling", "saving"} /\ ModeOf[r] = "required_session"
        => sid[r] \in present

\* session.rs:165 and CHANGELOG.md:256: a new session is saved once, so the
\* cookie a client was sent is not turned down as unknown.
IssuedSessionIsKnown ==
    \A r \in Requests :
        reply[r] = "unauthorized" => ~ (cookie[r] = "id" /\ sid[r] \in issued)
================================================================================
