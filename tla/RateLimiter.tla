------------------------------ MODULE RateLimiter ------------------------------
(***************************************************************************)
(* The sliding-window limiter of middleware/rate_limiter.rs over a Store   *)
(* (locals/store.rs), which is external: get hands out a copy, set         *)
(* replaces the value, each atomically, and a reported failure of set may  *)
(* come before or after its effect.  A request reads the clock, then       *)
(* awaits get, then awaits set: other requests act in between.             *)
(***************************************************************************)
EXTENDS Integers, Sequences, FiniteSets

CONSTANTS Requests,     \* the requests that reach the middleware
          Ids,          \* the identities
          IdOf,         \* the identity of each request, NoId when none
          NoId,
          MaxRequests,  \* max_requests
          Window,       \* window, in ticks of the clock
          StoreFails,   \* TRUE when store calls may report an error
          MaxTime       \* bound on the clock

ASSUME LimiterAssumption ==
    /\ IdOf \in [Requests -> Ids \cup {NoId}]
    /\ NoId \notin Ids
    /\ MaxRequests \in Nat
    /\ Window \in Nat
    /\ StoreFails \in BOOLEAN
    /\ MaxTime \in Nat

VARIABLES clock,    \* Instant::now()
          log,      \* the store: the request times of each identity
          pc,       \* where the future of each request stands
          now,      \* now, local to each request
          entry,    \* entry, local to each request
          verdict,  \* what became of each request
          seen,     \* history: the requests recorded when each read the clock
          recorded  \* history: the requests whose set took effect

vars == <<clock, log, pc, now, entry, verdict, seen, recorded>>

Goto(r, p) == pc' = [pc EXCEPT ![r] = p]

Conclude(r, v) == /\ verdict' = [verdict EXCEPT ![r] = v]
                  /\ Goto(r, "done")

\* Slip: the boundary of the window is left out.
Outside_Strict(t, n) == n - t >= Window

\* now.duration_since(t) > window; duration_since is 0 for a later t.
Outside(t, n) == n - t > Window

\* Slip: nothing is popped.
Purge_Nothing(s, n) == s

\* entry without the timestamps that the loop pops off its front.
Purge(s, n) ==
    LET live == {i \in DOMAIN s : ~ Outside(s[i], n)} IN
    IF live = {} THEN << >>
    ELSE SubSeq(s, CHOOSE i \in live : \A j \in live : i <= j, Len(s))

Init ==
    /\ clock = 0
    /\ log = [i \in Ids |-> << >>]
    /\ pc = [r \in Requests |-> "new"]
    /\ now = [r \in Requests |-> 0]
    /\ entry = [r \in Requests |-> << >>]
    /\ verdict = [r \in Requests |-> "none"]
    /\ seen = [r \in Requests |-> {}]
    /\ recorded = {}

Tick ==
    /\ clock < MaxTime
    /\ clock' = clock + 1
    /\ UNCHANGED <<log, pc, now, entry, verdict, seen, recorded>>

\* The extractor fails: the request is not limited.
NoIdentity(r) ==
    /\ pc[r] = "new" /\ IdOf[r] = NoId
    /\ verdict' = [verdict EXCEPT ![r] = "unlimited"]
    /\ Goto(r, "serving")
    /\ UNCHANGED <<clock, log, now, entry, seen, recorded>>

\* The clock is read before the store is asked.
Identify(r) ==
    /\ pc[r] = "new" /\ IdOf[r] # NoId
    /\ now' = [now EXCEPT ![r] = clock]
    /\ seen' = [seen EXCEPT ![r] = recorded]
    /\ Goto(r, "getting")
    /\ UNCHANGED <<clock, log, entry, verdict, recorded>>

\* get returns: purge, then reject ...
Reject(r) ==
    /\ pc[r] = "getting"
    /\ Len(Purge(log[IdOf[r]], now[r])) >= MaxRequests
    /\ Conclude(r, "rejected")
    /\ UNCHANGED <<clock, log, now, entry, seen, recorded>>

\* Slip: > in the place of >=.
Accept_OneMore(r) ==
    /\ pc[r] = "getting"
    /\ Len(Purge(log[IdOf[r]], now[r])) <= MaxRequests
    /\ entry' = [entry EXCEPT ![r] = Append(Purge(log[IdOf[r]], now[r]), now[r])]
    /\ Goto(r, "setting")
    /\ UNCHANGED <<clock, log, now, verdict, seen, recorded>>

\* ... or add this request and ask the store to keep the new value.
Accept(r) ==
    /\ pc[r] = "getting"
    /\ Len(Purge(log[IdOf[r]], now[r])) < MaxRequests
    /\ entry' = [entry EXCEPT ![r] = Append(Purge(log[IdOf[r]], now[r]), now[r])]
    /\ Goto(r, "setting")
    /\ UNCHANGED <<clock, log, now, verdict, seen, recorded>>

StoreSet(r) ==
    /\ log' = [log EXCEPT ![IdOf[r]] = entry[r]]
    /\ recorded' = recorded \cup {r}

\* set replaces the value with the one computed from the earlier get, which
\* moves into the call.
Record(r) ==
    /\ pc[r] = "setting"
    /\ StoreSet(r)
    /\ entry' = [entry EXCEPT ![r] = << >>]
    /\ verdict' = [verdict EXCEPT ![r] = "admitted"]
    /\ Goto(r, "serving")
    /\ UNCHANGED <<clock, now, seen>>

\* A store error ends the request with an error.
StoreError(r) ==
    /\ StoreFails
    /\ \/ pc[r] = "getting" /\ UNCHANGED <<log, recorded>>
       \/ pc[r] = "setting" /\ (StoreSet(r) \/ UNCHANGED <<log, recorded>>)
    /\ Conclude(r, "error")
    /\ UNCHANGED <<clock, now, entry, seen>>

Serve(r) ==
    /\ pc[r] = "serving"
    /\ Goto(r, "done")
    /\ UNCHANGED <<clock, log, now, entry, verdict, seen, recorded>>

\* The future is dropped at an await; a set under way may have its effect.
Cancel(r) ==
    /\ pc[r] \in {"getting", "setting", "serving"}
    /\ \/ UNCHANGED <<log, recorded>>
       \/ pc[r] = "setting" /\ StoreSet(r)
    /\ Goto(r, "dropped")
    /\ UNCHANGED <<clock, now, entry, verdict, seen>>

Request(r) ==
    \/ NoIdentity(r) \/ Identify(r) \/ Reject(r) \/ Accept(r) \/ Record(r)
    \/ StoreError(r) \/ Serve(r) \/ Cancel(r)

Finished == /\ \A r \in Requests : pc[r] \in {"done", "dropped"}
            /\ clock = MaxTime
            /\ UNCHANGED vars

Next == Tick \/ (\E r \in Requests : Request(r)) \/ Finished

Spec == Init /\ [][Next]_vars

-------------------------------------------------------------------------------
(* Properties *)

\* Every variable keeps its type; however requests overlap, the log of an identity
\* never outgrows max_requests.
TypeOK ==
    /\ clock \in 0..MaxTime
    /\ log \in [Ids -> Seq(0..MaxTime)]
    /\ \A i \in Ids : Len(log[i]) <= MaxRequests
    /\ pc \in [Requests ->
                 {"new", "getting", "setting", "serving", "done", "dropped"}]
    /\ now \in [Requests -> 0..MaxTime]
    /\ entry \in [Requests -> Seq(0..MaxTime)]
    /\ verdict \in [Requests -> {"none", "unlimited", "admitted", "rejected", "error"}]
    /\ seen \in [Requests -> SUBSET Requests]
    /\ recorded \in SUBSET Requests

Admitted(i) == {r \in Requests : IdOf[r] = i /\ verdict[r] = "admitted"}
Recorded(i) == {r \in recorded : IdOf[r] = i}

\* Two recorded requests of i both read the clock before the other was recorded.
Overlap(i) ==
    \E r, q \in Recorded(i) : r # q /\ r \notin seen[q] /\ q \notin seen[r]

\* At most max_requests of an identity are admitted within a window, the limit of
\* rate_limiter.rs:100, as long as no two requests of the identity overlap: store
\* errors, cancellations and requests admitted and recorded at any time before
\* do not let one more through.
OverrunNeedsOverlap ==
    \A i \in Ids, t \in 0..MaxTime :
        \/ Cardinality({r \in Admitted(i) : now[r] \in t..(t + Window)}) <= MaxRequests
        \/ Overlap(i)

\* The recorded requests that count against r.
Counting(r) == {q \in Recorded(IdOf[r]) : ~ Outside(now[q], now[r])}

\* A request is rejected only with max_requests recorded ones inside the window,
\* unless requests of the identity overlapped and left the log out of order, so
\* that the lazy pruning stopped too early.
RejectionIsDue ==
    [][\A r \in Requests : Reject(r) =>
            \/ Cardinality(Counting(r)) >= MaxRequests
            \/ Overlap(IdOf[r])]_vars

\* However requests overlap, an identity that has been quiet for a window is let
\* in: a rejection needs at least one recorded request inside the window.
QuietIdentityIsAdmitted ==
    [][\A r \in Requests : MaxRequests > 0 /\ Reject(r) => Counting(r) # {}]_vars
================================================================================
