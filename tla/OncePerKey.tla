------------------------------- MODULE OncePerKey -------------------------------
(***************************************************************************)
(* What idempotency keys promise, without the store's protocol: a key is   *)
(* claimed by one request, whose handler has its effect at most once; its  *)
(* response becomes the outcome of the key and is what later requests are  *)
(* told.  A request whose service fails gives its claim up, whether or not *)
(* its handler had its effect: the next one has its own.  The promise ends *)
(* for a key that is forgotten: its entry ran out, or the store could not  *)
(* complete it.  Even then nobody is told anything but the response of a   *)
(* handler that ran for the key and did not fail.  Idempotency             *)
(* (middleware/idempotency.rs) is shown to implement this specification.   *)
(***************************************************************************)
CONSTANTS Requests,  \* the requests that reach the middleware
          Keys,      \* the idempotency keys
          KeyOf,     \* the key of each request, if it has one
          Nobody     \* "no request"

VARIABLES owner,     \* the request that claimed each key
          outcome,   \* the request whose response each key keeps
          effects,   \* the requests whose handler had its effect
          failed,    \* those of them whose service failed nevertheless
          told,      \* whose response each request was given
          forgotten  \* the keys that are no longer protected

vars == <<owner, outcome, effects, failed, told, forgotten>>

OfKey(k) == {r \in Requests : KeyOf[r] = k}

\* The effects whose response is somebody's to have.
Answers == effects \ failed

Init ==
    /\ owner = [k \in Keys |-> Nobody]
    /\ outcome = [k \in Keys |-> Nobody]
    /\ effects = {}
    /\ failed = {}
    /\ told = [r \in Requests |-> Nobody]
    /\ forgotten = {}

\* The handler of a request has its effect, once; its service fails, or does not.
HasEffect(r) ==
    /\ r \notin effects
    /\ effects' = effects \cup {r}
    /\ failed' \in {failed, failed \cup {r}}

\* A request without a key has its effect and, unless it is lost, its response.
Plain(r) ==
    /\ KeyOf[r] \notin Keys
    /\ HasEffect(r)
    /\ \/ UNCHANGED told
       \/ UNCHANGED failed /\ told' = [told EXCEPT ![r] = r]
    /\ UNCHANGED <<owner, outcome, forgotten>>

Claim(k, r) ==
    /\ KeyOf[r] = k /\ owner[k] = Nobody
    /\ owner' = [owner EXCEPT ![k] = r]
    /\ UNCHANGED <<outcome, effects, failed, told, forgotten>>

Effect(k, r) ==
    /\ owner[k] = r
    /\ HasEffect(r)
    /\ UNCHANGED <<owner, outcome, told, forgotten>>

\* The response is kept, and the owner told unless it has gone.
Keep(k, r) ==
    /\ owner[k] = r /\ r \in Answers /\ outcome[k] = Nobody
    /\ outcome' = [outcome EXCEPT ![k] = r]
    /\ told' \in {told, [told EXCEPT ![r] = r]}
    /\ UNCHANGED <<owner, effects, failed, forgotten>>

\* A claim is given up only by a request with no effect, or whose service failed.
GiveUp(k, r) ==
    /\ owner[k] = r /\ r \notin Answers
    /\ owner' = [owner EXCEPT ![k] = Nobody]
    /\ UNCHANGED <<outcome, effects, failed, told, forgotten>>

Replay(k, r) ==
    /\ KeyOf[r] = k /\ outcome[k] # Nobody
    /\ told' = [told EXCEPT ![r] = outcome[k]]
    /\ UNCHANGED <<owner, outcome, effects, failed, forgotten>>

\* The key is forgotten, or has been: of it nothing else is promised.
Disturbed(k) ==
    /\ forgotten' = forgotten \cup {k}
    /\ \E o \in Requests \cup {Nobody} : owner' = [owner EXCEPT ![k] = o]
    /\ \/ UNCHANGED <<effects, failed>>
       \/ \E r \in OfKey(k) : HasEffect(r)
    /\ \E q \in (Answers' \cap OfKey(k)) \cup {Nobody} :
         outcome' = [outcome EXCEPT ![k] = q]
    /\ \/ UNCHANGED told
       \/ \E r \in OfKey(k), q \in Answers' \cap OfKey(k) :
            told' = [told EXCEPT ![r] = q]

Next == \/ \E r \in Requests : Plain(r)
        \/ \E k \in Keys, r \in Requests :
             \/ Claim(k, r) \/ Effect(k, r) \/ Keep(k, r)
             \/ GiveUp(k, r) \/ Replay(k, r)
        \/ \E k \in Keys : Disturbed(k)

Spec == Init /\ [][Next]_vars
================================================================================
