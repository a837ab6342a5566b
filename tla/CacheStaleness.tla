----------------------------- MODULE CacheStaleness -----------------------------
(***************************************************************************)
(* How old what Cache and MemoryCache hand out can be.  ResponseCache is   *)
(* run with three histories beside it, which take no part in what it does: *)
(* when each request's set began, whose entries had been stored when it    *)
(* missed, and whose responses were over when the application deleted      *)
(* their key or cleared the store.                                         *)
(***************************************************************************)
EXTENDS ResponseCache

VARIABLES setAt,    \* history: when each request's set computed its expiry
          stored,   \* history: the requests that have stored an entry
          before,   \* history: those that had when each request missed
          outdated  \* history: requests that were over when their key was deleted

staleVars == <<setAt, stored, before, outdated>>

SInit ==
    /\ Init
    /\ setAt = [r \in Requests |-> 0]
    /\ stored = {}
    /\ before = [r \in Requests |-> {}]
    /\ outdated = {}

Over(k) == {r \in Requests : KeyOf[r] = k /\ pc[r] \in {"done", "dropped"}}

Rivals(r) == {q \in Requests : KeyOf[q] = KeyOf[r]}

Watch(r) ==
    /\ \/ Miss(r) /\ before' = [before EXCEPT ![r] = stored \cap Rivals(r)]
       \/ Stage(r) /\ UNCHANGED before
    /\ setAt' = [setAt EXCEPT ![r] = IF setting[r] = "idle" /\ setting'[r] # "idle"
                                     THEN clock ELSE @]
    /\ stored' = IF setting[r] = "inserting" /\ entries' # entries
                 THEN stored \cup {r} ELSE stored
    /\ UNCHANGED outdated

SNext ==
    \/ \E r \in Requests : Watch(r)
    \/ \E k \in Keys : /\ AppDeletes(k)
                       /\ outdated' = outdated \cup Over(k)
                       /\ UNCHANGED <<setAt, stored, before>>
    \/ /\ AppClears
       /\ outdated' = outdated \cup (IF clearing THEN {} ELSE UNION {Over(k) : k \in Keys})
       /\ UNCHANGED <<setAt, stored, before>>
    \/ (TimePasses \/ Finished) /\ UNCHANGED staleVars

SSpec == SInit /\ [][SNext]_<<vars, staleVars>>

-------------------------------------------------------------------------------
(* Properties *)

\* A response is replayed only to a request of the same key, and only one that
\* may be cached, whose body was read to its end and whose set began less than a
\* lifetime ago, however long the set then waited before it inserted the entry.
HitsAreWholeAndFresh ==
    [][\A r \in Requests : pc[r] = "new" /\ reply'[r].kind = "hit" =>
        LET q == reply'[r].of IN
        /\ q \in kept \ {r}
        /\ KeyOf[q] = KeyOf[r]
        /\ clock < setAt[q] + Ttl]_<<vars, staleVars>>

\* What the application deletes comes back only through a request that was under
\* way at that moment: no earlier response is in the cache again.
DeletedComesBackOnlyInFlight ==
    \A k \in Held : entries[k].by \notin outdated

\* An entry that can be read is replaced only by a request that had missed before
\* the entry was stored, or whose get failed: a slow GET may put an older response
\* over a newer one, one that came later and could look may not.
ReplacedOnlyByOverlap ==
    [][\A k \in Readable, r \in Requests :
        entries'[k] # Absent /\ entries'[k].by = r /\ entries[k].by # r =>
            entries[k].by \notin before[r]]_<<vars, staleVars>>
================================================================================
