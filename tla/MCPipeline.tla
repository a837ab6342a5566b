------------------------------ MODULE MCPipeline ------------------------------
(***************************************************************************)
(* Pipeline with every chain of at most three stages, the documented chain *)
(* in every order, and the two timers around the documented chain.  Roles  *)
(* have two bits; the table has two overlapping routes.                    *)
(***************************************************************************)
EXTENDS Pipeline, SequencesExt

CONSTANTS users, any, pUsers, pOther, GET, proxy, proxy2, c1, c2

MCRoutes == {users, any}
MCPaths == {pUsers, pOther}
MCMatches == [r \in MCRoutes |-> IF r = users THEN {pUsers} ELSE {pUsers, pOther}]
MCAddresses == {proxy, proxy2, c1, c2}
MCTrusted == {proxy, proxy2}

Arrangements(n) == {c \in [1..n -> Stages] : \A i, j \in 1..n : c[i] = c[j] => i = j}

Documented == {"RequestId", "ClientIp", "Auth", "ReadContext", "Permissions"}

MCChains ==
    {<< >>} \cup Arrangements(1) \cup Arrangements(2) \cup Arrangements(3)
    \cup SetToSeqs(Documented)
    \cup {<<"Timeout", "RequestId", "Auth", "Equalizer", "ReadContext", "Permissions">>,
          <<"RequestId", "Equalizer", "Auth", "Timeout", "ReadContext", "Permissions">>}

Entry(url, bit) == [method |-> GET, url |-> url, bit_id |-> bit]

\* No entry; overlapping routes in both orders; a duplicate; a bit out of range.
MCTables == {<< >>,
             <<Entry(users, 0), Entry(any, 1)>>, <<Entry(any, 1), Entry(users, 0)>>,
             <<Entry(users, 0), Entry(users, 1)>>, <<Entry(any, 2)>>}

Ask(token, role, path, peer, forwarded) ==
    [token |-> token, role |-> role, method |-> GET, path |-> path,
     peer |-> peer, forwarded |-> forwarded, query |-> "plain", wants |-> "nothing"]

Anyone(token) == Ask(token, {0, 1}, pUsers, proxy, << >>)

\* Lines of addresses, lines with a hop that is none, and a second line.
MCForwarded ==
    {<<line>> : line \in [1..1 -> {c1, proxy2}] \cup [1..2 -> {c1, proxy2}]}
    \cup {<<<<c2, c1>>>>, <<<<c2, NoAddress>>>>, <<<<c2, NoAddress, proxy2>>>>, <<<<NoAddress, proxy2>>>>,
          <<<<NoAddress>>>>, <<<<c2, NoText>>>>, <<<<c2>>, <<c1>>>>, <<<<proxy2>>, <<c1>>>>}

\* Requests that differ in what they may do, in where they come from, and in what
\* the handler asks of them.
MCRequests ==
    {Ask(t, role, p, c1, << >>) :
        t \in {"none", "good"}, role \in SUBSET {0, 1}, p \in MCPaths}
    \cup {Ask("good", {0, 1}, pUsers, proxy, f) : f \in MCForwarded}
    \cup {Ask("good", {0, 1}, pUsers, c1, <<<<c2>>>>),
          Ask("good", {0, 1}, pUsers, Unknown, <<<<c2>>>>),
          [Anyone("good") EXCEPT !.query = "malformed"],
          [Anyone("good") EXCEPT !.query = "malformed", !.wants = "Filters"],
          [Anyone("none") EXCEPT !.wants = "Claims"],
          [Ask("good", {0, 1}, pUsers, Unknown, << >>) EXCEPT !.wants = "ClientIp"]}
    \cup {[Anyone("good") EXCEPT !.wants = w] : w \in Extractors}
================================================================================
