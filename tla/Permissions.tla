------------------------------ MODULE Permissions ------------------------------
(***************************************************************************)
(* The decisions that involve no other component: the permission table of  *)
(* middleware/permission, the permission bit of middleware/fns.rs and the  *)
(* client address of middleware/client_ip.rs.  A role is the set of its    *)
(* bits; a route is modelled by the set of paths its ResourceDef matches.  *)
(***************************************************************************)
EXTENDS Integers, Sequences

CONSTANTS Routes,    \* route patterns
          Paths,     \* request paths
          Matches,   \* ResourceDef::is_match: the paths of each pattern
          Methods,   \* HTTP methods
          Width,     \* the bits of a role: 128
          Addresses, \* IP addresses
          Trusted,   \* the addresses of trusted_proxies
          NoAddress, \* a hop that does not parse as an IpAddr ("host:port", "unknown")
          NoText,    \* a hop with bytes that HeaderValue::to_str refuses
          Unknown    \* None

ASSUME PermissionsAssumption ==
    /\ Matches \in [Routes -> SUBSET Paths]
    /\ Width \in Nat \ {0}
    /\ Trusted \subseteq Addresses
    /\ {Unknown, NoAddress, NoText} \cap Addresses = {}
    /\ NoAddress # NoText

\* What a configuration file or a caller may hand over: bit ids have 64 bits.
RawEntries == [method : Methods, url : Routes, bit_id : Nat]

\* from_deserialized and PermissionSet::new: every bit in range, and no (method,
\* route) twice; a table that is not so is refused.
Accepted(table) ==
    /\ \A i \in DOMAIN table : table[i].bit_id < Width
    /\ \A i, j \in DOMAIN table :
         table[i].method = table[j].method /\ table[i].url = table[j].url => i = j

Applies(entry, method, path) == entry.method = method /\ path \in Matches[entry.url]

FirstOf(places) == CHOOSE i \in places : \A j \in places : i <= j
LastOf(places) == CHOOSE i \in places : \A j \in places : j <= i

\* The first entry that matches, 0 when there is none.
Find(table, method, path) ==
    LET found == {i \in DOMAIN table : Applies(table[i], method, path)} IN
    IF found = {} THEN 0 ELSE FirstOf(found)

\* authority(perm_id): the shift wraps in a build without overflow checks.
AuthorityAllows(role, perm_id) == perm_id % Width \in role

\* X-Forwarded-For as it is received: the header lines of that name, each with its
\* hops, the one added last at the end of its line.
Hops == Addresses \cup {NoAddress, NoText}
Forwarded == Seq(Seq(Hops))

\* headers().get: the first line, and no other.
LineRead(forwarded) == IF forwarded = << >> THEN << >> ELSE forwarded[1]

\* Where the line names an address: a line that is not text names none, a hop that
\* does not parse is left out.
Named(line) ==
    IF \E i \in DOMAIN line : line[i] = NoText
    THEN {}
    ELSE {i \in DOMAIN line : line[i] \in Addresses}

\* The walk over the addresses named starts with the last and stops at the first
\* that is not trusted.
ForwardedClient(forwarded) ==
    LET line == LineRead(forwarded)
        untrusted == {i \in Named(line) : line[i] \notin Trusted}
    IN  IF untrusted # {} THEN line[LastOf(untrusted)]
        ELSE IF Named(line) # {} THEN line[FirstOf(Named(line))]
        ELSE Unknown

\* Slip: the walk starts with the address the client wrote.
ClientOf_FirstHop(peer, forwarded) ==
    LET line == LineRead(forwarded) IN
    IF peer \in Trusted /\ Named(line) # {} THEN line[FirstOf(Named(line))] ELSE peer

\* ClientIpMiddleware: the header counts only when a trusted proxy sent it.
ClientOf(peer, forwarded) ==
    IF peer \in Trusted /\ ForwardedClient(forwarded) # Unknown
    THEN ForwardedClient(forwarded)
    ELSE peer
================================================================================
