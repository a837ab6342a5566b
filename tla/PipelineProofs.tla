----------------------------- MODULE PipelineProofs -----------------------------
(***************************************************************************)
(* Safety of the request pipeline, for chains of any length with their     *)
(* stages in any order, any tables, requests, proxies and durations.       *)
(* Two more specifications stand behind it, that of its tokens and that of *)
(* its task-locals, with variables of their own: theirs follow.            *)
(***************************************************************************)
EXTENDS Pipeline, Tokens, TaskLocals, FiniteSetTheorems, TLAPS

(* Where a stage stands, without CHOOSE. *)

Passed(s) == \E i \in DOMAIN chain : chain[i] = s /\ i < at
Within(s, t) == \E i, j \in DOMAIN chain : chain[i] = s /\ chain[j] = t /\ i < j

(* The inductive invariant *)

\* Where the request is while it moves in which direction.
PlaceOK ==
    /\ moving \in {"in", "sleeping"} => at >= 1
    /\ moving # "in" => at <= Len(chain)
    /\ moving = "over" => at = 0
    /\ moving = "sleeping" => chain[at] = "Equalizer"
    /\ handler = "running" => moving = "in" /\ at = Handler
    /\ moving = "in" => handler \in {"waiting", "running"}
    /\ attached \in {"Claims", "ClientIp"} /\ perm_id \in Nat

\* On the way in the extensions hold what the stages passed leave there.
CarriedOK ==
    moving = "in" =>
        /\ "Claims" \in extensions <=> Passed("Auth")
        /\ "RequestIdStr" \in extensions <=> Passed("RequestId")
        /\ "ClientIp" \in extensions <=> Passed("ClientIp") /\ request.peer # Unknown
        /\ "Filters" \in extensions <=> Passed("PathParams")
        /\ "Counted" \in extensions <=>
             Passed("RateLimiter") /\ Within("ClientIp", "RateLimiter")
                /\ request.peer # Unknown

\* On the way in the request satisfies every guard it has passed.
AdmittedOK ==
    moving = "in" =>
        /\ Passed("Auth") => Authenticated
        /\ Passed("Permissions") => Granted /\ Authenticated /\ Within("Auth", "Permissions")
        /\ Passed("Identity") => Authenticated
        /\ Passed("Authority") => Authenticated /\ perm_id % Width \in request.role
        /\ Passed("ReadContext") =>
             Authenticated /\ Within("RequestId", "ReadContext")
                           /\ Within("Auth", "ReadContext")

\* In the documented order a legitimate request is on its way out only when it was
\* served, the deadline fired, or the limiter refused it.
ServedOK ==
    InDocumentedOrder /\ Legitimate /\ moving # "in" =>
        \/ outcome.status = 200
        \/ /\ outcome.status = 504
           /\ handler = "finished" => Before("Timeout", "Equalizer")
        \/ Limited

\* A response on its way out is tagged and padded by the stages it has left.
LeftOK ==
    outcome.kind = "ok" /\ moving # "in" =>
        \A i \in DOMAIN chain : at < i /\ i < outcome.made =>
            /\ chain[i] = "RequestId" => tagged
            /\ chain[i] = "Equalizer" => clock >= entered["Equalizer"] + MinDuration

\* The client is the one the header and the peer determine.
ClientOK ==
    client # Unknown =>
        request.peer # Unknown /\ client = ClientOf(request.peer, request.forwarded)

PInv ==
    /\ TypeOK /\ PlaceOK /\ CarriedOK /\ AdmittedOK /\ HandlerIsGuarded
    /\ ServedOK /\ LeftOK /\ ClientOK

-------------------------------------------------------------------------------
(* The decisions: Find and ClientOf *)

\* A set of naturals has a least element: the intervals up to its elements are
\* finite, and inclusion is well founded on finite sets.
LEMMA LeastOf ==
    ASSUME NEW T \in SUBSET Nat, T # {}
    PROVE  \E m \in T : \A n \in T : m <= n
<1> DEFINE Upto == {0..n : n \in T}
<1>0. \A n \in T : 0..n \in FiniteSubsetsOf(Nat)
  <2> TAKE n \in T
  <2>1. IsFiniteSet(0..n)
      BY FS_Interval
  <2> QED
      BY <2>1 DEF FiniteSubsetsOf
<1>1. Upto \subseteq FiniteSubsetsOf(Nat) /\ Upto # {}
    BY <1>0
<1> HIDE DEF Upto
<1>2. PICK small \in Upto : \A b \in Upto : <<b, small>> \notin StrictSubsetOrdering(Nat)
    BY <1>1, FS_StrictSubsetOrderingWellFounded, WFMin
<1>3. PICK m \in T : small = 0..m
    BY DEF Upto
<1>4. ASSUME NEW n \in T, n < m PROVE FALSE
  <2>1. 0..n \in Upto
      BY DEF Upto
  <2>2. 0..n \subseteq 0..m /\ 0..n # 0..m /\ 0..n \in SUBSET Nat /\ 0..m \in SUBSET Nat
      BY <1>4
  <2>3. <<0..n, small>> \in StrictSubsetOrdering(Nat)
      BY <1>3, <2>2 DEF StrictSubsetOrdering
  <2> QED
      BY <1>2, <2>1, <2>3
<1> QED
    BY <1>4

\* A bounded set of naturals has a greatest element.
LEMMA GreatestOf ==
    ASSUME NEW L \in Nat, NEW T \in SUBSET (1..L), T # {}
    PROVE  \E m \in T : \A n \in T : n <= m
<1> DEFINE Gaps == {L - n : n \in T}
<1>1. Gaps \in SUBSET Nat /\ Gaps # {}
  <2>1. \A n \in T : n \in 1..L
      OBVIOUS
  <2>2. \A n \in 1..L : L - n \in Nat
      OBVIOUS
  <2>3. \A n \in T : L - n \in Nat
      BY <2>1, <2>2, Zenon
  <2> QED
      BY <2>3, Zenon
<1>2. PICK d \in Gaps : \A e \in Gaps : d <= e
    BY <1>1, LeastOf
<1>3. PICK m \in T : d = L - m
    OBVIOUS
<1>4. ASSUME NEW n \in T PROVE n <= m
  <2>1. L - n \in Gaps
      OBVIOUS
  <2>2. L - m <= L - n
      BY <1>2, <1>3, <2>1
  <2>3. m \in 1..L /\ n \in 1..L
      OBVIOUS
  <2> HIDE DEF Gaps
  <2> QED
      BY <2>2, <2>3
<1> QED
    BY <1>4

\* Find returns the first entry that applies, and 0 only when none does.
LEMMA FindIsFirst ==
    ASSUME NEW t \in Seq(RawEntries), NEW method, NEW path,
           NEW i, i = Find(t, method, path)
    PROVE  \/ i = 0 /\ \A j \in DOMAIN t : ~ Applies(t[j], method, path)
           \/ /\ i \in DOMAIN t /\ i # 0
              /\ Applies(t[i], method, path)
              /\ \A j \in 1..(i - 1) : ~ Applies(t[j], method, path)
<1> DEFINE found == {j \in DOMAIN t : Applies(t[j], method, path)}
<1>0. DOMAIN t = 1..Len(t) /\ Len(t) \in Nat
    OBVIOUS
<1>1. i = IF found = {} THEN 0 ELSE FirstOf(found)
    BY DEF Find
<1>2. CASE found = {}
    BY <1>1, <1>2
<1>3. CASE found # {}
  <2>1. found \in SUBSET Nat
      BY <1>0
  <2>2. \E m \in found : \A n \in found : m <= n
      BY <1>3, <2>1, LeastOf
  <2>3. i \in found /\ \A n \in found : i <= n
      BY <1>1, <1>3, <2>2 DEF FirstOf
  <2>4. \A j \in 1..(i - 1) : j \notin found /\ j \in DOMAIN t
      BY <1>0, <2>3
  <2>5. i \in DOMAIN t /\ i # 0 /\ Applies(t[i], method, path)
      BY <1>0, <2>3
  <2> QED
      BY <2>4, <2>5
<1> QED
    BY <1>2, <1>3

\* The walk over a line ends at the last address named that is not trusted, or,
\* when all are, at the first; when the line names none it has no client.
LEMMA WalkEnds ==
    ASSUME NEW f, NEW line \in Seq(Hops), line = LineRead(f)
    PROVE  \/ /\ ForwardedClient(f) = Unknown
              /\ Named(line) = {}
           \/ /\ ForwardedClient(f) \in Addresses
              /\ \E i \in Named(line) :
                   /\ line[i] = ForwardedClient(f)
                   /\ \A j \in Named(line) : j > i => line[j] \in Trusted
                   /\ line[i] \in Trusted => \A j \in Named(line) : line[j] \in Trusted /\ i <= j
<1> DEFINE named == Named(line)
           untrusted == {i \in named : line[i] \notin Trusted}
<1>0. DOMAIN line = 1..Len(line) /\ Len(line) \in Nat
    OBVIOUS
<1>1. named \in SUBSET (1..Len(line)) /\ \A i \in named : line[i] \in Addresses
    BY <1>0 DEF Named
<1>2. ForwardedClient(f) = IF untrusted # {} THEN line[LastOf(untrusted)]
                           ELSE IF named # {} THEN line[FirstOf(named)] ELSE Unknown
    BY DEF ForwardedClient
<1> HIDE DEF named
<1>3. CASE untrusted # {}
  <2>1. PICK last \in untrusted : \A n \in untrusted : n <= last
      BY <1>0, <1>1, <1>3, GreatestOf
  <2> DEFINE end == LastOf(untrusted)
  <2>2. end \in untrusted /\ \A n \in untrusted : n <= end
      BY <2>1 DEF LastOf
  <2>3. ForwardedClient(f) = line[end]
      BY <1>2, <1>3
  <2> HIDE DEF end
  <2>4. end \in named /\ line[end] \notin Trusted
      BY <2>2
  <2>5. \A j \in named : j > end => j \notin untrusted
      BY <1>0, <1>1, <2>2, <2>4
  <2>6. \A j \in named : j > end => line[j] \in Trusted
      BY <2>5
  <2> QED
      BY <1>1, <2>3, <2>4, <2>6 DEF named
<1>4. CASE untrusted = {} /\ named # {}
  <2>1. PICK least \in named : \A n \in named : least <= n
      BY <1>0, <1>1, <1>4, LeastOf
  <2> DEFINE end == FirstOf(named)
  <2>2. end \in named /\ \A n \in named : end <= n
      BY <2>1 DEF FirstOf
  <2>3. ForwardedClient(f) = line[end]
      BY <1>2, <1>4
  <2> HIDE DEF end
  <2>4. \A j \in named : line[j] \in Trusted
      BY <1>4
  <2> QED
      BY <1>1, <2>2, <2>3, <2>4 DEF named
<1>5. CASE untrusted = {} /\ named = {}
    BY <1>2, <1>5 DEF named
<1> QED
    BY <1>3, <1>4, <1>5

\* The line that is read is a sequence of hops.
LEMMA LineType ==
    ASSUME NEW f \in Forwarded
    PROVE  LineRead(f) \in Seq(Hops)
<1>1. CASE f = << >>
    BY <1>1 DEF LineRead
<1>2. CASE f # << >>
    BY <1>2 DEF LineRead, Forwarded
<1> QED
    BY <1>1, <1>2

\* How an address is reached from the peer p over a line.
ReachedOver(c, p, line) ==
    LET Passable == Trusted \cup {NoAddress}
        text == \A i \in DOMAIN line : line[i] # NoText
    IN  \/ /\ c = p
           /\ c \in Trusted /\ text => \A i \in DOMAIN line : line[i] \in Passable
        \/ /\ p \in Trusted /\ text
           /\ \E i \in DOMAIN line :
                /\ line[i] = c
                /\ \A j \in DOMAIN line : j > i => line[j] \in Passable
                /\ c \in Trusted => \A j \in DOMAIN line : j < i => line[j] = NoAddress

\* What ClientIpMiddleware resolves is an address, and reached by trust.
LEMMA ClientOfIsTrusted ==
    ASSUME NEW p \in Addresses, NEW f \in Forwarded
    PROVE  ClientOf(p, f) \in Addresses /\ ReachedOver(ClientOf(p, f), p, LineRead(f))
<1>0. PICK line \in Seq(Hops) : line = LineRead(f)
    BY LineType
<1>1. DOMAIN line = 1..Len(line) /\ \A i \in DOMAIN line : line[i] \in Hops
    OBVIOUS
<1>2. ASSUME \A i \in DOMAIN line : line[i] # NoText
      PROVE  \A i \in DOMAIN line : i \notin Named(line) <=> line[i] = NoAddress
    BY <1>1, <1>2, PermissionsAssumption DEF Named, Hops
<1>3. \A i \in Named(line) : i \in DOMAIN line /\ line[i] \in Addresses
    BY DEF Named
<1>4. CASE p \in Trusted /\ ForwardedClient(f) # Unknown
  <2>1. ClientOf(p, f) = ForwardedClient(f)
      BY <1>4 DEF ClientOf
  <2>2. PICK i \in Named(line) :
             /\ ForwardedClient(f) \in Addresses /\ line[i] = ForwardedClient(f)
             /\ \A j \in Named(line) : j > i => line[j] \in Trusted
             /\ line[i] \in Trusted => \A j \in Named(line) : line[j] \in Trusted /\ i <= j
      BY <1>0, <1>4, WalkEnds
  <2>3. \A j \in DOMAIN line : line[j] # NoText
      BY <2>2 DEF Named
  <2>4. \A j \in DOMAIN line : j > i => line[j] \in Trusted \cup {NoAddress}
      BY <1>2, <2>2, <2>3
  <2>5. ASSUME line[i] \in Trusted, NEW j \in DOMAIN line, j < i PROVE line[j] = NoAddress
    <3>1. i \in Int /\ j \in Int
        BY <1>1, <1>3, <2>2
    <3>2. ~ (i <= j)
        BY <2>5, <3>1
    <3>3. j \notin Named(line)
        BY <2>2, <2>5, <3>2
    <3> QED
        BY <1>2, <2>3, <3>3
  <2>6. i \in DOMAIN line
      BY <1>3, <2>2
  <2> QED
      BY <1>0, <1>4, <2>1, <2>2, <2>3, <2>4, <2>5, <2>6 DEF ReachedOver
<1>5. CASE p \notin Trusted
    BY <1>5 DEF ClientOf, ReachedOver
<1>6. CASE p \in Trusted /\ ForwardedClient(f) = Unknown
  <2>1. ClientOf(p, f) = p
      BY <1>6 DEF ClientOf
  <2>2. Named(line) = {}
      BY <1>0, <1>6, WalkEnds, PermissionsAssumption
  <2>3. ASSUME \A i \in DOMAIN line : line[i] # NoText
        PROVE  \A i \in DOMAIN line : line[i] \in Trusted \cup {NoAddress}
      BY <1>2, <2>2, <2>3
  <2> QED
      BY <1>0, <2>1, <2>3 DEF ReachedOver
<1> QED
    BY <1>4, <1>5, <1>6

-------------------------------------------------------------------------------
(* Where the stages stand *)

\* A chain is a finite sequence with each stage at most once.
LEMMA ChainType ==
    ASSUME TypeOK
    PROVE  /\ chain \in Seq(Stages) /\ Len(chain) \in Nat /\ DOMAIN chain = 1..Len(chain)
           /\ Handler \in Nat /\ at \in Nat
           /\ \A i, j \in DOMAIN chain : chain[i] = chain[j] => i = j
<1>1. chain \in Seq(Stages) /\ \A i, j \in DOMAIN chain : chain[i] = chain[j] => i = j
    BY PipelineAssumption DEF TypeOK
<1>2. Len(chain) \in Nat /\ DOMAIN chain = 1..Len(chain)
    BY <1>1
<1> QED
    BY <1>1, <1>2 DEF TypeOK, Handler

\* The request and the table are what they were said to be.
LEMMA ConfigType ==
    ASSUME TypeOK
    PROVE  /\ request \in RequestTypes /\ request.peer \in Addresses \cup {Unknown}
           /\ request.forwarded \in Forwarded /\ table \in Seq(RawEntries)
           /\ request.token \in {"none", "good"}
           /\ request.wants \in Extractors \cup {"nothing"}
<1>1. request \in RequestTypes /\ table \in Seq(RawEntries)
  <2>1. << >> \in Seq(RawEntries)
      OBVIOUS
  <2>2. Requests \subseteq RequestTypes /\ Tables \subseteq Seq(RawEntries)
      BY PipelineAssumption, Zenon
  <2>3. request \in Requests /\ table \in Tables \cup {<< >>}
      BY DEF TypeOK
  <2> QED
      BY <2>1, <2>2, <2>3, Zenon
<1> QED
    BY <1>1 DEF RequestTypes

\* Place finds the stage, and Before compares places.
LEMMA PlaceFinds ==
    ASSUME NEW s, Has(s)
    PROVE  Place(s) \in DOMAIN chain /\ chain[Place(s)] = s
BY DEF Has, Place

LEMMA BeforeIsWithin ==
    ASSUME TypeOK, NEW s, NEW t
    PROVE  Before(s, t) <=> Within(s, t)
<1>1. ASSUME Before(s, t) PROVE Within(s, t)
  <2>1. Has(s) /\ Has(t) /\ Place(s) < Place(t)
      BY <1>1 DEF Before
  <2> QED
      BY <2>1, PlaceFinds DEF Within
<1>2. ASSUME Within(s, t) PROVE Before(s, t)
  <2>1. PICK i \in DOMAIN chain, j \in DOMAIN chain : chain[i] = s /\ chain[j] = t /\ i < j
      BY <1>2 DEF Within
  <2>2. Has(s) /\ Has(t)
      BY <2>1 DEF Has
  <2>3. Place(s) = i /\ Place(t) = j
      BY <2>1, <2>2, PlaceFinds, ChainType
  <2> QED
      BY <2>1, <2>2, <2>3 DEF Before
<1> QED
    BY <1>1, <1>2

\* At the handler every stage has been passed.
LEMMA AllPassed ==
    ASSUME TypeOK, at = Handler, NEW s
    PROVE  Passed(s) <=> Has(s)
<1>1. \A i \in DOMAIN chain : i < at
    BY ChainType DEF Handler
<1> QED
    BY <1>1 DEF Passed, Has

\* A stage that is entered has not been passed; it has passed what is outside it.
LEMMA EnteringIsNew ==
    ASSUME TypeOK, PlaceOK, NEW s, Entering(s)
    PROVE  /\ at \in DOMAIN chain /\ chain[at] = s /\ Has(s) /\ ~ Passed(s)
           /\ \A t : Within(t, s) <=> Passed(t)
<1>1. at \in DOMAIN chain /\ chain[at] = s
    BY ChainType DEF Entering, PlaceOK
<1>2. \A i \in DOMAIN chain : chain[i] = s => i = at
    BY <1>1, ChainType
<1>3. Has(s) /\ ~ Passed(s)
    BY <1>1, <1>2, ChainType DEF Has, Passed
<1>4. \A t : Within(t, s) <=> Passed(t)
    BY <1>1, <1>2 DEF Within, Passed
<1> QED
    BY <1>1, <1>3, <1>4

\* A stage that forwards the request is passed then, and nothing else is.
LEMMA Crosses ==
    ASSUME TypeOK, PlaceOK, NEW s, Entering(s), chain' = chain, at' = at + 1
    PROVE  /\ \A t : Passed(t)' <=> (Passed(t) \/ t = s)
           /\ \A t, u : Within(t, u)' <=> Within(t, u)
<1>1. at \in DOMAIN chain /\ chain[at] = s
    BY EnteringIsNew
<1>2. \A i \in DOMAIN chain : i < at + 1 <=> i < at \/ i = at
    BY ChainType
<1>3. \A t : Passed(t)' <=> (Passed(t) \/ t = s)
  <2> TAKE t
  <2>1. Passed(t)' <=> \E i \in DOMAIN chain : chain[i] = t /\ i < at + 1
      BY DEF Passed
  <2> QED
      BY <1>1, <1>2, <2>1 DEF Passed
<1>4. \A t, u : Within(t, u)' <=> Within(t, u)
    BY DEF Within
<1> QED
    BY <1>3, <1>4

-------------------------------------------------------------------------------
(* What a stage does with a request it enters: every one of them either lets the *)
(* request cross or refuses it.                                                  *)

\* A legitimate request on a chain in the documented order.
Blameless == InDocumentedOrder /\ Legitimate

\* What a stage leaves in the extensions.
Leaves(s) ==
    {x \in {"RequestIdStr", "ClientIp", "Claims", "Context", "Counted", "Filters"} :
        \/ s = "RequestId" /\ x = "RequestIdStr"
        \/ s = "ClientIp" /\ x = "ClientIp" /\ request.peer # Unknown
        \/ s = "Auth" /\ x = "Claims"
        \/ s = "ReadContext" /\ x = "Context"
        \/ s = "RateLimiter" /\ x = "Counted" /\ "ClientIp" \in extensions
        \/ s = "PathParams" /\ x = "Filters"}

\* What a stage that lets a request cross has seen to.
Admits(s) ==
    /\ s = "Auth" => "Claims" \in extensions \/ Authenticated
    /\ s = "ReadContext" => {"RequestIdStr", "Claims"} \subseteq extensions
    /\ s = "Permissions" => "Claims" \in extensions /\ Granted
    /\ s = "Identity" => "Claims" \in extensions \/ Authenticated
    /\ s = "Authority" => /\ "Claims" \in extensions \/ Authenticated
                          /\ perm_id % Width \in request.role

ClientStep ==
    \/ client' = client
    \/ request.peer # Unknown /\ client' = ClientOf(request.peer, request.forwarded)

TimerStep ==
    \/ entered' = entered
    \/ \E s \in {"Timeout", "Equalizer"} : entered' = [entered EXCEPT ![s] = clock]

Crossed(s) ==
    /\ Entering(s) /\ Admits(s)
    /\ Forward(Leaves(s))
    /\ ClientStep /\ TimerStep

Statuses == {0, 400, 401, 403, 429, 500}

\* A stage turns away who is to blame; the limiter may turn away whom it counts.
MayRefuse(status) == ~ Blameless \/ (Identifies /\ status \in {429, 500})

Refused(s) ==
    /\ Entering(s)
    /\ \E kind \in {"ok", "err", "panic"}, status \in Statuses :
         /\ TurnAway(kind, status)
         /\ MayRefuse(status)

\* Jwt::from_request yields claims only of a good token, or the ones it finds, and
\* fails on a good token only when no Validate<T> is registered.
LEMMA JwtOutcome ==
    /\ JwtError \in {0, 401, 500}
    /\ JwtError = 0 => "Claims" \in extensions \/ Authenticated
    /\ Authenticated /\ (validator \/ "Claims" \in extensions) => JwtError = 0
BY DEF JwtError, Authenticated

LEMMA ExtractorStatuses ==
    ASSUME NEW type
    PROVE  ExtractError(type) \in Statuses
BY JwtOutcome DEF ExtractError, Statuses

LEMMA ExtractorOutcome ==
    /\ ExtractError("Claims") = JwtError
    /\ "ClientIp" \in extensions => ExtractError("ClientIp") = 0
    /\ "Filters" \in extensions => ExtractError("ReqFilters") = 0
    /\ request.query # "malformed" => ExtractError("Filters") = 0
    /\ ExtractError("nothing") = 0
BY DEF ExtractError

\* What a blameless request finds when it enters a stage.
LEMMA ClaimsAreThere ==
    ASSUME TypeOK, PlaceOK, CarriedOK, NEW s, Entering(s), Before("Auth", s)
    PROVE  "Claims" \in extensions
<1>1. Passed("Auth")
    BY EnteringIsNew, BeforeIsWithin
<1> QED
    BY <1>1 DEF CarriedOK, Entering

LEMMA JwtOfBlameless ==
    ASSUME TypeOK, PlaceOK, CarriedOK, NEW s, Entering(s), Authenticated, Identified(s)
    PROVE  JwtError = 0
<1>1. validator \/ "Claims" \in extensions
    BY ClaimsAreThere DEF Identified
<1> QED
    BY <1>1, JwtOutcome

\* The table decides by its first entry that applies: it grants exactly when that
\* entry's bit is in the role.
LEMMA TableDecides ==
    ASSUME TypeOK, NEW i, i = Find(table, request.method, request.path)
    PROVE  /\ Granted => i # 0 /\ table[i].bit_id \in request.role
           /\ i # 0 /\ table[i].bit_id \in request.role => Granted
<1>1. table \in Seq(RawEntries)
    BY ConfigType
<1>2. DOMAIN table = 1..Len(table) /\ Len(table) \in Nat
    BY <1>1
<1>3. \/ i = 0 /\ \A j \in DOMAIN table : ~ Applies(table[j], request.method, request.path)
      \/ /\ i \in DOMAIN table /\ i # 0
         /\ Applies(table[i], request.method, request.path)
         /\ \A j \in 1..(i - 1) : ~ Applies(table[j], request.method, request.path)
    BY <1>1, FindIsFirst
<1>4. ASSUME Granted PROVE i # 0 /\ table[i].bit_id \in request.role
  <2>1. PICK g \in DOMAIN table :
             /\ Applies(table[g], request.method, request.path)
             /\ table[g].bit_id \in request.role
             /\ \A j \in 1..(g - 1) : ~ Applies(table[j], request.method, request.path)
      BY <1>4 DEF Granted
  <2>2. i \in DOMAIN table /\ i # 0
        /\ Applies(table[i], request.method, request.path)
        /\ \A j \in 1..(i - 1) : ~ Applies(table[j], request.method, request.path)
      BY <1>3, <2>1
  <2>3. g \in Int /\ i \in Int /\ g >= 1 /\ i >= 1
      BY <1>2, <2>1, <2>2
  <2>4. ~ (i < g) /\ ~ (g < i)
      BY <2>1, <2>2, <2>3
  <2>5. i = g
      BY <2>3, <2>4
  <2> QED
      BY <2>1, <2>2, <2>5
<1>5. ASSUME i # 0, table[i].bit_id \in request.role PROVE Granted
    BY <1>3, <1>5 DEF Granted
<1> QED
    BY <1>4, <1>5

\* A shift by less than the width wraps nowhere.
LEMMA NoWrap ==
    ASSUME NEW n \in Nat, n < Width
    PROVE  n % Width = n
BY PermissionsAssumption

\* Every stage lets the request cross or refuses it, and but for the limiter refuses
\* only one that is not blameless.
LEMMA EntersSplits ==
    ASSUME TypeOK, PlaceOK, CarriedOK, Enters
    PROVE  \E s \in Stages : Crossed(s) \/ Refused(s)
<1> USE DEF Stages
<1>0. /\ Blameless => Authenticated /\ request.query # "malformed"
      /\ Blameless /\ Has("Permissions") => Granted /\ Before("Auth", "Permissions")
      /\ Blameless /\ Has("ReadContext") =>
           Before("RequestId", "ReadContext") /\ Before("Auth", "ReadContext")
      /\ Blameless /\ Has("Identity") => Identified("Identity")
      /\ Blameless /\ Has("Authority") =>
           Identified("Authority") /\ perm_id \in request.role
      /\ Blameless /\ Has("AttachLocal") =>
           IF attached = "ClientIp" THEN Resolved("AttachLocal") ELSE Identified("AttachLocal")
    BY DEF Blameless, InDocumentedOrder, Legitimate
<1>1. CASE RequestIdEnters
  <2>1. Entering("RequestId") /\ Leaves("RequestId") = {"RequestIdStr"}
      BY <1>1 DEF RequestIdEnters, Leaves
  <2> QED
      BY <1>1, <2>1 DEF RequestIdEnters, Crossed, Admits, ClientStep, TimerStep
<1>2. CASE ClientIpEnters
  <2>1. Leaves("ClientIp") = IF request.peer # Unknown THEN {"ClientIp"} ELSE {}
      BY DEF Leaves
  <2>2. Forward(Leaves("ClientIp")) /\ ClientStep /\ entered' = entered
      BY <1>2, <2>1 DEF ClientIpEnters, ClientStep
  <2> QED
      BY <1>2, <2>2 DEF ClientIpEnters, Crossed, Admits, TimerStep
<1>3. CASE AuthEnters
  <2>1. CASE "Claims" \in extensions \/ request.token = "good"
    <3>1. Leaves("Auth") = {"Claims"}
        BY DEF Leaves
    <3> QED
        BY <1>3, <2>1, <3>1
        DEF AuthEnters, Crossed, Admits, Authenticated, ClientStep, TimerStep
  <2>2. CASE ~ ("Claims" \in extensions \/ request.token = "good")
    <3>1. ~ Blameless
        BY <1>0, <2>2 DEF Authenticated
    <3> QED
        BY <1>3, <2>2, <3>1 DEF AuthEnters, Refused, MayRefuse, Statuses
  <2> QED
      BY <2>1, <2>2
<1>4. CASE ReadContextEnters
  <2>1. CASE {"RequestIdStr", "Claims"} \subseteq extensions
    <3>1. Leaves("ReadContext") = {"Context"}
        BY DEF Leaves
    <3> QED
        BY <1>4, <2>1, <3>1 DEF ReadContextEnters, Crossed, Admits, ClientStep, TimerStep
  <2>2. CASE ~ ({"RequestIdStr", "Claims"} \subseteq extensions)
    <3>1. Entering("ReadContext")
        BY <1>4 DEF ReadContextEnters
    <3>2. ASSUME Blameless PROVE FALSE
      <4>1. Before("RequestId", "ReadContext") /\ Before("Auth", "ReadContext")
          BY <1>0, <3>1, <3>2, EnteringIsNew
      <4>2. Passed("RequestId") /\ Passed("Auth")
          BY <3>1, <4>1, EnteringIsNew, BeforeIsWithin
      <4> QED
          BY <2>2, <3>1, <4>2 DEF CarriedOK, Entering
    <3> QED
        BY <1>4, <2>2, <3>2 DEF ReadContextEnters, Refused, MayRefuse, Statuses
  <2> QED
      BY <2>1, <2>2
<1>5. CASE PermissionsEnters
  <2> DEFINE i == Find(table, request.method, request.path)
  <2>1. Entering("Permissions")
      BY <1>5 DEF PermissionsEnters
  <2>2. /\ Granted => i # 0 /\ table[i].bit_id \in request.role
        /\ i # 0 /\ table[i].bit_id \in request.role => Granted
      BY TableDecides
  <2>3. Blameless => i # 0 /\ "Claims" \in extensions /\ table[i].bit_id \in request.role
      BY <1>0, <2>1, <2>2, EnteringIsNew, ClaimsAreThere
  <2>4. CASE i # 0 /\ "Claims" \in extensions /\ table[i].bit_id \in request.role
    <3>1. Leaves("Permissions") = {}
        BY DEF Leaves
    <3>2. Forward({}) /\ UNCHANGED <<client, entered>>
        BY <1>5, <2>4 DEF PermissionsEnters
    <3> QED
        BY <2>1, <2>2, <2>4, <3>1, <3>2 DEF Crossed, Admits, ClientStep, TimerStep
  <2>5. CASE ~ (i # 0 /\ "Claims" \in extensions /\ table[i].bit_id \in request.role)
    <3>1. TurnAway("ok", 403) \/ TurnAway("ok", 401)
        BY <1>5, <2>5 DEF PermissionsEnters
    <3> QED
        BY <2>1, <2>3, <2>5, <3>1 DEF Refused, MayRefuse, Statuses
  <2> QED
      BY <2>4, <2>5
<1>6. CASE IdentityEnters
  <2>1. Entering("Identity") /\ ExtractError("Claims") = JwtError
      BY <1>6, ExtractorOutcome DEF IdentityEnters, ExtractorEnters
  <2>2. CASE JwtError = 0
    <3>1. Leaves("Identity") = {}
        BY DEF Leaves
    <3>2. Forward({}) /\ UNCHANGED <<client, entered>>
        BY <1>6, <2>1, <2>2 DEF IdentityEnters, ExtractorEnters
    <3> QED
        BY <2>1, <2>2, <3>1, <3>2, JwtOutcome DEF Crossed, Admits, ClientStep, TimerStep
  <2>3. CASE JwtError # 0
    <3>1. ~ Blameless
        BY <1>0, <2>1, <2>3, EnteringIsNew, JwtOfBlameless
    <3>2. TurnAway("err", JwtError) /\ JwtError \in Statuses
        BY <1>6, <2>1, <2>3, JwtOutcome DEF IdentityEnters, ExtractorEnters, Statuses
    <3> QED
        BY <2>1, <3>1, <3>2 DEF Refused, MayRefuse
  <2> QED
      BY <2>2, <2>3
<1>7. CASE AuthorityEnters
  <2>1. Entering("Authority")
      BY <1>7 DEF AuthorityEnters
  <2>2. Blameless => JwtError = 0 /\ perm_id < Width /\ AuthorityAllows(request.role, perm_id)
    <3>1. ASSUME Blameless PROVE JwtError = 0 /\ perm_id \in request.role
        BY <1>0, <2>1, <3>1, EnteringIsNew, JwtOfBlameless
    <3>2. ASSUME perm_id \in request.role PROVE perm_id < Width
      <4>1. request.role \subseteq 0..(Width - 1)
          BY ConfigType DEF RequestTypes
      <4> QED
          BY <3>2, <4>1, PermissionsAssumption
    <3>3. perm_id \in Nat
        BY DEF PlaceOK
    <3> QED
        BY <3>1, <3>2, <3>3, NoWrap DEF AuthorityAllows
  <2>3. CASE JwtError # 0 /\ TurnAway("err", JwtError)
      BY <2>1, <2>2, <2>3, JwtOutcome DEF Refused, MayRefuse, Statuses
  <2>4. CASE JwtError = 0 /\ AuthorityAllows(request.role, perm_id)
               /\ Forward({}) /\ UNCHANGED <<client, entered>>
    <3>1. Leaves("Authority") = {}
        BY DEF Leaves
    <3> QED
        BY <2>1, <2>4, <3>1, JwtOutcome
        DEF Crossed, Admits, ClientStep, TimerStep, AuthorityAllows
  <2>5. CASE ~ AuthorityAllows(request.role, perm_id) /\ TurnAway("ok", 403)
      BY <2>1, <2>2, <2>5 DEF Refused, MayRefuse, Statuses
  <2>6. CASE perm_id >= Width /\ TurnAway("panic", 0)
    <3>1. ~ (perm_id < Width)
        BY <2>6, PermissionsAssumption DEF PlaceOK
    <3> QED
        BY <2>1, <2>2, <2>6, <3>1 DEF Refused, MayRefuse, Statuses
  <2> QED
      BY <1>7, <2>3, <2>4, <2>5, <2>6 DEF AuthorityEnters
<1>8. CASE AttachLocalEnters
  <2>1. Entering("AttachLocal")
      BY <1>8 DEF AttachLocalEnters, ExtractorEnters
  <2>2. CASE ExtractError(attached) = 0
    <3>1. Leaves("AttachLocal") = {}
        BY DEF Leaves
    <3>2. Forward({}) /\ UNCHANGED <<client, entered>>
        BY <1>8, <2>2 DEF AttachLocalEnters, ExtractorEnters
    <3> QED
        BY <2>1, <3>1, <3>2 DEF Crossed, Admits, ClientStep, TimerStep
  <2>3. CASE ExtractError(attached) # 0
    <3>1. ASSUME Blameless PROVE FALSE
      <4>1. CASE attached = "Claims"
        <5>1. JwtError = 0
            BY <1>0, <2>1, <3>1, <4>1, EnteringIsNew, JwtOfBlameless
        <5> QED
            BY <2>3, <4>1, <5>1, ExtractorOutcome
      <4>2. CASE attached = "ClientIp"
        <5>1. Before("ClientIp", "AttachLocal") /\ request.peer # Unknown
            BY <1>0, <2>1, <3>1, <4>2, EnteringIsNew DEF Resolved
        <5>2. Passed("ClientIp")
            BY <2>1, <5>1, EnteringIsNew, BeforeIsWithin
        <5>3. "ClientIp" \in extensions
            BY <2>1, <5>1, <5>2 DEF CarriedOK, Entering
        <5> QED
            BY <2>3, <4>2, <5>3, ExtractorOutcome
      <4> QED
          BY <4>1, <4>2 DEF PlaceOK
    <3>2. TurnAway("err", ExtractError(attached)) /\ ExtractError(attached) \in Statuses
        BY <1>8, <2>3, ExtractorStatuses DEF AttachLocalEnters, ExtractorEnters
    <3> QED
        BY <2>1, <3>1, <3>2 DEF Refused, MayRefuse
  <2> QED
      BY <2>2, <2>3
<1>9. CASE RateLimiterEnters
  <2>1. Entering("RateLimiter")
      BY <1>9 DEF RateLimiterEnters, Identifies
  <2>2. Leaves("RateLimiter") = IF Identifies THEN {"Counted"} ELSE {}
      BY <2>1 DEF Leaves, Identifies
  <2>3. CASE Forward(IF Identifies THEN {"Counted"} ELSE {}) /\ UNCHANGED <<client, entered>>
      BY <2>1, <2>2, <2>3 DEF Crossed, Admits, ClientStep, TimerStep
  <2>4. CASE Identifies /\ (TurnAway("ok", 429) \/ TurnAway("err", 500))
      BY <2>1, <2>4 DEF Refused, MayRefuse, Statuses
  <2> QED
      BY <1>9, <2>3, <2>4 DEF RateLimiterEnters
<1>10. CASE PathParamsEnters
  <2>1. CASE ExtractError("Filters") = 0
    <3>1. Leaves("PathParams") = {"Filters"}
        BY DEF Leaves
    <3> QED
        BY <1>10, <2>1, <3>1 DEF PathParamsEnters, Crossed, Admits, ClientStep, TimerStep
  <2>2. CASE ExtractError("Filters") # 0
    <3>1. ~ Blameless
        BY <1>0, <2>2, ExtractorOutcome
    <3>2. Entering("PathParams") /\ TurnAway("err", ExtractError("Filters"))
          /\ ExtractError("Filters") \in Statuses
        BY <1>10, <2>2, ExtractorStatuses DEF PathParamsEnters
    <3> QED
        BY <3>1, <3>2 DEF Refused, MayRefuse
  <2> QED
      BY <2>1, <2>2
<1>11. ASSUME NEW s \in {"Timeout", "Equalizer"}, TimerEnters(s)
       PROVE  Crossed(s) /\ s \in Stages
  <2>1. Leaves(s) = {}
      BY DEF Leaves
  <2> QED
      BY <1>11, <2>1 DEF TimerEnters, Crossed, Admits, ClientStep, TimerStep
<1> QED
    BY <1>1, <1>2, <1>3, <1>4, <1>5, <1>6, <1>7, <1>8, <1>9, <1>10, <1>11 DEF Enters

-------------------------------------------------------------------------------
(* Steps that keep the request where it is in the chain, or take it outwards *)

\* The configuration of a request never changes, nor what depends on it alone.
LEMMA ConfigSame ==
    ASSUME config' = config
    PROVE  /\ chain' = chain /\ request' = request /\ table' = table
           /\ perm_id' = perm_id /\ attached' = attached /\ validator' = validator
           /\ Handler' = Handler
           /\ Granted' = Granted /\ Authenticated' = Authenticated
           /\ InDocumentedOrder' = InDocumentedOrder /\ Legitimate' = Legitimate
           /\ Before("Timeout", "Equalizer")' = Before("Timeout", "Equalizer")
<1>1. /\ chain' = chain /\ request' = request /\ table' = table
      /\ perm_id' = perm_id /\ attached' = attached /\ validator' = validator
    BY DEF config
<1>2. \A s, t : Before(s, t)' = Before(s, t)
    BY <1>1 DEF Before, Has, Place
<1>3. \A s : Has(s)' = Has(s)
    BY <1>1 DEF Has
<1>4. Granted' = Granted /\ Authenticated' = Authenticated
    BY <1>1 DEF Granted, Authenticated
<1>5. \A s : Identified(s)' = Identified(s) /\ Resolved(s)' = Resolved(s)
    BY <1>1, <1>2 DEF Identified, Resolved
<1>6. InDocumentedOrder' = InDocumentedOrder
    BY <1>1, <1>2, <1>3, <1>5 DEF InDocumentedOrder
<1>7. Legitimate' = Legitimate
    BY <1>1, <1>3, <1>4 DEF Legitimate
<1> QED
    BY <1>1, <1>2, <1>4, <1>6, <1>7 DEF Handler

\* The steps of a request that is not entering a stage.
Elsewhere ==
    \/ HandlerRefuses \/ HandlerStarts \/ HandlerReturns \/ Tick
    \/ RequestIdLeaves \/ EqualizerLeaves \/ EqualizerWakes \/ OtherLeaves
    \/ TimeoutFires \/ Answered \/ UNCHANGED vars

LEMMA NextSplits ==
    ASSUME TypeOK, PlaceOK, CarriedOK, [Next]_vars
    PROVE  Elsewhere \/ \E s \in Stages : Crossed(s) \/ Refused(s)
BY EntersSplits DEF Next, Finished, Elsewhere

\* None of them changes the configuration, the extensions or the client.
LEMMA ElsewhereKeeps ==
    ASSUME Elsewhere
    PROVE  config' = config /\ extensions' = extensions /\ client' = client
                            /\ entered' = entered
BY DEF Elsewhere, HandlerRefuses, HandlerStarts, HandlerReturns, Tick, RequestIdLeaves,
       EqualizerLeaves, EqualizerWakes, OtherLeaves, TimeoutFires, Answered, StepOut, vars

\* When one of them leaves the request on its way in, it stays at its place.
LEMMA ElsewhereStays ==
    ASSUME PlaceOK, Elsewhere, moving' = "in"
    PROVE  /\ moving = "in" /\ at' = at
           /\ handler' # handler => HandlerStarts
<1>1. CASE HandlerRefuses
    BY <1>1 DEF HandlerRefuses
<1>2. CASE HandlerStarts
    BY <1>2 DEF HandlerStarts, AtHandler
<1>3. CASE HandlerReturns
    BY <1>3 DEF HandlerReturns
<1>4. CASE Tick
    BY <1>4 DEF Tick
<1>5. CASE RequestIdLeaves
    BY <1>5 DEF RequestIdLeaves, Leaving
<1>6. CASE EqualizerLeaves
    BY <1>6 DEF EqualizerLeaves, Leaving
<1>7. CASE EqualizerWakes
    BY <1>7 DEF EqualizerWakes
<1>8. CASE OtherLeaves
    BY <1>8 DEF OtherLeaves
<1>9. CASE TimeoutFires
    BY <1>9 DEF TimeoutFires
<1>10. CASE Answered
    BY <1>10 DEF Answered
<1>11. CASE UNCHANGED vars
    BY <1>11 DEF vars
<1> QED
    BY <1>1, <1>2, <1>3, <1>4, <1>5, <1>6, <1>7, <1>8, <1>9, <1>10, <1>11 DEF Elsewhere

-------------------------------------------------------------------------------
(* Types and places *)

\* The two halves of TypeOK and PlaceOK that a step of any kind keeps or disturbs.
ConfigOK ==
    /\ chain \in Chains /\ request \in Requests /\ table \in Tables \cup {<< >>}
    /\ attached \in {"Claims", "ClientIp"} /\ perm_id \in Nat

CarryTypeOK ==
    /\ extensions \subseteq {"RequestIdStr", "ClientIp", "Claims", "Context",
                             "Counted", "Filters"}
    /\ client \in Addresses \cup {Unknown}
    /\ entered \in [{"Timeout", "Equalizer"} -> 0..Horizon]

MoveOK ==
    /\ at \in 0..Handler
    /\ moving \in {"in", "sleeping", "out", "over"}
    /\ outcome \in [kind : {"none", "ok", "err", "panic"},
                    status : {0, 200, 400, 401, 403, 429, 500, 504}, made : 0..Handler]
    /\ tagged \in BOOLEAN
    /\ handler \in {"waiting", "running", "finished", "dropped"}
    /\ clock \in 0..Horizon
    /\ moving \in {"in", "sleeping"} => at >= 1
    /\ moving # "in" => at <= Len(chain)
    /\ moving = "over" => at = 0
    /\ moving = "sleeping" => chain[at] = "Equalizer"
    /\ handler = "running" => moving = "in" /\ at = Handler
    /\ moving = "in" => handler \in {"waiting", "running"}

LEMMA TypeParts == TypeOK /\ PlaceOK <=> ConfigOK /\ CarryTypeOK /\ MoveOK
BY DEF TypeOK, PlaceOK, ConfigOK, CarryTypeOK, MoveOK

LEMMA ConfigStep ==
    ASSUME ConfigOK, config' = config
    PROVE  ConfigOK'
BY ConfigSame DEF ConfigOK

LEMMA CrossedType ==
    ASSUME TypeOK, PlaceOK, NEW s, Crossed(s)
    PROVE  config' = config /\ CarryTypeOK' /\ MoveOK'
<1>1. CarryTypeOK /\ MoveOK
    BY TypeParts
<1>2. at \in DOMAIN chain /\ chain[at] = s
    BY EnteringIsNew DEF Crossed
<1>3. config' = config /\ Handler' = Handler /\ chain' = chain
    BY ConfigSame DEF Crossed, Forward
<1>4. CarryTypeOK'
  <2>1. extensions' \subseteq {"RequestIdStr", "ClientIp", "Claims", "Context",
                               "Counted", "Filters"}
      BY <1>1 DEF CarryTypeOK, Crossed, Forward, Leaves
  <2>2. client' \in Addresses \cup {Unknown}
    <3>1. CASE client' = client
        BY <1>1, <3>1 DEF CarryTypeOK
    <3>2. CASE request.peer # Unknown /\ client' = ClientOf(request.peer, request.forwarded)
        BY <3>2, ConfigType, ClientOfIsTrusted
    <3> QED
        BY <3>1, <3>2 DEF Crossed, ClientStep
  <2>3. entered' \in [{"Timeout", "Equalizer"} -> 0..Horizon]
    <3>1. entered \in [{"Timeout", "Equalizer"} -> 0..Horizon] /\ clock \in 0..Horizon
        BY <1>1 DEF CarryTypeOK, MoveOK
    <3> QED
        BY <3>1 DEF Crossed, TimerStep
  <2> QED
      BY <2>1, <2>2, <2>3 DEF CarryTypeOK
<1>5. MoveOK'
  <2>1. moving = "in" /\ moving' = "in" /\ at' = at + 1 /\ at' \in 0..Handler
        /\ at' >= 1 /\ at # Handler
      BY <1>2, ChainType DEF Crossed, Entering, Forward, Handler
  <2>2. handler = "waiting"
      BY <1>1, <2>1 DEF MoveOK
  <2>3. outcome' = outcome /\ tagged' = tagged /\ handler' = handler /\ clock' = clock
      BY DEF Crossed, Forward
  <2> QED
      BY <1>1, <1>3, <2>1, <2>2, <2>3 DEF MoveOK
<1> QED
    BY <1>3, <1>4, <1>5

LEMMA RefusedType ==
    ASSUME TypeOK, PlaceOK, NEW s, Refused(s)
    PROVE  config' = config /\ CarryTypeOK' /\ MoveOK'
<1>1. CarryTypeOK /\ MoveOK
    BY TypeParts
<1>2. PICK kind \in {"ok", "err", "panic"}, status \in Statuses : TurnAway(kind, status)
    BY DEF Refused
<1>3. config' = config /\ Handler' = Handler /\ chain' = chain
    BY <1>2, ConfigSame DEF TurnAway
<1>4. CarryTypeOK'
    BY <1>1, <1>2 DEF CarryTypeOK, TurnAway
<1>5. at \in DOMAIN chain
    BY EnteringIsNew DEF Refused
<1>6. moving = "in" /\ moving' = "out" /\ at' = at - 1 /\ at' \in 0..Handler
      /\ at' <= Len(chain) /\ at \in 0..Handler /\ at # Handler
    BY <1>2, <1>5, ChainType DEF Refused, Entering, TurnAway, Handler
<1>7. handler = "waiting"
    BY <1>1, <1>6 DEF MoveOK
<1>8. /\ outcome' = [kind |-> kind, status |-> status, made |-> at]
      /\ tagged' = tagged /\ handler' = handler /\ clock' = clock
    BY <1>2 DEF TurnAway
<1> QED
    BY <1>1, <1>3, <1>4, <1>6, <1>7, <1>8 DEF MoveOK, Statuses

LEMMA ElsewhereType ==
    ASSUME TypeOK, PlaceOK, Elsewhere
    PROVE  config' = config /\ CarryTypeOK' /\ MoveOK'
<1>1. CarryTypeOK /\ MoveOK
    BY TypeParts
<1>2. config' = config /\ CarryTypeOK'
    BY <1>1, ElsewhereKeeps DEF CarryTypeOK
<1>3. chain' = chain /\ Handler' = Handler
    BY <1>2, ConfigSame
<1>4. Len(chain) \in Nat /\ DOMAIN chain = 1..Len(chain) /\ Handler = Len(chain) + 1
    BY ChainType DEF Handler
<1> SUFFICES MoveOK'
    BY <1>2
<1>5. ASSUME StepOut, at >= 1, moving # "in", moving' = "out", tagged' \in BOOLEAN PROVE MoveOK'
    BY <1>1, <1>3, <1>4, <1>5 DEF MoveOK, StepOut
<1>6. CASE HandlerRefuses
  <2>1. ExtractError(request.wants) \in {0, 400, 401, 403, 429, 500}
      BY ExtractorStatuses DEF Statuses
  <2> QED
      BY <1>1, <1>3, <1>4, <1>6, <2>1 DEF MoveOK, HandlerRefuses, AtHandler
<1>7. CASE HandlerStarts
    BY <1>1, <1>3, <1>4, <1>7 DEF MoveOK, HandlerStarts, AtHandler
<1>8. CASE HandlerReturns
    BY <1>1, <1>3, <1>4, <1>8 DEF MoveOK, HandlerReturns
<1>9. CASE Tick
  <2>1. clock' \in 0..Horizon
      BY <1>1, <1>9, PipelineAssumption DEF MoveOK, Tick, Horizon
  <2> QED
      BY <1>1, <1>3, <1>9, <2>1 DEF MoveOK, Tick
<1>10. CASE RequestIdLeaves
  <2>1. tagged' \in BOOLEAN
      BY <1>10 DEF RequestIdLeaves
  <2> QED
      BY <1>5, <1>10, <2>1 DEF RequestIdLeaves, Leaving
<1>11. CASE EqualizerLeaves
  <2>1. CASE moving' = "sleeping" /\ at' = at
      BY <1>1, <1>3, <1>11, <2>1 DEF MoveOK, EqualizerLeaves, Leaving, StepOut
  <2>2. CASE StepOut /\ UNCHANGED moving
      BY <1>1, <1>5, <1>11, <2>2 DEF MoveOK, EqualizerLeaves, Leaving
  <2> QED
      BY <1>11, <2>1, <2>2 DEF EqualizerLeaves
<1>12. CASE EqualizerWakes
    BY <1>1, <1>5, <1>12 DEF MoveOK, EqualizerWakes
<1>13. CASE OtherLeaves
    BY <1>1, <1>5, <1>13 DEF MoveOK, OtherLeaves
<1>14. CASE TimeoutFires
  <2>1. Place("Timeout") \in DOMAIN chain
      BY <1>14, PlaceFinds DEF TimeoutFires
  <2>2. PICK p \in DOMAIN chain : p = Place("Timeout")
      BY <2>1
  <2>3. at' = p - 1 /\ moving' = "out" /\ tagged' = FALSE /\ clock' = clock
        /\ outcome' = [kind |-> "err", status |-> 504, made |-> p]
        /\ handler' \in {handler, "dropped"} /\ handler' # "running"
      BY <1>14, <2>2 DEF TimeoutFires
  <2>4. p - 1 \in 0..Handler /\ p \in 0..Handler /\ p - 1 <= Len(chain)
      BY <1>4, <2>2
  <2>5. outcome' \in [kind : {"none", "ok", "err", "panic"},
                     status : {0, 200, 400, 401, 403, 429, 500, 504}, made : 0..Handler]
      BY <2>3, <2>4
  <2>6. handler' \in {"waiting", "running", "finished", "dropped"} /\ clock' \in 0..Horizon
      BY <1>1, <2>3 DEF MoveOK
  <2> QED
      BY <1>3, <2>3, <2>4, <2>5, <2>6 DEF MoveOK
<1>15. CASE Answered
    BY <1>1, <1>3, <1>15 DEF MoveOK, Answered
<1>16. CASE UNCHANGED vars
    BY <1>1, <1>3, <1>16 DEF MoveOK, vars
<1> QED
    BY <1>6, <1>7, <1>8, <1>9, <1>10, <1>11, <1>12, <1>13, <1>14, <1>15, <1>16
    DEF Elsewhere

LEMMA TypeStep ==
    ASSUME TypeOK, PlaceOK, CarriedOK, [Next]_vars
    PROVE  TypeOK' /\ PlaceOK' /\ config' = config
<1>1. config' = config /\ CarryTypeOK' /\ MoveOK'
    BY NextSplits, CrossedType, RefusedType, ElsewhereType
<1>2. ConfigOK'
    BY <1>1, TypeParts, ConfigStep
<1>3. (ConfigOK /\ CarryTypeOK /\ MoveOK)' => (TypeOK /\ PlaceOK)'
    BY TypeParts, PTL
<1> QED
    BY <1>1, <1>2, <1>3

-------------------------------------------------------------------------------
(* Guards: what is carried, what was checked, and the handler behind them *)

\* A stage leaves what it stands for, and nothing else is added.
LEMMA WhatIsLeft ==
    ASSUME NEW s
    PROVE  /\ "Claims" \in Leaves(s) <=> s = "Auth"
           /\ "RequestIdStr" \in Leaves(s) <=> s = "RequestId"
           /\ "ClientIp" \in Leaves(s) <=> s = "ClientIp" /\ request.peer # Unknown
           /\ "Filters" \in Leaves(s) <=> s = "PathParams"
           /\ "Counted" \in Leaves(s) <=> s = "RateLimiter" /\ "ClientIp" \in extensions
BY DEF Leaves

LEMMA CrossedMoves ==
    ASSUME TypeOK, PlaceOK, NEW s, Crossed(s)
    PROVE  /\ moving = "in" /\ moving' = "in" /\ handler = "waiting" /\ handler' = handler
           /\ extensions' = extensions \cup Leaves(s)
           /\ config' = config /\ outcome' = outcome
           /\ at \in DOMAIN chain /\ ~ Passed(s)
           /\ \A t : Within(t, s) <=> Passed(t)
           /\ \A t : Passed(t)' <=> (Passed(t) \/ t = s)
           /\ \A t, u : Within(t, u)' <=> Within(t, u)
<1>1. Entering(s) /\ Forward(Leaves(s))
    BY DEF Crossed
<1>2. config' = config /\ moving = "in" /\ moving' = "in" /\ at' = at + 1
      /\ extensions' = extensions \cup Leaves(s) /\ handler' = handler /\ outcome' = outcome
    BY <1>1 DEF Entering, Forward
<1>3. at \in DOMAIN chain /\ ~ Passed(s) /\ \A t : Within(t, s) <=> Passed(t)
    BY <1>1, EnteringIsNew
<1>4. handler = "waiting"
    BY <1>2, <1>3, ChainType DEF PlaceOK, Handler
<1>5. /\ \A t : Passed(t)' <=> (Passed(t) \/ t = s)
      /\ \A t, u : Within(t, u)' <=> Within(t, u)
    BY <1>1, <1>2, ConfigSame, Crosses
<1> QED
    BY <1>2, <1>3, <1>4, <1>5

LEMMA RefusedMoves ==
    ASSUME NEW s, Refused(s)
    PROVE  /\ moving = "in" /\ moving' = "out"
           /\ MayRefuse(outcome'.status)
           /\ config' = config /\ handler' = handler /\ client' = client
           /\ at' = at - 1 /\ outcome'.made = at
<1>1. PICK kind \in {"ok", "err", "panic"}, status \in Statuses :
           /\ TurnAway(kind, status)
           /\ MayRefuse(status)
    BY DEF Refused
<1>2. outcome' = [kind |-> kind, status |-> status, made |-> at]
    BY <1>1 DEF TurnAway
<1>3. outcome'.made = at /\ outcome'.status = status
    BY <1>2
<1> QED
    BY <1>1, <1>3 DEF Refused, Entering, TurnAway

\* Steps that stay where they are keep what is passed.
LEMMA StaysPassed ==
    ASSUME config' = config, at' = at
    PROVE  \A s, t : (Passed(s)' <=> Passed(s)) /\ (Within(s, t)' <=> Within(s, t))
BY ConfigSame DEF Passed, Within

\* The extensions hold what was passed.
LEMMA CarriedStep ==
    ASSUME TypeOK, PlaceOK, CarriedOK, [Next]_vars
    PROVE  CarriedOK'
<1>1. ASSUME NEW s \in Stages, Crossed(s) PROVE CarriedOK'
  <2>1. /\ moving = "in" /\ extensions' = extensions \cup Leaves(s)
        /\ config' = config /\ ~ Passed(s)
        /\ \A t : Within(t, s) <=> Passed(t)
        /\ \A t : Passed(t)' <=> (Passed(t) \/ t = s)
        /\ \A t, u : Within(t, u)' <=> Within(t, u)
      BY <1>1, CrossedMoves
  <2>2. request' = request
      BY <2>1, ConfigSame
  <2>3. /\ "Claims" \in Leaves(s) <=> s = "Auth"
        /\ "RequestIdStr" \in Leaves(s) <=> s = "RequestId"
        /\ "ClientIp" \in Leaves(s) <=> s = "ClientIp" /\ request.peer # Unknown
        /\ "Filters" \in Leaves(s) <=> s = "PathParams"
        /\ "Counted" \in Leaves(s) <=> s = "RateLimiter" /\ "ClientIp" \in extensions
      BY WhatIsLeft
  <2>4. /\ "Claims" \in extensions <=> Passed("Auth")
        /\ "RequestIdStr" \in extensions <=> Passed("RequestId")
        /\ "ClientIp" \in extensions <=> Passed("ClientIp") /\ request.peer # Unknown
        /\ "Filters" \in extensions <=> Passed("PathParams")
        /\ "Counted" \in extensions <=>
             Passed("RateLimiter") /\ Within("ClientIp", "RateLimiter")
                /\ request.peer # Unknown
      BY <2>1 DEF CarriedOK
  <2>5. \A x : x \in extensions' <=> x \in extensions \/ x \in Leaves(s)
      BY <2>1
  <2>6. "Claims" \in extensions' <=> Passed("Auth")'
      BY <2>1, <2>3, <2>4, <2>5
  <2>7. "RequestIdStr" \in extensions' <=> Passed("RequestId")'
      BY <2>1, <2>3, <2>4, <2>5
  <2>8. "ClientIp" \in extensions' <=> Passed("ClientIp")' /\ request'.peer # Unknown
      BY <2>1, <2>2, <2>3, <2>4, <2>5
  <2>9. "Filters" \in extensions' <=> Passed("PathParams")'
      BY <2>1, <2>3, <2>4, <2>5
  <2>10. "Counted" \in extensions' <=>
             Passed("RateLimiter")' /\ Within("ClientIp", "RateLimiter")'
                /\ request'.peer # Unknown
    <3>1. CASE s = "RateLimiter"
        BY <2>1, <2>2, <2>3, <2>4, <2>5, <3>1
    <3>2. CASE s # "RateLimiter"
        BY <2>1, <2>2, <2>3, <2>4, <2>5, <3>2
    <3> QED
        BY <3>1, <3>2
  <2> QED
      BY <2>6, <2>7, <2>8, <2>9, <2>10 DEF CarriedOK
<1>2. ASSUME NEW s \in Stages, Refused(s) PROVE CarriedOK'
    BY <1>2, RefusedMoves DEF CarriedOK
<1>3. ASSUME Elsewhere PROVE CarriedOK'
  <2>1. CASE moving' = "in"
    <3>1. moving = "in" /\ at' = at /\ config' = config /\ extensions' = extensions
        BY <1>3, <2>1, ElsewhereStays, ElsewhereKeeps
    <3>2. request' = request
        BY <3>1, ConfigSame
    <3>3. \A s, t : (Passed(s)' <=> Passed(s)) /\ (Within(s, t)' <=> Within(s, t))
        BY <3>1, StaysPassed
    <3> QED
        BY <3>1, <3>2, <3>3 DEF CarriedOK
  <2>2. CASE moving' # "in"
      BY <2>2 DEF CarriedOK
  <2> QED
      BY <2>1, <2>2
<1> QED
    BY <1>1, <1>2, <1>3, NextSplits

\* Every guard that was passed was satisfied.
LEMMA AdmittedStep ==
    ASSUME TypeOK, PlaceOK, CarriedOK, AdmittedOK, [Next]_vars
    PROVE  AdmittedOK'
<1>1. ASSUME NEW s \in Stages, Crossed(s) PROVE AdmittedOK'
  <2>1. /\ moving = "in" /\ config' = config /\ ~ Passed(s)
        /\ \A t : Within(t, s) <=> Passed(t)
        /\ \A t : Passed(t)' <=> (Passed(t) \/ t = s)
        /\ \A t, u : Within(t, u)' <=> Within(t, u)
      BY <1>1, CrossedMoves
  <2>2. /\ request' = request /\ perm_id' = perm_id
        /\ Granted' = Granted /\ Authenticated' = Authenticated
      BY <2>1, ConfigSame
  <2>3. /\ "Claims" \in extensions <=> Passed("Auth")
        /\ "RequestIdStr" \in extensions <=> Passed("RequestId")
      BY <2>1 DEF CarriedOK
  <2>4. /\ Passed("Auth") => Authenticated
        /\ Passed("Permissions") => Granted /\ Authenticated /\ Within("Auth", "Permissions")
        /\ Passed("Identity") => Authenticated
        /\ Passed("Authority") => Authenticated /\ perm_id % Width \in request.role
        /\ Passed("ReadContext") =>
             Authenticated /\ Within("RequestId", "ReadContext")
                           /\ Within("Auth", "ReadContext")
      BY <2>1 DEF AdmittedOK
  <2>5. /\ s = "Auth" => Authenticated
        /\ s = "ReadContext" => Passed("RequestId") /\ Passed("Auth")
        /\ s = "Permissions" => Passed("Auth") /\ Granted
        /\ s = "Identity" => Authenticated
        /\ s = "Authority" => Authenticated /\ perm_id % Width \in request.role
      BY <1>1, <2>1, <2>3, <2>4 DEF Crossed, Admits
  <2>6. /\ Passed("Auth")' => Authenticated'
        /\ Passed("Identity")' => Authenticated'
        /\ Passed("Authority")' => Authenticated' /\ perm_id' % Width \in request'.role
      BY <2>1, <2>2, <2>4, <2>5
  <2>7. Passed("Permissions")' =>
            Granted' /\ Authenticated' /\ Within("Auth", "Permissions")'
      BY <2>1, <2>2, <2>4, <2>5
  <2>8. Passed("ReadContext")' =>
            Authenticated' /\ Within("RequestId", "ReadContext")'
                           /\ Within("Auth", "ReadContext")'
      BY <2>1, <2>2, <2>4, <2>5
  <2> QED
      BY <2>6, <2>7, <2>8 DEF AdmittedOK
<1>2. ASSUME NEW s \in Stages, Refused(s) PROVE AdmittedOK'
    BY <1>2, RefusedMoves DEF AdmittedOK
<1>3. ASSUME Elsewhere PROVE AdmittedOK'
  <2>1. CASE moving' = "in"
    <3>1. moving = "in" /\ at' = at /\ config' = config
        BY <1>3, <2>1, ElsewhereStays, ElsewhereKeeps
    <3>2. /\ request' = request /\ perm_id' = perm_id
          /\ Granted' = Granted /\ Authenticated' = Authenticated
        BY <3>1, ConfigSame
    <3>3. \A s, t : (Passed(s)' <=> Passed(s)) /\ (Within(s, t)' <=> Within(s, t))
        BY <3>1, StaysPassed
    <3> QED
        BY <3>1, <3>2, <3>3 DEF AdmittedOK
  <2>2. CASE moving' # "in"
      BY <2>2 DEF AdmittedOK
  <2> QED
      BY <2>1, <2>2
<1> QED
    BY <1>1, <1>2, <1>3, NextSplits

\* Behind the guards the handler runs, and the configuration is as it was.
LEMMA GuardedStep ==
    ASSUME TypeOK, PlaceOK, CarriedOK, AdmittedOK, HandlerIsGuarded, [Next]_vars
    PROVE  HandlerIsGuarded'
<1>1. ASSUME NEW s \in Stages, Crossed(s) PROVE HandlerIsGuarded'
  <2>1. handler' = "waiting"
      BY <1>1, CrossedMoves
  <2> QED
      BY <2>1 DEF HandlerIsGuarded
<1>2. ASSUME NEW s \in Stages, Refused(s) PROVE HandlerIsGuarded'
  <2>1. moving = "in" /\ Entering(s)
      BY <1>2 DEF Refused, Entering
  <2>2. handler = "waiting"
      BY <2>1, EnteringIsNew, ChainType DEF PlaceOK, Handler
  <2>3. handler' = "waiting"
      BY <1>2, <2>2, RefusedMoves
  <2> QED
      BY <2>3 DEF HandlerIsGuarded
<1>3. ASSUME Elsewhere PROVE HandlerIsGuarded'
  <2> DEFINE Guarded ==
        /\ Has("Auth") => Authenticated
        /\ Has("Permissions") => Granted /\ Authenticated /\ Before("Auth", "Permissions")
        /\ Has("Identity") => Authenticated
        /\ Has("Authority") =>
             /\ Authenticated
             /\ perm_id < Width => perm_id \in request.role
        /\ Has("ReadContext") =>
             /\ Authenticated
             /\ Before("RequestId", "ReadContext") /\ Before("Auth", "ReadContext")
        /\ Has("RateLimiter") =>
             ("Counted" \in extensions
                 <=> Before("ClientIp", "RateLimiter") /\ request.peer # Unknown)
  <2>1. config' = config /\ extensions' = extensions
      BY <1>3, ElsewhereKeeps
  <2>2. /\ request' = request /\ perm_id' = perm_id /\ chain' = chain
        /\ Granted' = Granted /\ Authenticated' = Authenticated
      BY <2>1, ConfigSame
  <2>3. /\ \A s : Has(s)' = Has(s)
        /\ \A s, t : Before(s, t)' = Before(s, t)
      BY <2>2 DEF Has, Before, Place
  <2>4. Guarded => Guarded'
      BY <2>1, <2>2, <2>3
  <2>5. CASE handler # "waiting"
    <3>1. Guarded
        BY <2>5 DEF HandlerIsGuarded
    <3> HIDE DEF Guarded
    <3>2. Guarded'
        BY <2>4, <3>1
    <3> QED
        BY <3>2 DEF HandlerIsGuarded, Guarded
  <2>6. CASE HandlerStarts
    <3>1. moving = "in" /\ at = Handler
        BY <2>6 DEF HandlerStarts, AtHandler
    <3>2. \A s : Passed(s) <=> Has(s)
        BY <3>1, AllPassed
    <3>3. \A s, t : Before(s, t) <=> Within(s, t)
        BY BeforeIsWithin
    <3>6. perm_id < Width /\ perm_id % Width \in request.role => perm_id \in request.role
        BY NoWrap DEF PlaceOK
    <3>4. Guarded
        BY <3>1, <3>2, <3>3, <3>6 DEF CarriedOK, AdmittedOK
    <3> HIDE DEF Guarded
    <3>5. Guarded'
        BY <2>4, <3>4
    <3> QED
        BY <3>5 DEF HandlerIsGuarded, Guarded
  <2>7. CASE handler = "waiting" /\ ~ HandlerStarts
    <3>1. handler' = "waiting"
      <4>1. CASE HandlerReturns \/ TimeoutFires
          BY <2>7, <4>1 DEF HandlerReturns, TimeoutFires
      <4>2. CASE HandlerRefuses \/ Tick \/ Answered \/ UNCHANGED vars
          BY <2>7, <4>2 DEF HandlerRefuses, Tick, Answered, vars
      <4>3. CASE RequestIdLeaves \/ EqualizerLeaves \/ EqualizerWakes \/ OtherLeaves
          BY <2>7, <4>3
          DEF RequestIdLeaves, EqualizerLeaves, EqualizerWakes, OtherLeaves, StepOut
      <4> QED
          BY <1>3, <2>7, <4>1, <4>2, <4>3 DEF Elsewhere
    <3> QED
        BY <3>1 DEF HandlerIsGuarded
  <2> QED
      BY <2>5, <2>6, <2>7
<1> QED
    BY <1>1, <1>2, <1>3, NextSplits

-------------------------------------------------------------------------------
(* On the way out *)

\* At the handler, a blameless request has what the handler asks for.
LEMMA HandlerIsServed ==
    ASSUME TypeOK, PlaceOK, CarriedOK, AtHandler, Blameless
    PROVE  ExtractError(request.wants) = 0
<1>1. moving = "in" /\ at = Handler
    BY DEF AtHandler
<1>2. \A s : Passed(s) <=> Has(s)
    BY <1>1, AllPassed
<1>3. /\ Authenticated /\ request.query # "malformed"
      /\ request.wants = "ClientIp" => Has("ClientIp") /\ request.peer # Unknown
      /\ request.wants = "Claims" => validator \/ Has("Auth")
      /\ request.wants = "ReqFilters" => Has("PathParams")
    BY DEF Blameless, InDocumentedOrder, Legitimate
<1>4. /\ "Claims" \in extensions <=> Has("Auth")
      /\ "ClientIp" \in extensions <=> Has("ClientIp") /\ request.peer # Unknown
      /\ "Filters" \in extensions <=> Has("PathParams")
    BY <1>1, <1>2 DEF CarriedOK
<1>5. request.wants \in {"Claims", "ClientIp", "Filters", "ReqFilters", "nothing"}
    BY ConfigType DEF Extractors
<1> QED
    BY <1>3, <1>4, <1>5, JwtOutcome, ExtractorOutcome

\* Whom the limiter identifies has passed ClientIpMiddleware.
LEMMA IdentifiedIsResolved ==
    ASSUME TypeOK, PlaceOK, CarriedOK, Identifies
    PROVE  Resolved("RateLimiter") /\ Place("RateLimiter") = at /\ handler = "waiting"
<1>1. Entering("RateLimiter") /\ moving = "in" /\ "ClientIp" \in extensions
    BY DEF Identifies, Entering
<1>2. Passed("ClientIp") /\ request.peer # Unknown
    BY <1>1 DEF CarriedOK
<1>3. Within("ClientIp", "RateLimiter") /\ Has("RateLimiter")
      /\ at \in DOMAIN chain /\ chain[at] = "RateLimiter"
    BY <1>1, <1>2, EnteringIsNew
<1>4. Place("RateLimiter") = at
    BY <1>3, PlaceFinds, ChainType
<1>5. handler = "waiting"
    BY <1>1, <1>3, ChainType DEF PlaceOK, Handler
<1> QED
    BY <1>2, <1>3, <1>4, <1>5, BeforeIsWithin DEF Resolved

\* A blameless request is on its way out served, out of time, or over the limit.
LEMMA ServedStep ==
    ASSUME TypeOK, PlaceOK, CarriedOK, ServedOK, [Next]_vars
    PROVE  ServedOK'
<1> DEFINE Fine(o, h) ==
        \/ o.status = 200
        \/ o.status = 504 /\ (h = "finished" => Before("Timeout", "Equalizer"))
        \/ /\ Resolved("RateLimiter") /\ h = "waiting"
           /\ o.status \in {429, 500} /\ o.made = Place("RateLimiter")
<1>1. config' = config
    BY TypeStep
<1>2. /\ Blameless' = Blameless
      /\ Before("Timeout", "Equalizer")' = Before("Timeout", "Equalizer")
      /\ Resolved("RateLimiter")' = Resolved("RateLimiter")
      /\ Place("RateLimiter")' = Place("RateLimiter")
    BY <1>1, ConfigSame DEF Blameless, Resolved, Before, Has, Place
<1>3. ServedOK <=> (Blameless /\ moving # "in" => Fine(outcome, handler))
    BY DEF ServedOK, Blameless, Limited
<1>4. (Blameless /\ moving' # "in" => Fine(outcome', handler')) => ServedOK'
    BY <1>2 DEF ServedOK, Blameless, Limited
<1>5. SUFFICES ASSUME Blameless, moving' # "in" PROVE Fine(outcome', handler')
    BY <1>4
<1>6. ASSUME NEW s \in Stages, Crossed(s) PROVE FALSE
    BY <1>5, <1>6, CrossedMoves
<1>7. ASSUME NEW s \in Stages, Refused(s) PROVE Fine(outcome', handler')
  <2>1. /\ Identifies /\ outcome'.status \in {429, 500}
        /\ outcome'.made = at /\ handler' = handler
      BY <1>5, <1>7, RefusedMoves DEF MayRefuse
  <2>2. Resolved("RateLimiter") /\ Place("RateLimiter") = at /\ handler = "waiting"
      BY <2>1, IdentifiedIsResolved
  <2> QED
      BY <2>1, <2>2
<1>8. CASE Elsewhere
  <2>1. CASE HandlerRefuses
      BY <1>5, <2>1, HandlerIsServed DEF HandlerRefuses
  <2>2. CASE HandlerStarts \/ Tick
    <3>1. moving' = moving /\ outcome' = outcome
        BY <2>2 DEF HandlerStarts, Tick
    <3>2. CASE HandlerStarts
        BY <1>5, <3>1, <3>2 DEF HandlerStarts, AtHandler
    <3>3. CASE Tick
        BY <1>3, <1>5, <3>1, <3>3 DEF Tick
    <3> QED
        BY <2>2, <3>2, <3>3
  <2>3. CASE HandlerReturns
      BY <2>3 DEF HandlerReturns
  <2>4. CASE RequestIdLeaves \/ EqualizerLeaves \/ EqualizerWakes \/ OtherLeaves \/ Answered
    <3>1. moving # "in" /\ outcome' = outcome /\ handler' = handler
        BY <2>4 DEF RequestIdLeaves, EqualizerLeaves, EqualizerWakes, OtherLeaves,
                    Answered, StepOut, Leaving
    <3> QED
        BY <1>3, <1>5, <3>1
  <2>5. CASE UNCHANGED vars
    <3>1. moving' = moving /\ outcome' = outcome /\ handler' = handler
        BY <2>5 DEF vars
    <3> QED
        BY <1>3, <1>5, <3>1
  <2>6. CASE TimeoutFires
    <3>1. outcome'.status = 504
        BY <2>6 DEF TimeoutFires
    <3>2. ASSUME handler' = "finished" PROVE Before("Timeout", "Equalizer")
      <4>1. handler = "finished" /\ (moving = "sleeping" \/ Identifies)
          BY <2>6, <3>2 DEF TimeoutFires, Suspended
      <4>2. moving = "sleeping"
          BY <4>1 DEF Identifies, Entering, PlaceOK
      <4>3. chain[at] = "Equalizer" /\ at \in DOMAIN chain
          BY <4>2, ChainType DEF PlaceOK
      <4>4. Place("Timeout") \in DOMAIN chain /\ chain[Place("Timeout")] = "Timeout"
            /\ Place("Timeout") < at
          BY <2>6, PlaceFinds DEF TimeoutFires
      <4>5. Within("Timeout", "Equalizer")
          BY <4>3, <4>4 DEF Within
      <4> QED
          BY <4>5, BeforeIsWithin
    <3> QED
        BY <3>1, <3>2
  <2> QED
      BY <1>8, <2>1, <2>2, <2>3, <2>4, <2>5, <2>6 DEF Elsewhere
<1> QED
    BY <1>6, <1>7, <1>8, NextSplits

\* What is left behind on the way out is tagged and padded.
LEMMA LeftStep ==
    ASSUME TypeOK, PlaceOK, CarriedOK, LeftOK, [Next]_vars
    PROVE  LeftOK'
<1>0. PICK here \in Nat : here = at
    BY ChainType
<1> DEFINE Seen(i) == /\ chain[i] = "RequestId" => tagged
                      /\ chain[i] = "Equalizer" => clock >= entered["Equalizer"] + MinDuration
<1>1. chain' = chain
    BY TypeStep, ConfigSame
<1>2. DOMAIN chain = 1..Len(chain) /\ Len(chain) \in Nat /\ Handler = Len(chain) + 1
      /\ at \in Nat /\ clock \in Int
    BY ChainType DEF Handler, TypeOK
<1>3. LeftOK' <=>
        (outcome'.kind = "ok" /\ moving' # "in" =>
            \A i \in DOMAIN chain : at' < i /\ i < outcome'.made => Seen(i)')
    BY <1>1 DEF LeftOK
<1>4. LeftOK <=>
        (outcome.kind = "ok" /\ moving # "in" =>
            \A i \in DOMAIN chain : at < i /\ i < outcome.made => Seen(i))
    BY DEF LeftOK
<1>5. SUFFICES ASSUME outcome'.kind = "ok", moving' # "in",
                      NEW i \in DOMAIN chain, at' < i, i < outcome'.made
               PROVE  Seen(i)'
    BY <1>3
\* The stage at this place is left, if anything is; the others were left before.
<1>6. ASSUME outcome' = outcome, moving # "in", at' \in {at, at - 1},
             at' = at - 1 => Seen(here)', Seen(i) => Seen(i)'
      PROVE  Seen(i)'
  <2> HIDE DEF Seen
  <2>1. CASE at < i
      BY <1>4, <1>5, <1>6, <2>1
  <2>2. CASE ~ (at < i)
    <3>1. at' = at - 1 /\ i = here
        BY <1>0, <1>2, <1>5, <1>6, <2>2
    <3> QED
        BY <1>0, <1>6, <3>1
  <2> QED
      BY <2>1, <2>2
<1>7. ASSUME NEW s \in Stages, Crossed(s) PROVE FALSE
    BY <1>5, <1>7, CrossedMoves
<1>8. ASSUME NEW s \in Stages, Refused(s) PROVE FALSE
  <2>1. at' = at - 1 /\ outcome'.made = at
      BY <1>8, RefusedMoves
  <2> QED
      BY <1>2, <1>5, <2>1
<1>9. CASE Elsewhere
  <2>1. CASE HandlerRefuses
    <3>1. at' = Len(chain) /\ outcome'.made = Handler
        BY <2>1 DEF HandlerRefuses
    <3> QED
        BY <1>2, <1>5, <3>1
  <2>2. CASE HandlerReturns
    <3>1. at' = Len(chain) /\ outcome'.made = Handler
        BY <2>2 DEF HandlerReturns
    <3> QED
        BY <1>2, <1>5, <3>1
  <2>3. CASE HandlerStarts
      BY <1>5, <2>3 DEF HandlerStarts, AtHandler
  <2>4. CASE Tick
    <3>1. /\ moving' = moving /\ outcome' = outcome /\ at' = at
          /\ tagged' = tagged /\ entered' = entered /\ clock' = clock + 1
        BY <2>4 DEF Tick
    <3>2. entered["Equalizer"] + MinDuration \in Int
        BY PipelineAssumption DEF TypeOK
    <3>3. Seen(i) => Seen(i)'
        BY <1>0, <1>1, <1>2, <3>1, <3>2
    <3> HIDE DEF Seen
    <3>4. at' # at - 1
        BY <1>2, <3>1
    <3> QED
        BY <1>5, <1>6, <3>1, <3>3, <3>4
  <2>5. CASE RequestIdLeaves
    <3>1. /\ outcome' = outcome /\ moving' = moving /\ moving = "out" /\ at' = at - 1
          /\ clock' = clock /\ entered' = entered
          /\ chain[at] = "RequestId" /\ tagged' = (outcome.kind = "ok")
        BY <2>5 DEF RequestIdLeaves, StepOut, Leaving
    <3>2. tagged'
        BY <1>5, <3>1
    <3>3. Seen(here)' /\ (Seen(i) => Seen(i)')
        BY <1>0, <1>1, <1>2, <3>1, <3>2
    <3> HIDE DEF Seen
    <3> QED
        BY <1>6, <3>1, <3>3
  <2>6. CASE EqualizerLeaves
    <3>1. /\ outcome' = outcome /\ moving = "out" /\ chain[at] = "Equalizer"
          /\ tagged' = tagged /\ clock' = clock /\ entered' = entered
        BY <2>6 DEF EqualizerLeaves, StepOut, Leaving
    <3>2. Seen(i) => Seen(i)'
        BY <1>1, <3>1
    <3>3. CASE at' = at
      <4>1. at' # at - 1
          BY <1>2, <3>3
      <4> HIDE DEF Seen
      <4> QED
          BY <1>6, <3>1, <3>2, <3>3, <4>1
    <3>4. CASE at' # at
      <4>1. at' = at - 1 /\ (outcome.kind # "ok" \/ Padded)
          BY <2>6, <3>4 DEF EqualizerLeaves, StepOut
      <4>2. clock >= entered["Equalizer"] + MinDuration
          BY <1>5, <3>1, <4>1 DEF Padded
      <4>3. Seen(here)'
          BY <1>0, <1>1, <3>1, <4>1, <4>2
      <4> HIDE DEF Seen
      <4> QED
          BY <1>6, <3>1, <3>2, <4>1, <4>3
    <3> QED
        BY <3>3, <3>4
  <2>7. CASE EqualizerWakes
    <3>1. /\ outcome' = outcome /\ moving = "sleeping" /\ at' = at - 1
          /\ tagged' = tagged /\ clock' = clock /\ entered' = entered
          /\ clock >= entered["Equalizer"] + MinDuration /\ chain[at] = "Equalizer"
        BY <2>7 DEF EqualizerWakes, StepOut, PlaceOK, Padded
    <3>2. Seen(here)' /\ (Seen(i) => Seen(i)')
        BY <1>0, <1>1, <3>1
    <3> HIDE DEF Seen
    <3> QED
        BY <1>6, <3>1, <3>2
  <2>8. CASE OtherLeaves
    <3>1. /\ outcome' = outcome /\ moving = "out" /\ at' = at - 1
          /\ tagged' = tagged /\ clock' = clock /\ entered' = entered
          /\ chain[at] \notin {"RequestId", "Equalizer"}
        BY <2>8 DEF OtherLeaves, StepOut
    <3>2. Seen(here)' /\ (Seen(i) => Seen(i)')
        BY <1>0, <1>1, <3>1
    <3> HIDE DEF Seen
    <3> QED
        BY <1>6, <3>1, <3>2
  <2>9. CASE TimeoutFires
      BY <1>5, <2>9 DEF TimeoutFires
  <2>10. CASE Answered \/ UNCHANGED vars
    <3>1. /\ outcome' = outcome /\ at' = at
          /\ tagged' = tagged /\ clock' = clock /\ entered' = entered
          /\ moving = "out" \/ moving' = moving
        BY <2>10 DEF Answered, vars
    <3>2. Seen(i) => Seen(i)'
        BY <1>1, <3>1
    <3>3. at' # at - 1
        BY <1>2, <3>1
    <3> HIDE DEF Seen
    <3> QED
        BY <1>5, <1>6, <3>1, <3>2, <3>3
  <2> QED
      BY <1>9, <2>1, <2>2, <2>3, <2>4, <2>5, <2>6, <2>7, <2>8, <2>9, <2>10 DEF Elsewhere
<1> QED
    BY <1>7, <1>8, <1>9, NextSplits

-------------------------------------------------------------------------------
(* The client *)

LEMMA ClientStays ==
    ASSUME TypeOK, PlaceOK, CarriedOK, ClientOK, [Next]_vars
    PROVE  ClientOK'
<1>1. request' = request
    BY TypeStep, ConfigSame
<1>2. ClientStep
  <2>1. ASSUME NEW s \in Stages, Crossed(s) PROVE ClientStep
      BY <2>1 DEF Crossed
  <2>2. ASSUME NEW s \in Stages, Refused(s) PROVE ClientStep
      BY <2>2, RefusedMoves DEF ClientStep
  <2>3. ASSUME Elsewhere PROVE ClientStep
      BY <2>3, ElsewhereKeeps DEF ClientStep
  <2> QED
      BY <2>1, <2>2, <2>3, NextSplits
<1> QED
    BY <1>1, <1>2 DEF ClientStep, ClientOK

-------------------------------------------------------------------------------
(* The theorems *)

THEOREM PipelineInvariant == Spec => []PInv
<1>1. Init => PInv
  <2> SUFFICES ASSUME Init PROVE PInv
      OBVIOUS
  <2> USE DEF Init
  <2>1. chain \in Seq(Stages) /\ Len(chain) \in Nat /\ DOMAIN chain = 1..Len(chain)
      BY PipelineAssumption
  <2>2. TypeOK
    <3>1. at \in 0..Handler
        BY <2>1 DEF Handler
    <3>2. outcome \in [kind : {"none", "ok", "err", "panic"},
                       status : {0, 200, 400, 401, 403, 429, 500, 504}, made : 0..Handler]
        BY <2>1 DEF Handler
    <3>3. entered \in [{"Timeout", "Equalizer"} -> 0..Horizon] /\ clock \in 0..Horizon
        BY PipelineAssumption DEF Horizon
    <3>4. table \in Tables \cup {<< >>}
        OBVIOUS
    <3> QED
        BY <3>1, <3>2, <3>3, <3>4 DEF TypeOK
  <2>3. PlaceOK
    <3>1. perm_id \in Nat
        BY PipelineAssumption
    <3> QED
        BY <3>1 DEF PlaceOK
  <2>4. \A s : ~ Passed(s)
      BY <2>1 DEF Passed
  <2>5. CarriedOK /\ AdmittedOK
      BY <2>4 DEF CarriedOK, AdmittedOK
  <2>6. HandlerIsGuarded /\ ServedOK /\ LeftOK /\ ClientOK
      BY DEF HandlerIsGuarded, ServedOK, LeftOK, ClientOK
  <2> QED
      BY <2>2, <2>3, <2>5, <2>6 DEF PInv
<1>2. PInv /\ [Next]_vars => PInv'
    BY TypeStep, CarriedStep, AdmittedStep, GuardedStep, ServedStep, LeftStep, ClientStays
    DEF PInv
<1> QED
    BY <1>1, <1>2, PTL DEF Spec

\* Every variable keeps its type.
THEOREM TypeCorrect == Spec => []TypeOK
<1>1. PInv => TypeOK
    BY DEF PInv
<1> QED
    BY <1>1, PipelineInvariant, PTL

\* The handler runs only for a request that every guard of the chain lets through,
\* whichever stages the chain has and in whichever order.
THEOREM GuardedInEveryOrder == Spec => []HandlerIsGuarded
<1>1. PInv => HandlerIsGuarded
    BY DEF PInv
<1> QED
    BY <1>1, PipelineInvariant, PTL

\* A chain in the documented order serves every legitimate request, but for the
\* deadline and for a limiter that counts it.
THEOREM DocumentedIsEnough == Spec => []DocumentedOrderServes
<1>1. PInv => DocumentedOrderServes
    BY DEF PInv, ServedOK, DocumentedOrderServes
<1> QED
    BY <1>1, PipelineInvariant, PTL

\* A response carries its id and its padding whichever stage made it.
THEOREM TaggedAndPadded == Spec => []ResponsesAreTaggedAndPadded
<1>1. PInv => ResponsesAreTaggedAndPadded
  <2> SUFFICES ASSUME PInv, outcome.kind = "ok", moving = "over"
               PROVE  /\ PassedBy("RequestId") => tagged
                      /\ PassedBy("Equalizer") =>
                           clock >= entered["Equalizer"] + MinDuration
      BY DEF ResponsesAreTaggedAndPadded, PassedBy, Padded
  <2>1. at = 0 /\ TypeOK
      BY DEF PInv, PlaceOK
  <2>2. ASSUME NEW s, PassedBy(s)
        PROVE  /\ Place(s) \in DOMAIN chain /\ chain[Place(s)] = s
               /\ at < Place(s) /\ Place(s) < outcome.made
      BY <2>1, <2>2, PlaceFinds, ChainType DEF PassedBy
  <2> QED
      BY <2>2 DEF PInv, LeftOK
<1> QED
    BY <1>1, PipelineInvariant, PTL

\* The resolved client is the peer, or reached from it through trusted proxies and
\* hops that are no addresses, in the line that is read.
THEOREM ReachedByTrust == Spec => []ClientIsReachedByTrust
<1>1. PInv => ClientIsReachedByTrust
  <2> SUFFICES ASSUME PInv, client # Unknown
               PROVE  ClientIsReachedByTrust
      BY DEF ClientIsReachedByTrust
  <2>1. request.peer # Unknown /\ client = ClientOf(request.peer, request.forwarded)
      BY DEF PInv, ClientOK
  <2>2. request.peer \in Addresses /\ request.forwarded \in Forwarded
      BY <2>1, ConfigType DEF PInv
  <2>3. ReachedOver(client, request.peer, LineRead(request.forwarded))
      BY <2>1, <2>2, ClientOfIsTrusted
  <2> QED
      BY <2>3 DEF ClientIsReachedByTrust, ReachedOver
<1> QED
    BY <1>1, PipelineInvariant, PTL

-------------------------------------------------------------------------------
(* Tokens: what lies behind "a good token" and the claims in the extensions.  Its *)
(* specification has variables of its own.                                       *)

TurnedAway == {"unauthorized", "no validator"}
Asks(j, check, kind) == stack[j].check = check /\ stack[j].claims = kind

\* Layer j has judged the token, and was right to accept it.
Justified(j) ==
    /\ j \in 1..Len(stack)
    /\ stack[j].validator # Absent /\ Presented = "token"
    /\ Trusts(stack[j].validator)
    /\ Deserialises(token.claims.kind, stack[j].claims)
    /\ token.claims.exp + Leeway >= judged[j] + Party[stack[j].validator].ahead

\* A token says who signed what for whom, and when.
TokenOK ==
    /\ Presented = "token" => token # Absent
    /\ token # Absent =>
         \E s \in Signers, kind \in Kinds, aud \in Audiences, at0 \in Nat :
             token = [claims |-> [kind |-> kind, aud |-> aud,
                                  exp |-> at0 + Party[s].ahead + Lifetime],
                      alg |-> Party[s].alg, key |-> Party[s].key,
                      by |-> s, issued |-> at0]

\* Every layer reached has judged, in order; the one that turned the request away
\* is the one reached.
LayersOK ==
    /\ now \in Nat /\ stack \in Stacks
    /\ layer \in 0..(Len(stack) + 1)
    /\ judged \in Seq(Nat)
    /\ Len(judged) = IF layer = 0 THEN 0 ELSE IF answer \in TurnedAway THEN layer ELSE layer - 1
    /\ answer \in {"none", "served"} \cup TurnedAway
    /\ answer \in TurnedAway => layer \in 1..Len(stack)
    /\ answer = "served" => layer = Len(stack) + 1
    /\ layer = 0 => Presented = "absent"

\* The extensions hold the claims that an Auth let in.
ClaimsOK ==
    \A kind : kind \in claims <=>
        \E j \in 1..Len(stack) : j < layer /\ Asks(j, "Auth", kind)

\* Who was let in was let in by a layer that was right to.
LetInOK ==
    \A i \in 1..Len(stack) : i < layer => Justified(Decider(i))

\* Who was turned away was turned away by a layer that judged the token itself.
RefusedOK ==
    /\ answer \in TurnedAway => Reached.claims \notin claims
    /\ answer = "unauthorized" =>
         /\ Reached.validator # Absent
         /\ Presented = "token" =>
              \/ ~ Trusts(Reached.validator)
              \/ ~ Deserialises(token.claims.kind, Reached.claims)
              \/ token.claims.exp + Leeway
                   < judged[layer] + Party[Reached.validator].ahead

TokensInv == TokenOK /\ LayersOK /\ ClaimsOK /\ LetInOK /\ RefusedOK

\* What the assumptions say of parties, numbers and layers.
LEMMA TokensTypes ==
    ASSUME LayersOK
    PROVE  /\ \A p \in Signers \cup Validators :
                Party[p].ahead \in Nat /\ Party[p].ahead <= MaxAhead
           /\ Lifetime \in Nat /\ Leeway \in Nat /\ MaxAhead \in Nat /\ MaxAhead <= Leeway
           /\ Absent \notin Validators
           /\ Len(stack) \in Nat
           /\ \A j \in 1..Len(stack) :
                stack[j].validator \in Validators \cup {Absent} /\ stack[j].claims \in Kinds
<1>1. {Lifetime, Leeway, MaxAhead, MaxNow} \subseteq Nat
      /\ (\A p \in Signers \cup Validators : Party[p].ahead \in 0..MaxAhead)
      /\ Stacks \subseteq Seq(Layers) /\ Absent \notin Validators /\ MaxAhead <= Leeway
    BY TokensAssumption
<1>2. stack \in Seq(Layers)
    BY <1>1 DEF LayersOK
<1>3. Len(stack) \in Nat /\ \A j \in 1..Len(stack) : stack[j] \in Layers
    BY <1>2
<1>4. \A j \in 1..Len(stack) :
        stack[j].validator \in Validators \cup {Absent} /\ stack[j].claims \in Kinds
    BY <1>3 DEF Layers
<1>5. Lifetime \in Nat /\ Leeway \in Nat /\ MaxAhead \in Nat
    BY <1>1
<1>6. \A p \in Signers \cup Validators : Party[p].ahead \in Nat /\ Party[p].ahead <= MaxAhead
    BY <1>1, <1>5
<1> QED
    BY <1>1, <1>3, <1>4, <1>5, <1>6

\* The decider of a layer is the outermost Auth for its claims, which decides for
\* itself; else the layer.
LEMMA DeciderIsOutermost ==
    ASSUME Len(stack) \in Nat, NEW i \in 1..Len(stack)
    PROVE  /\ (\A j \in 1..(i - 1) : ~ Asks(j, "Auth", stack[i].claims)) => Decider(i) = i
           /\ \A j \in 1..i : Asks(j, "Auth", stack[i].claims) =>
                /\ Decider(i) \in 1..j
                /\ Asks(Decider(i), "Auth", stack[i].claims)
                /\ Decider(Decider(i)) = Decider(i)
<1> DEFINE auths(k) == {j \in 1..k : stack[j].check = "Auth" /\ stack[j].claims = stack[k].claims}
<1>1. \A k : Decider(k) = IF auths(k) = {} THEN k
                            ELSE CHOOSE j \in auths(k) : \A n \in auths(k) : j <= n
    BY DEF Decider
<1>2. ASSUME NEW k \in 1..Len(stack), auths(k) # {}
      PROVE  Decider(k) \in auths(k) /\ \A n \in auths(k) : Decider(k) <= n
  <2>1. auths(k) \in SUBSET Nat
      OBVIOUS
  <2>2. \E m \in auths(k) : \A n \in auths(k) : m <= n
      BY <1>2, <2>1, LeastOf
  <2>3. Decider(k) = CHOOSE j \in auths(k) : \A n \in auths(k) : j <= n
      BY <1>1, <1>2
  <2> QED
      BY <2>2, <2>3
<1>3. ASSUME \A j \in 1..(i - 1) : ~ Asks(j, "Auth", stack[i].claims)
      PROVE  Decider(i) = i
  <2>1. \A j \in auths(i) : j = i
      BY <1>3 DEF Asks
  <2> QED
      BY <1>1, <1>2, <2>1
<1>4. ASSUME NEW j \in 1..i, Asks(j, "Auth", stack[i].claims)
      PROVE  /\ Decider(i) \in 1..j
             /\ Asks(Decider(i), "Auth", stack[i].claims)
             /\ Decider(Decider(i)) = Decider(i)
  <2>1. j \in auths(i)
      BY <1>4 DEF Asks
  <2>2. PICK d \in 1..i : d = Decider(i) /\ d \in auths(i) /\ \A n \in auths(i) : d <= n
      BY <1>2, <2>1
  <2>3. d \in 1..j /\ Asks(d, "Auth", stack[i].claims) /\ stack[d].claims = stack[i].claims
      BY <2>1, <2>2 DEF Asks
  <2>4. d \in auths(d) /\ auths(d) \subseteq auths(i) /\ d \in 1..Len(stack)
      BY <2>2, <2>3
  <2>5. Decider(d) = d
    <3>1. Decider(d) \in auths(d) /\ Decider(d) <= d
        BY <1>2, <2>4
    <3>2. Decider(d) \in 1..d /\ d <= Decider(d)
        BY <2>2, <2>4, <3>1
    <3> QED
        BY <3>1, <3>2
  <2> QED
      BY <2>2, <2>3, <2>5
<1> QED
    BY <1>3, <1>4

-------------------------------------------------------------------------------
(* The steps *)

\* A layer lets the request through, or turns it away.
Passes == Known \/ Admit
Turns == Refuse \/ NoValidator

\* A step lets through, turns away, or is none of the layers'.
LEMMA TokenStepKinds ==
    ASSUME [TokensNext]_tokensVars
    PROVE  TimePasses \/ Send \/ (\E s \in Signers : Issue(s)) \/ Passes \/ Turns
             \/ UNCHANGED <<now, token, stack, header, cookie, layer, claims, answer, judged>>
BY DEF TokensNext, AtRest, tokensVars, sent, Passes, Turns

\* What a layer that lets the request through does.
LEMMA PassesMoves ==
    ASSUME LayersOK, Passes
    PROVE  /\ now' = now /\ token' = token /\ stack' = stack /\ header' = header
           /\ cookie' = cookie
           /\ layer \in 1..Len(stack) /\ answer = "none" /\ layer' = layer + 1
           /\ answer' = IF layer = Len(stack) THEN "served" ELSE "none"
           /\ judged' = Append(judged, now)
BY DEF Passes, Known, Admit, Go, Judging, Waiting, sent

\* What a layer that turns the request away does.
LEMMA TurnsMoves ==
    ASSUME LayersOK, Turns
    PROVE  /\ now' = now /\ token' = token /\ stack' = stack /\ header' = header
           /\ cookie' = cookie /\ claims' = claims
           /\ layer \in 1..Len(stack) /\ answer = "none" /\ layer' = layer
           /\ answer' \in TurnedAway /\ Reached.claims \notin claims
           /\ judged' = Append(judged, now)
BY DEF Turns, Refuse, NoValidator, Reject, Judging, Waiting, sent,
       TurnedAway

\* A token, once issued, stays.
LEMMA TokenStep ==
    ASSUME LayersOK, TokenOK, [TokensNext]_tokensVars
    PROVE  TokenOK' /\ (token # Absent => token' = token)
<1>1. CASE \E s \in Signers : Issue(s)
  <2>1. PICK s \in Signers : Issue(s)
      BY <1>1
  <2>2. PICK kind \in Kinds, aud \in Audiences :
             token' = Sign(s, NewClaims(kind, aud, Clock(s)))
      BY <2>1 DEF Issue
  <2>3. token = Absent /\ header' = header /\ cookie' = cookie
      BY <2>1 DEF Issue, sent
  <2>4. Presented' # "token"
      BY <2>3 DEF TokenOK, Presented
  <2>5. now \in Nat
      BY DEF LayersOK
  <2>6. token' = [claims |-> [kind |-> kind, aud |-> aud,
                              exp |-> now + Party[s].ahead + Lifetime],
                  alg |-> Party[s].alg, key |-> Party[s].key, by |-> s, issued |-> now]
      BY <2>2 DEF Sign, NewClaims, Clock
  <2>7. token' # Absent =>
         \E s0 \in Signers, kind0 \in Kinds, aud0 \in Audiences, at0 \in Nat :
             token' = [claims |-> [kind |-> kind0, aud |-> aud0,
                                   exp |-> at0 + Party[s0].ahead + Lifetime],
                       alg |-> Party[s0].alg, key |-> Party[s0].key,
                       by |-> s0, issued |-> at0]
      BY <2>5, <2>6
  <2> QED
      BY <2>3, <2>4, <2>7 DEF TokenOK
<1>2. CASE ~ \E s \in Signers : Issue(s)
  <2>1. token' = token
      BY <1>2, TokenStepKinds, PassesMoves, TurnsMoves DEF TimePasses, Send
  <2>2. Presented' = "token" => token # Absent
    <3>1. CASE Send
        BY <3>1 DEF Send, Presented
    <3>2. CASE ~ Send
      <4>1. header' = header /\ cookie' = cookie
          BY <1>2, <3>2, TokenStepKinds, PassesMoves, TurnsMoves DEF TimePasses, sent
      <4> QED
          BY <4>1 DEF TokenOK, Presented
    <3> QED
        BY <3>1, <3>2
  <2> QED
      BY <2>1, <2>2 DEF TokenOK
<1> QED
    BY <1>1, <1>2

\* While a layer is waiting, all those before it have judged.
LEMMA AllBeforeJudged ==
    ASSUME LayersOK, Len(stack) \in Nat, layer \in 1..Len(stack), answer = "none"
    PROVE  Len(judged) = layer - 1 /\ judged \in Seq(Nat)
<1>1. answer \notin TurnedAway
    BY DEF TurnedAway
<1>2. layer # 0
    OBVIOUS
<1> QED
    BY <1>1, <1>2 DEF LayersOK

\* Layers are reached in order and each reached judges once.
LEMMA LayersStep ==
    ASSUME LayersOK, [TokensNext]_tokensVars
    PROVE  LayersOK'
<1>0. Len(stack) \in Nat
    BY TokensTypes
<1>1. CASE TimePasses
    BY <1>1 DEF TimePasses, sent, Presented, LayersOK, TurnedAway
<1>2. CASE Send
  <2>1. layer = 0 /\ layer' = 1 /\ now' = now /\ stack' = stack /\ answer' = answer
        /\ judged' = judged
      BY <1>2 DEF Send
  <2>2. answer = "none"
      BY <1>0, <2>1 DEF LayersOK
  <2> QED
      BY <1>0, <2>1, <2>2 DEF LayersOK, TurnedAway
<1>3. CASE \E s \in Signers : Issue(s)
    BY <1>3 DEF Issue, sent, Presented, LayersOK, TurnedAway
<1>4. CASE Passes
  <2>1. /\ now' = now /\ stack' = stack
        /\ layer \in 1..Len(stack) /\ answer = "none" /\ layer' = layer + 1
        /\ answer' = IF layer = Len(stack) THEN "served" ELSE "none"
        /\ judged' = Append(judged, now)
      BY <1>4, PassesMoves
  <2>2. judged' \in Seq(Nat) /\ Len(judged') = Len(judged) + 1
      BY <2>1 DEF LayersOK
  <2>3. Len(judged) = layer - 1
      BY <1>0, <2>1, AllBeforeJudged
  <2>4. now \in Nat /\ stack \in Stacks
      BY DEF LayersOK
  <2>5. layer' \in 0..(Len(stack) + 1) /\ layer' # 0 /\ layer' - 1 = layer
        /\ Len(judged') = layer' - 1
      BY <1>0, <2>1, <2>2, <2>3
  <2>6. answer' \in {"none", "served"} /\ (answer' = "served" => layer' = Len(stack) + 1)
      BY <2>1
  <2> QED
      BY <2>1, <2>2, <2>4, <2>5, <2>6 DEF LayersOK, TurnedAway
<1>5. CASE Turns
  <2>1. /\ now' = now /\ stack' = stack
        /\ layer \in 1..Len(stack) /\ answer = "none" /\ layer' = layer
        /\ answer' \in TurnedAway /\ judged' = Append(judged, now)
      BY <1>5, TurnsMoves
  <2>2. judged' \in Seq(Nat) /\ Len(judged') = Len(judged) + 1
      BY <2>1 DEF LayersOK
  <2>3. Len(judged) = layer - 1
      BY <1>0, <2>1, AllBeforeJudged
  <2>4. layer # 0 /\ Len(judged') = layer
      BY <1>0, <2>1, <2>2, <2>3
  <2> QED
      BY <2>1, <2>2, <2>4 DEF LayersOK, TurnedAway
<1>6. CASE UNCHANGED <<now, token, stack, header, cookie, layer, claims, answer, judged>>
    BY <1>6 DEF LayersOK, Presented
<1> QED
    BY <1>1, <1>2, <1>3, <1>4, <1>5, <1>6, TokenStepKinds

\* Justified, with the judgement of layer j unchanged.
LEMMA JustifiedKept ==
    ASSUME TokenOK, LayersOK, NEW j, Justified(j),
           token # Absent => token' = token, stack' = stack,
           Presented' = Presented, judged'[j] = judged[j]
    PROVE  Justified(j)'
<1>1. token' = token
    BY DEF TokenOK, Justified
<1> QED
    BY <1>1 DEF Justified, Trusts

\* The deciders depend on the stack alone.
LEMMA DeciderKept ==
    ASSUME stack' = stack
    PROVE  \A i : Decider(i)' = Decider(i)
BY DEF Decider

\* The extensions gain claims only where an Auth lets the request in.
LEMMA ClaimsStep ==
    ASSUME LayersOK, ClaimsOK, [TokensNext]_tokensVars
    PROVE  ClaimsOK'
<1>0. Len(stack) \in Nat /\ layer \in Nat
    BY TokensTypes DEF LayersOK
<1>1. CASE Passes
  <2> DEFINE kind == stack[layer].claims
  <2>1. layer \in 1..Len(stack) /\ layer' = layer + 1 /\ stack' = stack
      BY <1>1, PassesMoves
  <2>2. \A j \in 1..Len(stack) : j < layer + 1 <=> j < layer \/ j = layer
      BY <1>0
  <2>3. \A k : (\E j \in 1..Len(stack) : j < layer + 1 /\ Asks(j, "Auth", k))
                 <=> k \in claims \/ Asks(layer, "Auth", k)
      BY <2>1, <2>2 DEF ClaimsOK
  <2>4. \A k : k \in claims' <=> k \in claims \/ Asks(layer, "Auth", k)
    <3>1. CASE Known
      <4>1. claims' = claims /\ kind \in claims
          BY <3>1 DEF Known, Reached
      <4> QED
          BY <4>1 DEF Asks
    <3>2. CASE Admit
      <4>1. claims' = IF stack[layer].check = "Auth" THEN claims \cup {kind} ELSE claims
          BY <3>2 DEF Admit, Reached
      <4> QED
          BY <4>1 DEF Asks
    <3> QED
        BY <1>1, <3>1, <3>2 DEF Passes
  <2>5. \A j, k : Asks(j, "Auth", k)' <=> Asks(j, "Auth", k)
      BY <2>1 DEF Asks
  <2> QED
      BY <2>1, <2>3, <2>4, <2>5 DEF ClaimsOK
<1>2. CASE Send
  <2>1. layer = 0 /\ layer' = 1 /\ stack' = stack /\ claims' = claims
      BY <1>2 DEF Send
  <2>2. \A j \in 1..Len(stack) : ~ (j < 0) /\ ~ (j < 1)
      BY <1>0
  <2> QED
      BY <2>1, <2>2 DEF ClaimsOK, Asks
<1>3. CASE ~ Passes /\ ~ Send
  <2>1. layer' = layer /\ stack' = stack /\ claims' = claims
      BY <1>3, TokenStepKinds, TurnsMoves DEF TimePasses, Issue, sent
  <2> QED
      BY <2>1 DEF ClaimsOK, Asks
<1> QED
    BY <1>1, <1>2, <1>3

\* No layer decides for one outside of it.
LEMMA DeciderBelow ==
    ASSUME Len(stack) \in Nat, NEW i \in 1..Len(stack)
    PROVE  Decider(i) \in 1..i
<1>1. CASE \E j \in 1..i : Asks(j, "Auth", stack[i].claims)
    BY <1>1, DeciderIsOutermost
<1>2. CASE ~ \E j \in 1..i : Asks(j, "Auth", stack[i].claims)
    BY <1>2, DeciderIsOutermost
<1> QED
    BY <1>1, <1>2

\* What a step leaves alone once the request is sent.
LEMMA SentStays ==
    ASSUME LayersOK, [TokensNext]_tokensVars, layer # 0
    PROVE  /\ stack' = stack /\ header' = header /\ cookie' = cookie
           /\ \A j \in 1..(layer - 1) : judged'[j] = judged[j]
<1>0. Len(stack) \in Nat /\ layer \in Nat
    BY TokensTypes DEF LayersOK
<1>1. CASE Passes \/ Turns
  <2>1. /\ layer \in 1..Len(stack) /\ answer = "none" /\ judged' = Append(judged, now)
        /\ stack' = stack /\ header' = header /\ cookie' = cookie
      BY <1>1, PassesMoves, TurnsMoves
  <2>2. Len(judged) = layer - 1 /\ judged \in Seq(Nat)
      BY <1>0, <2>1, AllBeforeJudged
  <2> QED
      BY <1>0, <2>1, <2>2
<1>2. CASE ~ Passes /\ ~ Turns
    BY <1>2, TokenStepKinds DEF TimePasses, Send, Issue, sent
<1> QED
    BY <1>1, <1>2

\* Who was let in stays let in by a layer that was right to.
LEMMA JustifiedStays ==
    ASSUME TokenOK, LayersOK, LetInOK, [TokensNext]_tokensVars,
           NEW i \in 1..Len(stack), i < layer
    PROVE  Justified(Decider(i))'
<1>0. Len(stack) \in Nat /\ layer \in Nat
    BY TokensTypes DEF LayersOK
<1>1. layer # 0
    BY <1>0
<1>2. /\ stack' = stack /\ Presented' = Presented
      /\ \A j \in 1..(layer - 1) : judged'[j] = judged[j]
    BY <1>1, SentStays DEF Presented
<1>3. PICK d \in 1..i : d = Decider(i)
    BY <1>0, DeciderBelow
<1>4. Justified(d) /\ judged'[d] = judged[d]
    BY <1>0, <1>2, <1>3 DEF LetInOK
<1>5. Justified(d)'
    BY <1>2, <1>4, TokenStep, JustifiedKept
<1> QED
    BY <1>2, <1>3, <1>5, DeciderKept

\* A layer that takes claims from the extensions has a justified decider; one that
\* judges is its own decider, and was right.
LEMMA PassesJustified ==
    ASSUME TokenOK, LayersOK, ClaimsOK, LetInOK, [TokensNext]_tokensVars,
           Passes, NEW n \in 1..Len(stack), n = layer
    PROVE  Justified(Decider(n))'
<1>0. Len(stack) \in Nat
    BY TokensTypes
<1>1. /\ stack' = stack /\ header' = header /\ cookie' = cookie /\ answer = "none"
      /\ judged' = Append(judged, now) /\ token' = token
    BY PassesMoves
<1>2. Presented' = Presented /\ Decider(n)' = Decider(n)
    BY <1>1, DeciderKept DEF Presented
<1>3. CASE Known
  <2>1. stack[n].claims \in claims
      BY <1>3 DEF Known, Reached
  <2>2. PICK j \in 1..Len(stack) : j < n /\ Asks(j, "Auth", stack[n].claims)
      BY <2>1 DEF ClaimsOK
  <2>3. PICK d \in 1..j : d = Decider(n) /\ Decider(d) = d
      BY <1>0, <2>2, DeciderIsOutermost
  <2>4. d \in 1..Len(stack) /\ d < layer
      BY <1>0, <2>2
  <2>5. Justified(Decider(d))'
      BY <2>4, JustifiedStays
  <2>6. Decider(d)' = d
      BY <1>1, <2>3, DeciderKept
  <2>7. Justified(d)'
      BY <2>5, <2>6
  <2> QED
      BY <1>2, <2>3, <2>7
<1>4. CASE Admit
  <2>1. /\ stack[n].claims \notin claims /\ stack[n].validator # Absent
        /\ Validates(stack[n].validator, stack[n].claims)
      BY <1>4 DEF Admit, Judging, Reached
  <2>2. \A j \in 1..(n - 1) : ~ Asks(j, "Auth", stack[n].claims)
      BY <1>0, <2>1 DEF ClaimsOK
  <2>3. Decider(n) = n
      BY <1>0, <2>2, DeciderIsOutermost
  <2>4. Len(judged) = n - 1 /\ judged \in Seq(Nat)
      BY <1>0, <1>1, AllBeforeJudged
  <2>5. judged'[n] = now
      BY <1>1, <2>4 DEF LayersOK
  <2>6. Trusts(stack[n].validator)' = Trusts(stack[n].validator)
      BY <1>1 DEF Trusts
  <2>7. Justified(n)'
      BY <1>1, <1>2, <2>1, <2>5 DEF Justified, Validates, Trusts, Clock
  <2> QED
      BY <1>2, <2>3, <2>7
<1> QED
    BY <1>3, <1>4 DEF Passes

\* Each layer passed has a decider that was right, after any step.
LEMMA LetInStep ==
    ASSUME TokenOK, LayersOK, ClaimsOK, LetInOK, [TokensNext]_tokensVars
    PROVE  LetInOK'
<1>0. Len(stack) \in Nat /\ layer \in Nat
    BY TokensTypes DEF LayersOK
<1>1. stack' = stack
    BY TokenStepKinds, PassesMoves, TurnsMoves DEF TimePasses, Send, Issue, sent
<1>2. ASSUME NEW i \in 1..Len(stack), i < layer'
      PROVE  Justified(Decider(i))'
  <2>1. CASE i < layer
      BY <2>1, JustifiedStays
  <2>2. CASE ~ (i < layer)
    <3>1. ~ Send
        BY <1>0, <1>2 DEF Send
    <3>2. Passes
        BY <1>2, <2>2, <3>1, TokenStepKinds, TurnsMoves DEF TimePasses, Issue, sent
    <3>3. i = layer
        BY <1>0, <1>2, <2>2, <3>2, PassesMoves
    <3> QED
        BY <3>2, <3>3, PassesJustified
  <2> QED
      BY <2>1, <2>2
<1> QED
    BY <1>1, <1>2 DEF LetInOK

\* A refusal is recorded with what the layer found, and stays; so does the token.
LEMMA RefusedStep ==
    ASSUME TokenOK, LayersOK, RefusedOK, [TokensNext]_tokensVars
    PROVE  RefusedOK'
<1>0. Len(stack) \in Nat /\ layer \in Nat /\ now \in Nat
    BY TokensTypes DEF LayersOK
<1>1. CASE Turns
  <2>1. PICK n \in 1..Len(stack) : n = layer
      BY <1>1, TurnsMoves
  <2>2. /\ now' = now /\ token' = token /\ stack' = stack /\ header' = header
        /\ cookie' = cookie /\ claims' = claims /\ layer' = n /\ answer = "none"
        /\ judged' = Append(judged, now) /\ stack[n].claims \notin claims
      BY <1>1, <2>1, TurnsMoves DEF Reached
  <2>3. Len(judged) = n - 1 /\ judged \in Seq(Nat)
      BY <1>0, <2>1, <2>2, AllBeforeJudged
  <2>4. judged'[n] = now
      BY <1>0, <2>2, <2>3
  <2>5. Presented' = Presented /\ Reached' = stack[n]
      BY <2>2 DEF Presented, Reached
  <2>6. Trusts(stack[n].validator)' = Trusts(stack[n].validator)
      BY <2>2 DEF Trusts
  <2>7. answer' = "unauthorized" =>
          /\ stack[n].validator # Absent
          /\ ~ Validates(stack[n].validator, stack[n].claims)
      BY <1>1, <2>1 DEF Turns, Refuse, NoValidator, Reject, Reached
  <2>8. Presented = "token" =>
          token.claims.exp \in Int /\ (stack[n].validator # Absent => Party[stack[n].validator].ahead \in Int)
    <3>1. ASSUME Presented = "token" PROVE token.claims.exp \in Int
      <4>1. PICK s \in Signers, at0 \in Nat :
              token.claims.exp = at0 + Party[s].ahead + Lifetime
          BY <3>1 DEF TokenOK
      <4>2. Party[s].ahead \in Nat /\ Lifetime \in Nat
          BY TokensTypes
      <4> QED
          BY <4>1, <4>2
    <3>2. stack[n].validator # Absent => Party[stack[n].validator].ahead \in Nat
        BY TokensTypes
    <3> QED
        BY <3>1, <3>2
  <2>9. Leeway \in Nat
      BY TokensTypes
  <2>10. answer' = "unauthorized" /\ Presented = "token" =>
           \/ ~ Trusts(stack[n].validator)
           \/ ~ Deserialises(token.claims.kind, stack[n].claims)
           \/ token.claims.exp + Leeway < now + Party[stack[n].validator].ahead
    <3>1. ASSUME answer' = "unauthorized", Presented = "token", Trusts(stack[n].validator),
                 Deserialises(token.claims.kind, stack[n].claims)
          PROVE  token.claims.exp + Leeway < now + Party[stack[n].validator].ahead
      <4>1. ~ (token.claims.exp + Leeway >= now + Party[stack[n].validator].ahead)
          BY <2>7, <3>1 DEF Validates, Clock
      <4>2. PICK e \in Int, a \in Int : /\ e = token.claims.exp
                                       /\ a = Party[stack[n].validator].ahead
          BY <2>7, <2>8, <3>1
      <4>3. ~ (e + Leeway >= now + a) => e + Leeway < now + a
          BY <1>0, <2>9
      <4> QED
          BY <4>1, <4>2, <4>3
    <3> QED
        BY <3>1
  <2>11. Reached'.claims \notin claims'
      BY <2>2, <2>5
  <2>12. answer' = "unauthorized" =>
           /\ Reached'.validator # Absent
           /\ Presented' = "token" =>
                \/ ~ Trusts(stack[n].validator)'
                \/ ~ Deserialises(token'.claims.kind, stack[n].claims)
                \/ token'.claims.exp + Leeway < judged'[n] + Party[stack[n].validator].ahead
      BY <2>2, <2>4, <2>5, <2>6, <2>7, <2>10
  <2> QED
      BY <2>2, <2>5, <2>11, <2>12 DEF RefusedOK, Trusts, Deserialises
<1>2. CASE Passes
    BY <1>2, PassesMoves DEF RefusedOK, TurnedAway
<1>3. CASE Send
  <2>1. answer \notin TurnedAway /\ answer' = answer
      BY <1>0, <1>3 DEF LayersOK, Send
  <2> QED
      BY <2>1 DEF RefusedOK, TurnedAway
<1>4. CASE ~ Passes /\ ~ Turns /\ ~ Send
  <2>1. /\ stack' = stack /\ header' = header /\ cookie' = cookie /\ layer' = layer
        /\ claims' = claims /\ answer' = answer /\ judged' = judged
      BY <1>4, TokenStepKinds DEF TimePasses, Issue, sent
  <2>2. Presented' = Presented /\ Reached' = Reached
      BY <2>1 DEF Presented, Reached
  <2>3. CASE Presented = "token"
    <3>1. token' = token
        BY <2>3, TokenStep DEF TokenOK
    <3> QED
        BY <2>1, <2>2, <3>1 DEF RefusedOK, Trusts
  <2>4. CASE Presented # "token"
      BY <2>1, <2>2, <2>4 DEF RefusedOK
  <2> QED
      BY <2>3, <2>4
<1> QED
    BY <1>1, <1>2, <1>3, <1>4

\* The invariant: the token tells who signed what and when; the layers reached have
\* judged; the extensions hold what an Auth let in; who was let in and who was turned
\* away was so for a reason that the token and the times of judging still show.
THEOREM TokensInvariant == TokensSpec => []TokensInv
<1>1. TokensInit => TokensInv
  <2> SUFFICES ASSUME TokensInit PROVE TokensInv
      OBVIOUS
  <2>1. /\ now = 0 /\ token = Absent /\ stack \in Stacks /\ layer = 0 /\ claims = {}
        /\ answer = "none" /\ judged = <<>> /\ Presented = "absent"
      BY DEF TokensInit, Presented
  <2>2. Len(stack) \in Nat
      BY <2>1, TokensAssumption
  <2>3. LayersOK
      BY <2>1, <2>2 DEF LayersOK, TurnedAway
  <2>4. \A j \in 1..Len(stack) : ~ (j < layer)
      BY <2>1, <2>2
  <2>5. ClaimsOK /\ LetInOK
      BY <2>1, <2>4 DEF ClaimsOK, LetInOK
  <2>6. TokenOK
      BY <2>1 DEF TokenOK
  <2>7. RefusedOK
      BY <2>1 DEF RefusedOK, TurnedAway
  <2> QED
      BY <2>3, <2>5, <2>6, <2>7 DEF TokensInv
<1>2. TokensInv /\ [TokensNext]_tokensVars => TokensInv'
    BY TokenStep, LayersStep, ClaimsStep, LetInStep, RefusedStep DEF TokensInv
<1> QED
    BY <1>1, <1>2, PTL DEF TokensSpec

\* Whatever layers a request meets and however long that takes, each saw claims that a
\* holder of the deciding validator's key signed, for its audience and in time.
THEOREM ServedOnlyOnSigned == TokensSpec => []ServedOnSignedClaims
<1>1. TokensInv => ServedOnSignedClaims
  <2> SUFFICES ASSUME TokensInv, answer = "served", NEW i \in 1..Len(stack)
               PROVE  LET v == stack[Decider(i)].validator IN
                      /\ v # Absent /\ Presented = "token"
                      /\ Party[token.by].key = Party[v].key
                      /\ Party[v].aud \in token.claims.aud
                      /\ stack[i].claims = "Authority" => token.claims.kind = "Authority"
                      /\ judged[Decider(i)] - token.issued <= Lifetime + Leeway + MaxAhead
      BY DEF ServedOnSignedClaims
  <2>0. LayersOK /\ Len(stack) \in Nat
      BY TokensTypes DEF TokensInv
  <2>1. PICK d \in 1..i : d = Decider(i)
      BY <2>0, DeciderBelow
  <2>2. layer = Len(stack) + 1
      BY DEF TokensInv, LayersOK
  <2>3. i < layer
      BY <2>0, <2>2
  <2>4. Justified(d)
      BY <2>1, <2>3 DEF TokensInv, LetInOK
  <2>5. stack[d].claims = stack[i].claims
    <3>1. CASE \E j \in 1..i : Asks(j, "Auth", stack[i].claims)
        BY <2>0, <2>1, <3>1, DeciderIsOutermost DEF Asks
    <3>2. CASE ~ \E j \in 1..i : Asks(j, "Auth", stack[i].claims)
      <4>1. d = i
          BY <2>0, <2>1, <3>2, DeciderIsOutermost
      <4> QED
          BY <4>1
    <3> QED
        BY <3>1, <3>2
  <2>6. PICK s \in Signers, at0 \in Nat :
          /\ token.claims.exp = at0 + Party[s].ahead + Lifetime
          /\ token.key = Party[s].key /\ token.by = s /\ token.issued = at0
      BY <2>4 DEF TokensInv, TokenOK, Justified
  <2>7. judged[d] - token.issued <= Lifetime + Leeway + MaxAhead
    <3>1. judged[d] \in Nat
      <4>1. Len(judged) = Len(stack) /\ judged \in Seq(Nat)
        <5>1. answer \notin TurnedAway /\ layer # 0
            BY <2>0, <2>2 DEF TurnedAway
        <5>2. Len(judged) = layer - 1 /\ judged \in Seq(Nat)
            BY <2>0, <5>1 DEF LayersOK
        <5> QED
            BY <2>0, <2>2, <5>2
      <4>2. d \in 1..Len(stack)
          BY <2>0
      <4> QED
          BY <4>1, <4>2
    <3>2. stack[d].validator \in Validators
        BY <2>0, <2>4, TokensTypes DEF Justified
    <3>3. /\ Party[stack[d].validator].ahead \in Nat
          /\ Party[s].ahead \in Nat /\ Party[s].ahead <= MaxAhead
          /\ Lifetime \in Nat /\ Leeway \in Nat /\ MaxAhead \in Nat
        BY <2>0, <3>2, TokensTypes
    <3>4. at0 + Party[s].ahead + Lifetime + Leeway >= judged[d] + Party[stack[d].validator].ahead
        BY <2>4, <2>6 DEF Justified
    <3>5. ASSUME NEW a \in Nat, NEW b \in Nat, NEW w \in Nat, a <= MaxAhead,
                 at0 + a + Lifetime + Leeway >= w + b
          PROVE  w - at0 <= Lifetime + Leeway + MaxAhead
        BY <3>3, <3>5
    <3>6. judged[d] - at0 <= Lifetime + Leeway + MaxAhead
        BY <3>1, <3>3, <3>4, <3>5
    <3> QED
        BY <2>6, <3>6
  <2>8. Party[token.by].key = Party[stack[d].validator].key
        /\ Party[stack[d].validator].aud \in token.claims.aud
      BY <2>4, <2>6 DEF Justified, Trusts
  <2>9. stack[i].claims = "Authority" => token.claims.kind = "Authority"
      BY <2>4, <2>5 DEF Justified, Deserialises
  <2>10. stack[d].validator # Absent /\ Presented = "token"
      BY <2>4 DEF Justified
  <2> QED
      BY <2>1, <2>7, <2>8, <2>9, <2>10
<1> QED
    BY <1>1, TokensInvariant, PTL

\* What an Auth let in no inner layer turns away, whatever its validator.
THEOREM ClaimsJudgedOnce == TokensSpec => []AdmittedOnce
<1>1. TokensInv => AdmittedOnce
  <2> SUFFICES ASSUME TokensInv, answer \in TurnedAway PROVE Decider(layer) = layer
      BY DEF AdmittedOnce, TurnedAway
  <2>0. Len(stack) \in Nat
      BY TokensTypes DEF TokensInv
  <2>1. PICK n \in 1..Len(stack) : n = layer
      BY DEF TokensInv, LayersOK
  <2>2. stack[n].claims \notin claims
      BY <2>1 DEF TokensInv, RefusedOK, Reached
  <2>3. \A j \in 1..(n - 1) : ~ Asks(j, "Auth", stack[n].claims)
      BY <2>0, <2>1, <2>2 DEF TokensInv, ClaimsOK
  <2> QED
      BY <2>0, <2>1, <2>3, DeciderIsOutermost
<1> QED
    BY <1>1, TokensInvariant, PTL

\* No validator the token was made for refuses it within its lifetime, although the
\* clocks differ: the leeway covers the difference.
THEOREM FreshAccepted == TokensSpec => []FreshTokenIsAccepted
<1>1. TokensInv => FreshTokenIsAccepted
  <2> SUFFICES ASSUME TokensInv, answer = "unauthorized", Presented = "token"
               PROVE  LET v == Reached.validator IN
                      \/ Party[token.by].key # Party[v].key
                      \/ Party[token.by].alg # Party[v].alg
                      \/ Party[v].aud \notin token.claims.aud
                      \/ ~ Deserialises(token.claims.kind, Reached.claims)
                      \/ judged[layer] - token.issued > Lifetime
      BY DEF FreshTokenIsAccepted
  <2> DEFINE v == Reached.validator
  <2>1. PICK s \in Signers, at0 \in Nat :
          /\ token.claims.exp = at0 + Party[s].ahead + Lifetime /\ token.issued = at0
          /\ token.alg = Party[s].alg /\ token.key = Party[s].key /\ token.by = s
      BY DEF TokensInv, TokenOK
  <2> SUFFICES ASSUME Trusts(v), Deserialises(token.claims.kind, Reached.claims)
               PROVE  judged[layer] - token.issued > Lifetime
      BY <2>1 DEF Trusts
  <2>2. LayersOK /\ Len(stack) \in Nat
      BY TokensTypes DEF TokensInv
  <2>3. PICK n \in 1..Len(stack) : n = layer
      BY DEF TokensInv, LayersOK, TurnedAway
  <2>4. v # Absent /\ token.claims.exp + Leeway < judged[n] + Party[v].ahead
      BY <2>3 DEF TokensInv, RefusedOK
  <2>5. v \in Validators
      BY <2>2, <2>3, <2>4, TokensTypes DEF Reached
  <2>6. /\ Party[v].ahead \in Nat /\ Party[v].ahead <= MaxAhead
        /\ Party[s].ahead \in Nat
        /\ Lifetime \in Nat /\ Leeway \in Nat /\ MaxAhead \in Nat /\ MaxAhead <= Leeway
      BY <2>2, <2>5, TokensTypes
  <2>7. judged[n] \in Nat
    <3>1. Len(judged) = layer /\ judged \in Seq(Nat)
        BY <2>2, <2>3 DEF LayersOK, TurnedAway
    <3> QED
        BY <2>3, <3>1
  <2>8. at0 + Party[s].ahead + Lifetime + Leeway < judged[n] + Party[v].ahead
      BY <2>4, <2>1
  <2>9. ASSUME NEW a \in Nat, NEW b \in Nat, NEW w \in Nat, b <= MaxAhead,
               at0 + a + Lifetime + Leeway < w + b
        PROVE  w - at0 > Lifetime
      BY <2>6, <2>9
  <2>10. judged[n] - at0 > Lifetime
      BY <2>6, <2>7, <2>8, <2>9
  <2> QED
      BY <2>3, <2>1, <2>10
<1> QED
    BY <1>1, TokensInvariant, PTL

-------------------------------------------------------------------------------
(* TaskLocals: the values that travel with a request, on a worker thread that    *)
(* serves several.                                                               *)

\* What the scope of r is for.
Own(r) == IF ModeOf[r] = "none" THEN Unset ELSE Parsed(query[r])
Holding(r) == polled = r /\ InScope(r)

\* The slot has the value of the scope the thread is in, and is unset outside of
\* any.  The scope that is not polled keeps its value, the one that is polled keeps
\* what was in the slot before: nothing.
SlotOK ==
    /\ \A r \in Futures : Holding(r) => slot = Own(r)
    /\ (\A r \in Futures : ~ Holding(r)) => slot = Unset

KeptOK ==
    \A r \in Futures :
        /\ Holding(r) => kept[r] = Unset
        /\ InScope(r) /\ polled # r => kept[r] = Own(r)
        /\ ModeOf[r] = "attach" /\ pc[r] = "call" => kept[r] = Own(r)
        /\ ModeOf[r] = "none" => kept[r] = Unset

LocalTypes ==
    /\ query \in [Futures -> Queries]
    /\ polled \in Futures \cup {Idle}
    /\ kept \in [Futures -> [page : Int, limit : Int]]
    /\ pc \in [Futures -> {"extract", "call", "inner", "done"}]
    /\ \A x \in reads : x.by \in Futures

LocalsInv == LocalTypes /\ SlotOK /\ KeptOK /\ ReadsAreOwn

\* What a request's own value is.
LEMMA OwnIs ==
    ASSUME LocalTypes, NEW r \in Futures
    PROVE  /\ ModeOf[r] \in {"pagination", "attach", "none"} /\ r # Idle
           /\ Own(r) \in [page : Int, limit : Int] /\ Unset \in [page : Int, limit : Int]
           /\ ModeOf[r] # "none" => Own(r) # Unset
<1>1. ModeOf[r] \in {"pagination", "attach", "none"} /\ r # Idle
    BY LocalsAssumption DEF Modes
<1>2. query[r] \in Queries
    BY DEF LocalTypes
<1>3. \A n \in Pages \cup Limits \cup {DefaultLimit} : n \in Int /\ n >= 0
  <2>1. ASSUME NEW w, NEW n \in 0..w PROVE n \in Int /\ n >= 0
      OBVIOUS
  <2> QED
      BY <2>1, LocalsAssumption
<1>4. Parsed(query[r]).page \in Int /\ Parsed(query[r]).page >= 0
      /\ Parsed(query[r]) \in [page : Int, limit : Int]
    BY <1>2, <1>3 DEF Queries, Parsed, IsBad, Default, Missing, Bad
<1>5. Unset \in [page : Int, limit : Int] /\ Unset.page = -1
    BY DEF Unset
<1>6. Parsed(query[r]) # Unset
    BY <1>4, <1>5
<1> QED
    BY <1>1, <1>4, <1>5, <1>6 DEF Own

\* The worker is in no scope while it polls no future.
LEMMA IdleIsUnset ==
    ASSUME LocalTypes, SlotOK, polled = Idle
    PROVE  slot = Unset
BY OwnIs DEF SlotOK, Holding

\* What the slot and the scope of the polled future hold.
LEMMA PolledHolds ==
    ASSUME LocalTypes, SlotOK, KeptOK, NEW r \in Futures, polled = r
    PROVE  /\ InScope(r) => slot = Own(r) /\ kept[r] = Unset
           /\ ~ InScope(r) => slot = Unset
BY DEF SlotOK, KeptOK, Holding

\* A future that was not in its scope enters it, or one that was leaves it, or neither.
LEMMA ScopeStep ==
    ASSUME LocalTypes, SlotOK, KeptOK, [LocalsNext]_localsVars
    PROVE  LocalTypes' /\ SlotOK' /\ KeptOK'
<1>0. \A r \in Futures : Own(r)' = Own(r)
  <2>1. query' = query
      BY DEF LocalsNext, Request, AllDone, localsVars, Poll, Yield, ExtractPagination,
             ExtractLocal, ExtractFails, NoMiddleware, Call, Read, ReadPanics,
             SpawnedRead, Return, Cancel
  <2> QED
      BY <2>1 DEF Own, Parsed, IsBad, Default
<1>1. ASSUME NEW r \in Futures, Poll(r)
      PROVE  LocalTypes' /\ SlotOK' /\ KeptOK'
  <2>1. /\ polled = Idle /\ polled' = r /\ pc' = pc /\ query' = query /\ reads' = reads
        /\ slot = Unset
      BY <1>1, IdleIsUnset DEF Poll
  <2>2. CASE InScope(r)
    <3>1. slot' = Own(r) /\ kept' = [kept EXCEPT ![r] = Unset]
        BY <1>1, <2>1, <2>2, OwnIs DEF Poll, Swap, KeptOK
    <3> QED
        BY <1>0, <2>1, <2>2, <3>1, OwnIs
        DEF LocalTypes, SlotOK, KeptOK, Holding, InScope
  <2>3. CASE ~ InScope(r)
    <3>1. slot' = slot /\ kept' = kept
        BY <1>1, <2>3 DEF Poll
    <3> QED
        BY <1>0, <2>1, <2>3, <3>1, OwnIs
        DEF LocalTypes, SlotOK, KeptOK, Holding, InScope
  <2> QED
      BY <2>2, <2>3
<1>2. ASSUME NEW r \in Futures, polled = r, polled' = Idle, Leave(r),
             query' = query, reads' = reads,
             pc' = pc \/ pc' = [pc EXCEPT ![r] = "done"],
             ~ (ModeOf[r] = "attach" /\ pc[r] = "call")
      PROVE  LocalTypes' /\ SlotOK' /\ KeptOK'
  <2>1. slot' = Unset
      BY <1>2, PolledHolds DEF Leave, Swap
  <2>2. \A q \in Futures : q # r => kept'[q] = kept[q] /\ pc'[q] = pc[q]
      BY <1>2 DEF Leave, Swap, LocalTypes
  <2>3. InScope(r) => kept'[r] = Own(r)
      BY <1>2, PolledHolds DEF Leave, Swap, LocalTypes
  <2>4. ~ InScope(r) => kept' = kept
      BY <1>2 DEF Leave
  <2>5. pc'[r] \in {pc[r], "done"}
      BY <1>2 DEF LocalTypes
  <2>6. LocalTypes'
      BY <1>2, OwnIs, PolledHolds DEF LocalTypes, Leave, Swap
  <2>7. \A q \in Futures : ~ Holding(q)'
      BY <1>2, OwnIs DEF Holding
  <2>8. KeptOK'
    <3> SUFFICES ASSUME NEW q \in Futures
                 PROVE  /\ InScope(q)' => kept'[q] = Own(q)
                        /\ ModeOf[q] = "attach" /\ pc'[q] = "call" => kept'[q] = Own(q)
                        /\ ModeOf[q] = "none" => kept'[q] = Unset
        BY <1>0, <2>7 DEF KeptOK
    <3>1. CASE q # r
        BY <1>2, <2>2, <3>1 DEF KeptOK, InScope
    <3>2. CASE q = r
      <4>1. InScope(r)' => InScope(r)
          BY <2>5 DEF InScope
      <4>2. ~ (ModeOf[r] = "attach" /\ pc'[r] = "call")
          BY <1>2, <2>5
      <4>3. ModeOf[r] = "none" => kept'[r] = Unset
          BY <2>3, <2>4 DEF KeptOK, Own
      <4> QED
          BY <2>3, <3>2, <4>1, <4>2, <4>3
    <3> QED
        BY <3>1, <3>2
  <2> QED
      BY <2>1, <2>6, <2>7, <2>8 DEF SlotOK
<1>3. ASSUME NEW r \in Futures, ExtractPagination(r)
      PROVE  LocalTypes' /\ SlotOK' /\ KeptOK'
  <2>1. /\ polled = r /\ pc[r] = "extract" /\ ModeOf[r] = "pagination"
        /\ slot' = Own(r) /\ slot = Unset /\ kept' = [kept EXCEPT ![r] = Unset]
        /\ pc' = [pc EXCEPT ![r] = "call"]
        /\ query' = query /\ polled' = r /\ reads' = reads
    <3>1. ~ InScope(r)
        BY <1>3 DEF ExtractPagination, InScope
    <3> QED
        BY <1>3, <3>1, PolledHolds DEF ExtractPagination, Own
  <2> QED
      BY <1>0, <2>1, OwnIs DEF LocalTypes, SlotOK, KeptOK, Holding, InScope
<1>4. ASSUME NEW r \in Futures, ExtractLocal(r)
      PROVE  LocalTypes' /\ SlotOK' /\ KeptOK'
  <2>1. /\ polled = r /\ pc[r] = "extract" /\ ModeOf[r] = "attach"
        /\ slot' = slot /\ slot = Unset /\ kept' = [kept EXCEPT ![r] = Own(r)]
        /\ pc' = [pc EXCEPT ![r] = "call"]
        /\ query' = query /\ polled' = r /\ reads' = reads
    <3>1. ~ InScope(r)
        BY <1>4 DEF ExtractLocal, InScope
    <3> QED
        BY <1>4, <3>1, PolledHolds DEF ExtractLocal, Own
  <2> QED
      BY <1>0, <2>1, OwnIs DEF LocalTypes, SlotOK, KeptOK, Holding, InScope
<1>5. ASSUME NEW r \in Futures, NoMiddleware(r)
      PROVE  LocalTypes' /\ SlotOK' /\ KeptOK'
  <2>1. /\ polled = r /\ pc[r] = "extract" /\ ModeOf[r] = "none"
        /\ slot' = slot /\ slot = Unset /\ kept' = kept
        /\ pc' = [pc EXCEPT ![r] = "call"]
        /\ query' = query /\ polled' = r /\ reads' = reads
    <3>1. ~ InScope(r)
        BY <1>5 DEF NoMiddleware, InScope
    <3> QED
        BY <1>5, <3>1, PolledHolds DEF NoMiddleware
  <2> QED
      BY <1>0, <2>1, OwnIs DEF LocalTypes, SlotOK, KeptOK, Holding, InScope
<1>6. ASSUME NEW r \in Futures, Call(r)
      PROVE  LocalTypes' /\ SlotOK' /\ KeptOK'
  <2>1. /\ polled = r /\ pc[r] = "call" /\ polled' = r /\ query' = query
        /\ pc' = [pc EXCEPT ![r] = "inner"]
        /\ \A x \in reads' : x \in reads \/ x.by = r
      BY <1>6 DEF Call, Reads
  <2>2. slot' = Own(r) /\ kept' = [kept EXCEPT ![r] = Unset]
    <3>1. CASE ModeOf[r] = "attach"
      <4>1. slot = Unset /\ kept[r] = Own(r)
          BY <2>1, <3>1, PolledHolds DEF KeptOK, InScope
      <4> QED
          BY <1>6, <3>1, <4>1 DEF Call, Swap
    <3>2. CASE ModeOf[r] = "pagination"
      <4>1. slot = Own(r) /\ kept[r] = Unset
          BY <2>1, <3>2, PolledHolds DEF InScope
      <4> QED
          BY <1>6, <3>2, <4>1 DEF Call, LocalTypes
    <3>3. CASE ModeOf[r] = "none"
      <4>1. slot = Unset /\ kept[r] = Unset
          BY <2>1, <3>3, PolledHolds DEF InScope, KeptOK
      <4> QED
          BY <1>6, <3>3, <4>1 DEF Call, LocalTypes, Own
    <3> QED
        BY <3>1, <3>2, <3>3, OwnIs
  <2> QED
      BY <1>0, <2>1, <2>2, OwnIs DEF LocalTypes, SlotOK, KeptOK, Holding, InScope
<1>7. ASSUME NEW r \in Futures, Read(r) \/ SpawnedRead(r)
      PROVE  LocalTypes' /\ SlotOK' /\ KeptOK'
  <2>1. /\ UNCHANGED <<query, polled, slot, kept, pc>>
        /\ \A x \in reads' : x \in reads \/ x.by = r
      BY <1>7 DEF Read, SpawnedRead, Reads
  <2> QED
      BY <1>0, <2>1, OwnIs DEF LocalTypes, SlotOK, KeptOK, Holding, InScope
<1>8. ASSUME NEW r \in Futures, Cancel(r)
      PROVE  LocalTypes' /\ SlotOK' /\ KeptOK'
  <2>1. /\ UNCHANGED <<query, polled, slot, kept, reads>> /\ polled = Idle
        /\ pc' = [pc EXCEPT ![r] = "done"]
      BY <1>8 DEF Cancel, End
  <2> QED
      BY <1>0, <2>1, OwnIs DEF LocalTypes, SlotOK, KeptOK, Holding, InScope
<1>9. CASE UNCHANGED localsVars
    BY <1>0, <1>9, OwnIs DEF localsVars, LocalTypes, SlotOK, KeptOK, Holding, InScope
<1>10. ASSUME NEW r \in Futures, Yield(r) \/ ExtractFails(r) \/ ReadPanics(r) \/ Return(r)
       PROVE  LocalTypes' /\ SlotOK' /\ KeptOK'
  <2>1. /\ polled = r /\ polled' = Idle /\ query' = query /\ reads' = reads
        /\ pc[r] # "call"
      BY <1>10 DEF Yield, ExtractFails, ReadPanics, Return
  <2>2. pc' = pc \/ pc' = [pc EXCEPT ![r] = "done"]
      BY <1>10 DEF Yield, ExtractFails, ReadPanics, Return, End
  <2>3. Leave(r)
      BY <1>10 DEF Yield, ExtractFails, ReadPanics, Return, Leave, InScope
  <2> QED
      BY <1>2, <2>1, <2>2, <2>3
<1> QED
    BY <1>1, <1>3, <1>4, <1>5, <1>6, <1>7, <1>8, <1>9, <1>10
    DEF LocalsNext, Request, AllDone

\* Whether a read is covered, without CASE.
LEMMA CoveredIs ==
    ASSUME NEW x, x.by \in Futures
    PROVE  Covered(x) <=>
             \/ ModeOf[x.by] = "pagination" /\ x.where \in {"call", "future"}
             \/ ModeOf[x.by] = "attach" /\ x.where = "future"
<1>1. CASE ModeOf[x.by] = "pagination"
    BY <1>1 DEF Covered
<1>2. CASE ModeOf[x.by] = "attach"
    BY <1>2 DEF Covered
<1>3. CASE ModeOf[x.by] # "pagination" /\ ModeOf[x.by] # "attach"
    BY <1>3 DEF Covered
<1> QED
    BY <1>1, <1>2, <1>3

\* A read is right for the request it is for.
LEMMA ReadStep ==
    ASSUME LocalsInv, [LocalsNext]_localsVars
    PROVE  ReadsAreOwn'
<1>0. LocalTypes /\ SlotOK /\ KeptOK /\ ReadsAreOwn /\ LocalTypes'
    BY ScopeStep DEF LocalsInv
<1> DEFINE Right(x) ==
        LET q == query[x.by] IN
        IF ~ Covered(x) \/ IsBad(q) THEN x.value = Default
        ELSE /\ x.value.page = (IF q.page = Missing THEN 0 ELSE q.page)
             /\ x.value.limit = (IF q.limit = Missing THEN DefaultLimit ELSE q.limit)
<1>1. query' = query
    BY DEF LocalsNext, Request, AllDone, localsVars, Poll, Yield, ExtractPagination,
           ExtractLocal, ExtractFails, NoMiddleware, Call, Read, ReadPanics,
           SpawnedRead, Return, Cancel
<1>2. \A x \in reads : Right(x)
    BY <1>0 DEF ReadsAreOwn
<1>3. ASSUME NEW r \in Futures, NEW w,
             \/ w = "call" /\ polled = r /\ pc[r] = "call"
             \/ w = "future" /\ polled = r /\ pc[r] = "inner"
             \/ w = "spawned" /\ polled = Idle
      PROVE  Right([by |-> r, where |-> w, value |-> Get])
  <2> DEFINE x == [by |-> r, where |-> w, value |-> Get]
  <2>1. x.by = r /\ x.where = w /\ x.value = Get
      OBVIOUS
  <2>2. CASE Covered(x)
    <3>1. polled = r /\ InScope(r) /\ ModeOf[r] # "none"
        BY <1>3, <2>1, <2>2, CoveredIs DEF InScope
    <3>2. slot = Parsed(query[r]) /\ slot # Unset
        BY <1>0, <3>1, PolledHolds, OwnIs DEF Own
    <3>3. x.value = Parsed(query[r])
        BY <2>1, <3>2 DEF Get
    <3> QED
        BY <2>1, <2>2, <3>3 DEF Parsed
  <2>3. CASE ~ Covered(x)
    <3>1. slot = Unset
      <4>1. CASE polled = Idle
          BY <1>0, <4>1, IdleIsUnset
      <4>2. CASE polled # Idle
        <5>1. polled = r /\ (ModeOf[r] # "none" => ~ InScope(r))
            BY <1>0, <1>3, <2>1, <2>3, <4>2, OwnIs, CoveredIs DEF InScope
        <5> QED
            BY <1>0, <5>1, PolledHolds DEF Own
      <4> QED
          BY <4>1, <4>2
    <3>2. x.value = Default
        BY <2>1, <3>1 DEF Get
    <3> QED
        BY <2>3, <3>2
  <2> QED
      BY <2>2, <2>3
<1>4. \A x \in reads' : Right(x)
  <2>1. \/ reads' = reads
        \/ \E r \in Futures : Call(r) \/ Read(r) \/ SpawnedRead(r)
      BY DEF LocalsNext, Request, AllDone, localsVars, Poll, Yield, ExtractPagination,
             ExtractLocal, ExtractFails, NoMiddleware, ReadPanics, Return,
             Cancel
  <2>2. ASSUME NEW r \in Futures, Call(r) \/ Read(r) \/ SpawnedRead(r)
        PROVE  \A x \in reads' : Right(x)
    <3>1. PICK w : /\ reads' = reads \cup {[by |-> r, where |-> w, value |-> Get]}
                   /\ \/ w = "call" /\ polled = r /\ pc[r] = "call"
                      \/ w = "future" /\ polled = r /\ pc[r] = "inner"
                      \/ w = "spawned" /\ polled = Idle
        BY <2>2 DEF Call, Read, SpawnedRead, Reads
    <3> QED
        BY <1>2, <1>3, <3>1
  <2> QED
      BY <1>2, <2>1, <2>2
<1>5. \A x : Covered(x)' = Covered(x)
    BY DEF Covered
<1> QED
    BY <1>1, <1>4, <1>5 DEF ReadsAreOwn, IsBad, Default

\* The invariant: who is polled in its scope has its value in the slot, every other
\* scope keeps its own, and nothing stays behind; so every read was right.
THEOREM LocalsInvariant == LocalsSpec => []LocalsInv
<1>1. LocalsInit => LocalsInv
  <2> SUFFICES ASSUME LocalsInit PROVE LocalsInv
      OBVIOUS
  <2>1. /\ query \in [Futures -> Queries] /\ polled = Idle /\ slot = Unset
        /\ kept = [r \in Futures |-> Unset] /\ pc = [r \in Futures |-> "extract"]
        /\ reads = {}
      BY DEF LocalsInit
  <2>2. LocalTypes
      BY <2>1 DEF LocalTypes, Unset
  <2>3. SlotOK /\ KeptOK
      BY <2>1, <2>2, OwnIs DEF SlotOK, KeptOK, Holding, InScope
  <2>4. ReadsAreOwn
      BY <2>1 DEF ReadsAreOwn
  <2> QED
      BY <2>2, <2>3, <2>4 DEF LocalsInv
<1>2. ASSUME LocalsInv, [LocalsNext]_localsVars PROVE LocalsInv'
    BY <1>2, ScopeStep, ReadStep DEF LocalsInv
<1> QED
    BY <1>1, <1>2, PTL DEF LocalsSpec

\* However the worker switches between requests, what is read for a request is what its
\* own query says, and the default outside of its scope.
THEOREM ReadsOwnLocals == LocalsSpec => []ReadsAreOwn
<1>1. LocalsInv => ReadsAreOwn
    BY DEF LocalsInv
<1> QED
    BY <1>1, LocalsInvariant, PTL

================================================================================
