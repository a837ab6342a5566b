-------------------------------- MODULE Pipeline --------------------------------
(***************************************************************************)
(* A request on its way through a chain of middlewares, for every chain:   *)
(* what each stage reads from and leaves in the request extensions, where  *)
(* it may turn the request away, what it does to the outcome on its way    *)
(* back, and how the deadline of TimeoutMiddleware and the padding of      *)
(* ResponseEqualizer meet.  Stages share nothing between requests, so one  *)
(* request is enough.                                                      *)
(*                                                                         *)
(* An outcome is Ok (a response, of whatever status) or Err (an actix      *)
(* Error, that stages pass on with ?).  A handler whose arguments cannot   *)
(* be extracted is answered for by actix, with an Ok.                      *)
(***************************************************************************)
EXTENDS Permissions

CONSTANTS Chains,      \* the chains to consider, outermost stage first
          Requests,    \* the requests to consider
          Tables,      \* the permission tables to consider
          PermIds,     \* the arguments of authority() to consider
          Budget,      \* timeout, in ticks
          MinDuration, \* min_duration, in ticks
          MaxTime      \* bound on the clock

Stages == {"RequestId", "ClientIp", "Auth", "ReadContext", "Permissions",
           "Identity", "Authority", "AttachLocal", "RateLimiter", "PathParams",
           "Timeout", "Equalizer"}

\* What a handler asks for: Jwt<T>, ClientIp, Filters or ReqData<Filters>.
Extractors == {"Claims", "ClientIp", "Filters", "ReqFilters"}

\* What a request carries: whether its token is good, its role, where it goes and
\* where it comes from, its query string, and what its handler asks for.
RequestTypes ==
    [token : {"none", "good"}, role : SUBSET (0..(Width - 1)),
     method : Methods, path : Paths,
     peer : Addresses \cup {Unknown}, forwarded : Forwarded,
     query : {"plain", "malformed"}, wants : Extractors \cup {"nothing"}]

\* A chain has each stage at most once.
ASSUME PipelineAssumption ==
    /\ \A c \in Chains :
         c \in Seq(Stages) /\ \A i, j \in DOMAIN c : c[i] = c[j] => i = j
    /\ Requests \subseteq RequestTypes
    /\ Tables \subseteq Seq(RawEntries)
    /\ PermIds \subseteq Nat
    /\ Budget \in Nat /\ MinDuration \in Nat /\ MaxTime \in Nat

VARIABLES chain,       \* the stages, outermost first
          request,     \* token, role, method, path, peer, forwarded, query, wants
          table,       \* the raw permission table
          perm_id,     \* the argument of authority()
          attached,    \* the T of AttachLocal<T>
          validator,   \* whether a Validate<T> is registered as app data
          at,          \* the stage whose turn it is; Len(chain) + 1: the handler
          moving,      \* "in", "sleeping", "out" or "over"
          extensions,  \* the types present in the request extensions
          client,      \* the ClientIp in the extensions
          entered,     \* started / the start of the timeout, of each stage
          outcome,     \* kind, status and the place that made it
          tagged,      \* X-Request-Id is on the response
          handler,     \* history: what became of the handler
          clock

config == <<chain, request, table, perm_id, attached, validator>>
vars == <<config, at, moving, extensions, client, entered, outcome, tagged,
          handler, clock>>

Has(s) == \E i \in DOMAIN chain : chain[i] = s
Place(s) == CHOOSE i \in DOMAIN chain : chain[i] = s
Before(s, t) == Has(s) /\ Has(t) /\ Place(s) < Place(t)
Handler == Len(chain) + 1

\* Something on the way uses the Jwt extractor.
ReadsToken == Has("Authority") \/ Has("Identity") \/ Has("AttachLocal")
                \/ request.wants = "Claims"

Init ==
    /\ chain \in Chains /\ request \in Requests
    /\ table \in (IF Has("Permissions") THEN Tables ELSE {<< >>})
    /\ perm_id \in (IF Has("Authority") THEN PermIds ELSE {0})
    /\ attached \in (IF Has("AttachLocal") THEN {"Claims", "ClientIp"} ELSE {"Claims"})
    /\ validator \in (IF ReadsToken THEN BOOLEAN ELSE {TRUE})
    /\ at = 1
    /\ moving = "in"
    /\ extensions = {}
    /\ client = Unknown
    /\ entered = [s \in {"Timeout", "Equalizer"} |-> 0]
    /\ outcome = [kind |-> "none", status |-> 0, made |-> 0]
    /\ tagged = FALSE
    /\ handler = "waiting"
    /\ clock = 0
    \* PermissionSet::new: an application with a bad table does not start.
    /\ Accepted(table)

-------------------------------------------------------------------------------
Entering(s) == moving = "in" /\ at <= Len(chain) /\ chain[at] = s

Forward(left) ==
    /\ extensions' = extensions \cup left
    /\ at' = at + 1
    /\ UNCHANGED <<config, moving, outcome, tagged, handler, clock>>

\* The stage ends the request here, with a response or an error of its own.
TurnAway(kind, status) ==
    /\ outcome' = [kind |-> kind, status |-> status, made |-> at]
    /\ moving' = "out"
    /\ at' = at - 1
    /\ UNCHANGED <<config, extensions, client, entered, tagged, handler, clock>>

RequestIdEnters ==
    /\ Entering("RequestId")
    /\ Forward({"RequestIdStr"}) /\ UNCHANGED <<client, entered>>

ClientIpEnters ==
    /\ Entering("ClientIp")
    /\ IF request.peer = Unknown
       THEN Forward({}) /\ UNCHANGED client
       ELSE /\ Forward({"ClientIp"})
            /\ client' = ClientOf(request.peer, request.forwarded)
    /\ UNCHANGED entered

\* Claims already present are taken for granted.
AuthEnters ==
    /\ Entering("Auth")
    /\ IF "Claims" \in extensions \/ request.token = "good"
       THEN Forward({"Claims"}) /\ UNCHANGED <<client, entered>>
       ELSE TurnAway("err", 401)

ReadContextEnters ==
    /\ Entering("ReadContext")
    /\ IF {"RequestIdStr", "Claims"} \subseteq extensions
       THEN Forward({"Context"}) /\ UNCHANGED <<client, entered>>
       ELSE TurnAway("err", 500)

\* Slip: the principal is looked up after the role has been compared, so that a
\* request without one passes for a role with every bit.
PermissionsEnters_NoPrincipal ==
    /\ Entering("Permissions")
    /\ LET i == Find(table, request.method, request.path) IN
       IF i = 0 THEN TurnAway("ok", 403)
       ELSE IF table[i].bit_id \notin request.role THEN TurnAway("ok", 403)
       ELSE Forward({}) /\ UNCHANGED <<client, entered>>

\* Permissions answers with responses, never with errors.
PermissionsEnters ==
    /\ Entering("Permissions")
    /\ LET i == Find(table, request.method, request.path) IN
       IF i = 0 THEN TurnAway("ok", 403)
       ELSE IF "Claims" \notin extensions THEN TurnAway("ok", 401)
       ELSE IF table[i].bit_id \notin request.role THEN TurnAway("ok", 403)
       ELSE Forward({}) /\ UNCHANGED <<client, entered>>

\* What Jwt::from_request makes of a request: 0 when it yields claims.
JwtError ==
    IF "Claims" \in extensions THEN 0
    ELSE IF ~ validator THEN 500
    ELSE IF request.token = "good" THEN 0 ELSE 401

\* What the extractor of a type makes of a request.
ExtractError(type) ==
    CASE type = "Claims" -> JwtError
      [] type \in {"ClientIp", "ReqFilters"} ->
           IF (IF type = "ReqFilters" THEN "Filters" ELSE type) \in extensions
           THEN 0 ELSE 500
      [] type = "Filters" ->
           IF "Filters" \notin extensions /\ request.query = "malformed" THEN 400 ELSE 0
      [] OTHER -> 0

\* A stage that lets through what an extractor accepts, and keeps nothing of it.
ExtractorEnters(s, type) ==
    /\ Entering(s)
    /\ IF ExtractError(type) = 0
       THEN Forward({}) /\ UNCHANGED <<client, entered>>
       ELSE TurnAway("err", ExtractError(type))

IdentityEnters == ExtractorEnters("Identity", "Claims")

\* The value is scoped around the inner future; extraction comes first.
AttachLocalEnters == ExtractorEnters("AttachLocal", attached)

\* authority(perm_id): its extractor needs no Auth, and leaves no claims.  With
\* overflow checks a shift by Width or more panics, which ends the request.
AuthorityEnters ==
    /\ Entering("Authority")
    /\ \/ JwtError # 0 /\ TurnAway("err", JwtError)
       \/ /\ JwtError = 0
          /\ IF AuthorityAllows(request.role, perm_id)
             THEN Forward({}) /\ UNCHANGED <<client, entered>>
             ELSE TurnAway("ok", 403)
       \/ JwtError = 0 /\ perm_id >= Width /\ TurnAway("panic", 0)

\* A limiter keyed on ClientIp: without one the request is not counted.  With one
\* it is counted, or is over the limit, or get or set of the store fails.  (When it
\* is over the limit is the module RateLimiter.)
Identifies == Entering("RateLimiter") /\ "ClientIp" \in extensions

RateLimiterEnters ==
    \/ /\ Entering("RateLimiter")
       /\ Forward(IF Identifies THEN {"Counted"} ELSE {})
       /\ UNCHANGED <<client, entered>>
    \/ Identifies /\ TurnAway("ok", 429)
    \/ Identifies /\ TurnAway("err", 500)

\* Slip: a status nobody expects.
PathParamsEnters_Unprocessable ==
    /\ Entering("PathParams")
    /\ IF request.query = "malformed" THEN TurnAway("err", 422)
       ELSE Forward({"Filters"}) /\ UNCHANGED <<client, entered>>

\* Filters that an outer stage left are taken up; a query string that cannot be
\* parsed ends the request.
PathParamsEnters ==
    /\ Entering("PathParams")
    /\ IF ExtractError("Filters") # 0 THEN TurnAway("err", ExtractError("Filters"))
       ELSE Forward({"Filters"}) /\ UNCHANGED <<client, entered>>

\* The deadline, or the padding, counts from here.
TimerEnters(s) ==
    /\ Entering(s)
    /\ Forward({})
    /\ entered' = [entered EXCEPT ![s] = clock]
    /\ UNCHANGED client

Enters ==
    \/ RequestIdEnters \/ ClientIpEnters \/ AuthEnters \/ ReadContextEnters
    \/ PermissionsEnters \/ IdentityEnters \/ AuthorityEnters \/ AttachLocalEnters
    \/ RateLimiterEnters \/ PathParamsEnters
    \/ TimerEnters("Timeout") \/ TimerEnters("Equalizer")

-------------------------------------------------------------------------------
AtHandler == moving = "in" /\ at = Handler /\ handler = "waiting"

\* An argument cannot be extracted: actix makes the error a response.
HandlerRefuses ==
    /\ AtHandler
    /\ ExtractError(request.wants) # 0
    /\ outcome' = [kind |-> "ok", status |-> ExtractError(request.wants), made |-> Handler]
    /\ moving' = "out"
    /\ at' = Len(chain)
    /\ UNCHANGED <<config, extensions, client, entered, tagged, handler, clock>>

HandlerStarts ==
    /\ AtHandler
    /\ ExtractError(request.wants) = 0
    /\ handler' = "running"
    /\ UNCHANGED <<config, at, moving, extensions, client, entered, outcome, tagged, clock>>

HandlerReturns ==
    /\ moving = "in" /\ handler = "running"
    /\ handler' = "finished"
    /\ outcome' = [kind |-> "ok", status |-> 200, made |-> Handler]
    /\ moving' = "out"
    /\ at' = Len(chain)
    /\ UNCHANGED <<config, extensions, client, entered, tagged, clock>>

\* The request is suspended, in the handler, in a sleep or at the limiter's store:
\* time goes by.  MaxTime leaves a sleep the time to end.
Suspended == handler = "running" \/ moving = "sleeping" \/ Identifies

Tick ==
    /\ Suspended
    /\ clock < (IF moving = "sleeping" THEN MaxTime + MinDuration ELSE MaxTime)
    /\ clock' = clock + 1
    /\ UNCHANGED <<config, at, moving, extensions, client, entered, outcome, tagged, handler>>

-------------------------------------------------------------------------------
Leaving(s) == moving = "out" /\ at >= 1 /\ chain[at] = s

StepOut ==
    /\ at' = at - 1
    /\ UNCHANGED <<config, extensions, client, entered, outcome, handler, clock>>

\* Slip: a response is tagged only when the handler made it.
RequestIdLeaves_HandlerOnly ==
    /\ Leaving("RequestId")
    /\ tagged' = (outcome.made = Handler)
    /\ StepOut /\ UNCHANGED moving

\* The header goes on a response; an error passes untouched.
RequestIdLeaves ==
    /\ Leaving("RequestId")
    /\ tagged' = (outcome.kind = "ok")
    /\ StepOut /\ UNCHANGED moving

Padded == clock >= entered["Equalizer"] + MinDuration

\* A response that comes too early sleeps, and with jitter one that is late does
\* too, until any later time; an error passes at once.
EqualizerLeaves ==
    /\ Leaving("Equalizer")
    /\ \/ /\ outcome.kind = "ok"
          /\ moving' = "sleeping"
          /\ UNCHANGED <<config, at, extensions, client, entered, outcome, handler, clock>>
       \/ /\ outcome.kind # "ok" \/ Padded
          /\ StepOut /\ UNCHANGED moving
    /\ UNCHANGED tagged

EqualizerWakes ==
    /\ moving = "sleeping"
    /\ Padded
    /\ moving' = "out"
    /\ StepOut /\ UNCHANGED tagged

OtherLeaves ==
    /\ moving = "out" /\ at >= 1 /\ chain[at] \notin {"RequestId", "Equalizer"}
    /\ StepOut /\ UNCHANGED <<moving, tagged>>

\* Slip: the clock is looked at before the answer, once the answer is there.
TimeoutFires_OnAnswer ==
    /\ Suspended \/ moving = "out"
    /\ Has("Timeout") /\ Place("Timeout") < at
    /\ clock >= entered["Timeout"] + Budget
    /\ outcome' = [kind |-> "err", status |-> 504, made |-> Place("Timeout")]
    /\ at' = Place("Timeout") - 1
    /\ moving' = "out"
    /\ tagged' = FALSE
    /\ handler' = IF handler = "running" THEN "dropped" ELSE handler
    /\ UNCHANGED <<config, extensions, client, entered, clock>>

\* The deadline passes while the future inside is suspended: it is dropped, and
\* an error takes its place.
TimeoutFires ==
    /\ Suspended
    /\ Has("Timeout") /\ Place("Timeout") < at
    /\ clock >= entered["Timeout"] + Budget
    /\ outcome' = [kind |-> "err", status |-> 504, made |-> Place("Timeout")]
    /\ at' = Place("Timeout") - 1
    /\ moving' = "out"
    /\ tagged' = FALSE
    /\ handler' = IF handler = "running" THEN "dropped" ELSE handler
    /\ UNCHANGED <<config, extensions, client, entered, clock>>

\* The outcome reaches the server.
Answered ==
    /\ moving = "out" /\ at = 0
    /\ moving' = "over"
    /\ UNCHANGED <<config, at, extensions, client, entered, outcome, tagged, handler, clock>>

Finished == moving = "over" /\ UNCHANGED vars

Next == \/ Enters \/ HandlerRefuses \/ HandlerStarts \/ HandlerReturns \/ Tick
        \/ RequestIdLeaves \/ EqualizerLeaves \/ EqualizerWakes \/ OtherLeaves
        \/ TimeoutFires \/ Answered \/ Finished

Spec == Init /\ [][Next]_vars

-------------------------------------------------------------------------------
(* Properties *)

Horizon == MaxTime + MinDuration

\* Every variable keeps its type.
TypeOK ==
    /\ chain \in Chains /\ request \in Requests /\ table \in Tables \cup {<< >>}
    /\ at \in 0..Handler
    /\ moving \in {"in", "sleeping", "out", "over"}
    /\ extensions \subseteq {"RequestIdStr", "ClientIp", "Claims", "Context",
                             "Counted", "Filters"}
    /\ client \in Addresses \cup {Unknown}
    /\ entered \in [{"Timeout", "Equalizer"} -> 0..Horizon]
    /\ outcome \in [kind : {"none", "ok", "err", "panic"},
                    status : {0, 200, 400, 401, 403, 429, 500, 504}, made : 0..Handler]
    /\ tagged \in BOOLEAN
    /\ handler \in {"waiting", "running", "finished", "dropped"}
    /\ clock \in 0..Horizon

\* The role has the bit of the first entry of the table that matches.
Granted ==
    \E i \in DOMAIN table :
        /\ Applies(table[i], request.method, request.path)
        /\ table[i].bit_id \in request.role
        /\ \A j \in 1..(i - 1) : ~ Applies(table[j], request.method, request.path)

Authenticated == request.token = "good"

\* However the stages are ordered, the handler runs only for a request that every
\* guard of the chain lets through: a chain in the wrong order turns requests away
\* and never lets one slip past a guard, nor run with half a context.  The limiter
\* alone is silently without effect, unless the address was resolved outside it;
\* and of authority() nothing is said beyond the bits a role has: there its shift
\* wraps, and a bit the caller did not name may let the request pass.
HandlerIsGuarded ==
    handler # "waiting" =>
        /\ Has("Auth") => Authenticated
        /\ Has("Permissions") => Granted /\ Authenticated /\ Before("Auth", "Permissions")
        /\ Has("Identity") => Authenticated
        /\ Has("Authority") =>
             /\ Authenticated
             /\ perm_id < Width => perm_id \in request.role
        /\ Has("ReadContext") =>
             /\ Authenticated
             /\ Before("RequestId", "ReadContext") /\ Before("Auth", "ReadContext")
        /\ Has("RateLimiter") =>
             ("Counted" \in extensions
                 <=> Before("ClientIp", "RateLimiter") /\ request.peer # Unknown)

\* docs/middleware/index.md:111-134: what each stage, and the handler, needs
\* outside it.
Resolved(s) == Before("ClientIp", s) /\ request.peer # Unknown
Identified(s) == validator \/ Before("Auth", s)

InDocumentedOrder ==
    /\ Has("ReadContext") =>
         Before("RequestId", "ReadContext") /\ Before("Auth", "ReadContext")
    /\ Has("Permissions") => Before("Auth", "Permissions")
    /\ Has("Identity") => Identified("Identity")
    /\ Has("Authority") => Identified("Authority")
    /\ Has("AttachLocal") =>
         IF attached = "ClientIp" THEN Resolved("AttachLocal")
                                  ELSE Identified("AttachLocal")
    /\ request.wants = "ClientIp" => Has("ClientIp") /\ request.peer # Unknown
    /\ request.wants = "Claims" => validator \/ Has("Auth")
    /\ request.wants = "ReqFilters" => Has("PathParams")

Legitimate ==
    /\ Authenticated
    /\ request.query # "malformed"
    /\ Has("Permissions") => Granted
    /\ Has("Authority") => perm_id \in request.role

\* The limiter knew whom to count, and refused the request or lost its store.
Limited ==
    /\ Resolved("RateLimiter")
    /\ outcome.status \in {429, 500} /\ outcome.made = Place("RateLimiter")
    /\ handler = "waiting"

\* A chain in the documented order serves every legitimate request: nothing but
\* the deadline and the limiter keeps it from the handler, the limiter only when
\* the address is resolved outside it.  From then on nothing but the deadline keeps
\* the response from it, and that only when it was padded inside the deadline.
DocumentedOrderServes ==
    moving = "over" /\ InDocumentedOrder /\ Legitimate =>
        \/ outcome.status = 200
        \/ /\ outcome.status = 504
           /\ handler = "finished" => Before("Timeout", "Equalizer")
        \/ Limited

\* The stage at place i saw the outcome on its way out.
PassedBy(s) == moving = "over" /\ Has(s) /\ Place(s) < outcome.made

\* A response carries its id and its padding whichever stage made it; only errors
\* escape both.
ResponsesAreTaggedAndPadded ==
    outcome.kind = "ok" =>
        /\ PassedBy("RequestId") => tagged
        /\ PassedBy("Equalizer") => Padded

\* The resolved client is the peer, or is reached from it through trusted proxies:
\* the walk passes over trusted addresses only, and a trusted one is resolved only
\* when the line that is read, if it is text, names no other.  So in a line of
\* addresses what a client writes in front of its own has no effect.  But hops
\* that do not parse are passed over too, and further lines are not read: what
\* stands in front of them, or beside them, may be taken.
ClientIsReachedByTrust ==
    LET line == LineRead(request.forwarded)
        Passable == Trusted \cup {NoAddress}
        text == \A i \in DOMAIN line : line[i] # NoText
    IN  client # Unknown =>
          \/ /\ client = request.peer
             /\ client \in Trusted /\ text => \A i \in DOMAIN line : line[i] \in Passable
          \/ /\ request.peer \in Trusted /\ text
             /\ \E i \in DOMAIN line :
                  /\ line[i] = client
                  /\ \A j \in DOMAIN line : j > i => line[j] \in Passable
                  /\ client \in Trusted => \A j \in DOMAIN line : j < i => line[j] = NoAddress
================================================================================
