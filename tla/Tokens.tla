--------------------------------- MODULE Tokens ---------------------------------
(***************************************************************************)
(* Tokens and who takes them: the claims (locals/claims.rs), the signers   *)
(* and validators (locals/hs256.rs, locals/rs256.rs) and the layers of one *)
(* request that ask for claims, the Auth<T> middleware (middleware/auth.rs)*)
(* and the Jwt<T> extractor (extractors/auth.rs), which identity() and     *)
(* authority() call as well.                                               *)
(*                                                                         *)
(* A token is signed at one place and time and judged at others: every     *)
(* party reads its own clock, and time passes between two layers of a      *)
(* request.  The jsonwebtoken library is external: decode checks the       *)
(* algorithm, the signature, the audience and, with a leeway, exp.  A key  *)
(* pair is one key, held by those who sign with it.                        *)
(***************************************************************************)
EXTENDS Integers, Sequences

CONSTANTS Signers,    \* HS256Signer and RS256Signer values
          Validators, \* HS256Signer and RS256Validator values
          Party,      \* of each: alg, key, aud and how far its clock is ahead
          Audiences,  \* the audience lists that claims are made with
          Stacks,     \* the layers, from the outermost, a request may meet
          Absent,     \* no token, no validator in the app data
          Lifetime,   \* 500 seconds
          Leeway,     \* the library's default: 60 seconds
          MaxAhead,   \* the most a clock is ahead of another
          MaxNow      \* bound: the ticks of a behaviour

Kinds == {"Identity", "Authority"}
Layers == [check : {"Auth", "Jwt"}, claims : Kinds, validator : Validators \cup {Absent}]

ASSUME TokensAssumption ==
    /\ \A p \in Signers \cup Validators : Party[p].ahead \in 0..MaxAhead
    /\ Stacks \subseteq Seq(Layers)
    /\ Absent \notin Validators
    /\ {Lifetime, Leeway, MaxAhead, MaxNow} \subseteq Nat
    /\ MaxAhead <= Leeway

VARIABLES now,     \* the time
          token,   \* the token that was issued, if any, and when
          stack,   \* the layers the request meets
          header,  \* what its Authorization header holds
          cookie,  \* what its access_token cookie holds
          layer,   \* the layer it has reached, 0 before it is sent
          claims,  \* the kinds of claims in its extensions
          answer,  \* how it was answered
          judged   \* history: when each layer let it in, or turned it away

sent == <<stack, header, cookie>>
tokensVars == <<now, token, sent, layer, claims, answer, judged>>

Clock(p) == now + Party[p].ahead

-------------------------------------------------------------------------------
(* Signing *)

\* Identity::new, Authority::new: valid from the wall clock on.
NewClaims(kind, aud, at) == [kind |-> kind, aud |-> aud, exp |-> at + Lifetime]

\* The claims are signed as they are, whatever audience the signer has.
Sign(s, c) == [claims |-> c, alg |-> Party[s].alg, key |-> Party[s].key,
               by |-> s, issued |-> now]

Tokens == [claims : [kind : Kinds, aud : Audiences, exp : Nat],
           alg : {"HS256", "RS256"}, key : {Party[s].key : s \in Signers},
           by : Signers, issued : 0..MaxNow]

TokensInit ==
    /\ now = 0
    /\ token = Absent
    /\ stack \in Stacks
    /\ header = "absent"
    /\ cookie = "absent"
    /\ layer = 0
    /\ claims = {}
    /\ answer = "none"
    /\ judged = <<>>

TimePasses ==
    /\ now < MaxNow /\ answer = "none"
    /\ now' = now + 1
    /\ UNCHANGED <<token, sent, layer, claims, answer, judged>>

Issue(s) ==
    /\ token = Absent
    /\ \E kind \in Kinds, aud \in Audiences :
         token' = Sign(s, NewClaims(kind, aud, Clock(s)))
    /\ UNCHANGED <<now, sent, layer, claims, answer, judged>>

\* The client sends its request, with the token or without.
Send ==
    /\ layer = 0
    /\ header' \in {"absent", "unreadable", "other", "token"}
    /\ cookie' \in {"absent", "other", "token"}
    /\ "token" \in {header', cookie'} => token # Absent
    /\ layer' = 1
    /\ UNCHANGED <<now, token, stack, claims, answer, judged>>

-------------------------------------------------------------------------------
(* Validating *)

\* The Authorization header counts when it can be read; else the cookie.
Presented == IF header \in {"absent", "unreadable"} THEN cookie ELSE header

\* An Authority has every field of an Identity, and not the other way round.
Deserialises(kind, T) == T = "Identity" \/ kind = "Authority"

\* The token passes what the validator was made with: algorithm, key, audience.
Trusts(v) ==
    /\ token.alg = Party[v].alg /\ token.key = Party[v].key
    /\ Party[v].aud \in token.claims.aud

\* Slip: the leeway is set to zero.
Validates_Strict(v, T) ==
    /\ Presented = "token" /\ Trusts(v)
    /\ token.claims.exp >= Clock(v)
    /\ Deserialises(token.claims.kind, T)

\* Slip: validate_exp is switched off.
Validates_NoExp(v, T) ==
    /\ Presented = "token" /\ Trusts(v)
    /\ Deserialises(token.claims.kind, T)

\* validate(): the claims of the token as a T.
Validates(v, T) ==
    /\ Presented = "token" /\ Trusts(v)
    /\ token.claims.exp + Leeway >= Clock(v)
    /\ Deserialises(token.claims.kind, T)

Reached == stack[layer]
Waiting == layer \in 1..Len(stack) /\ answer = "none"

\* The next layer is entered, or the handler, and that answers.
Go == /\ layer' = layer + 1
      /\ answer' = IF layer = Len(stack) THEN "served" ELSE answer
      /\ judged' = Append(judged, now)

Reject(status) == /\ answer' = status
                  /\ judged' = Append(judged, now)
                  /\ UNCHANGED <<now, token, sent, layer, claims>>

\* A T is in the extensions: it is taken as it is.
Known ==
    /\ Waiting /\ Reached.claims \in claims
    /\ Go
    /\ UNCHANGED <<now, token, sent, claims>>

\* Slip: the extractor asks again even when the claims are in the extensions.
Judging_Again ==
    Waiting /\ (Reached.check = "Auth" => Reached.claims \notin claims)

\* A validator is asked only for claims that are not in the extensions yet.
Judging == Waiting /\ Reached.claims \notin claims

\* Auth inserts the claims into the extensions; the extractor hands them to
\* whoever asked and leaves the extensions alone.
Admit ==
    /\ Judging /\ Reached.validator # Absent
    /\ Validates(Reached.validator, Reached.claims)
    /\ claims' = IF Reached.check = "Auth" THEN claims \cup {Reached.claims}
                                           ELSE claims
    /\ Go
    /\ UNCHANGED <<now, token, sent>>

\* No token, or not a valid one.
Refuse ==
    /\ Judging /\ Reached.validator # Absent
    /\ ~ Validates(Reached.validator, Reached.claims)
    /\ Reject("unauthorized")

\* The extractor finds no validator in the app data.
NoValidator ==
    /\ Judging /\ Reached.validator = Absent
    /\ Reject("no validator")

AtRest == answer # "none" /\ UNCHANGED tokensVars

TokensNext ==
    \/ TimePasses \/ Send
    \/ \E s \in Signers : Issue(s)
    \/ Known \/ Admit \/ Refuse \/ NoValidator
    \/ AtRest

TokensSpec == TokensInit /\ [][TokensNext]_tokensVars

-------------------------------------------------------------------------------
(* Properties *)

\* The layer whose validator decided about the claims that layer i saw: the
\* outermost Auth for them, else layer i itself.
Decider(i) ==
    LET auths == {j \in 1..i : /\ stack[j].check = "Auth"
                               /\ stack[j].claims = stack[i].claims}
    IN  IF auths = {} THEN i ELSE CHOOSE j \in auths : \A k \in auths : j <= k

\* Whatever layers a request went through and however long that took, each saw
\* claims that a holder of the deciding validator's key signed for its audience,
\* with the fields asked for, and no older than the lifetime, the leeway and
\* the clocks allow when they were judged.
ServedOnSignedClaims ==
    answer = "served" => \A i \in 1..Len(stack) :
        LET v == stack[Decider(i)].validator IN
        /\ v # Absent /\ Presented = "token"
        /\ Party[token.by].key = Party[v].key
        /\ Party[v].aud \in token.claims.aud
        /\ stack[i].claims = "Authority" => token.claims.kind = "Authority"
        /\ judged[Decider(i)] - token.issued <= Lifetime + Leeway + MaxAhead

\* Claims are validated once: what an Auth<T> let in no inner layer that asks
\* for a T turns away, however late it is reached and whatever its validator.
AdmittedOnce ==
    answer \in {"unauthorized", "no validator"} => Decider(layer) = layer

\* A token that was made for the audience of the validator, with its key and the
\* claims asked for, is accepted for its whole lifetime although the clocks of
\* the two differ.
FreshTokenIsAccepted ==
    answer = "unauthorized" /\ Presented = "token" =>
        LET v == Reached.validator IN
        \/ Party[token.by].key # Party[v].key \/ Party[token.by].alg # Party[v].alg
        \/ Party[v].aud \notin token.claims.aud
        \/ ~ Deserialises(token.claims.kind, Reached.claims)
        \/ judged[layer] - token.issued > Lifetime
================================================================================
