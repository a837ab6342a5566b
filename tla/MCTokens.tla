-------------------------------- MODULE MCTokens --------------------------------
(***************************************************************************)
(* Small instances of Tokens: a service that signs and validates with a    *)
(* secret, another service with a secret of its own, two instances of an   *)
(* auth service with a key pair and two services that validate with its    *)
(* public key, their clocks apart both ways.                               *)
(***************************************************************************)
EXTENDS Tokens

CONSTANTS hs, hs2, auth, auth2, billing, orders, \* the parties
          secret, secret2, pair,          \* the keys
          a, b                            \* the audiences

MCSigners == {hs, hs2, auth, auth2}
MCValidators == {hs, billing, orders}

P(alg, key, aud, ahead) == [alg |-> alg, key |-> key, aud |-> aud, ahead |-> ahead]
MCParty == [p \in MCSigners \cup MCValidators |->
              CASE p = hs      -> P("HS256", secret, a, 0)
                [] p = hs2     -> P("HS256", secret2, a, 0)
                [] p = auth    -> P("RS256", pair, a, 1)
                [] p = auth2   -> P("RS256", pair, a, 0)
                [] p = billing -> P("RS256", pair, a, 0)
                [] p = orders  -> P("RS256", pair, b, 1)]

MCAudiences == {{}, {a}, {a, b}}

L(check, claims_, v) == [check |-> check, claims |-> claims_, validator |-> v]
MCStacks ==
    { <<L("Auth", "Identity", billing), L("Auth", "Identity", orders)>>,
      <<L("Auth", "Authority", orders), L("Jwt", "Identity", billing),
        L("Jwt", "Authority", Absent)>>,
      <<L("Jwt", "Identity", billing), L("Jwt", "Identity", orders)>>,
      <<L("Auth", "Identity", hs), L("Jwt", "Identity", hs)>>,
      <<L("Jwt", "Identity", Absent)>> }
================================================================================
