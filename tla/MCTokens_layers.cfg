SPECIFICATION TokensSpec
CONSTANTS
    hs = hs
    hs2 = hs2
    auth = auth
    auth2 = auth2
    billing = billing
    orders = orders
    secret = secret
    secret2 = secret2
    pair = pair
    a = a
    b = b
    Absent = Absent
    Signers <- MCSigners
    Validators <- MCValidators
    Party <- MCParty
    Audiences <- MCAudiences
    Stacks <- MCStacks
    Lifetime = 3
    Leeway = 1
    MaxAhead = 1
    MaxNow = 7
INVARIANT ServedOnSignedClaims
INVARIANT AdmittedOnce
INVARIANT FreshTokenIsAccepted
