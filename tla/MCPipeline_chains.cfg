SPECIFICATION Spec
CONSTANTS
    users = users
    any = any
    pUsers = pUsers
    pOther = pOther
    GET = GET
    proxy = proxy
    proxy2 = proxy2
    c1 = c1
    c2 = c2
    NoAddress = NoAddress
    NoText = NoText
    Unknown = Unknown
    Methods = {GET}
    Routes <- MCRoutes
    Paths <- MCPaths
    Matches <- MCMatches
    Width = 2
    Addresses <- MCAddresses
    Trusted <- MCTrusted
    Chains <- MCChains
    Requests <- MCRequests
    Tables <- MCTables
    PermIds = {0, 1, 2}
    Budget = 2
    MinDuration = 1
    MaxTime = 3
INVARIANT TypeOK
INVARIANT HandlerIsGuarded
INVARIANT DocumentedOrderServes
INVARIANT ResponsesAreTaggedAndPadded
INVARIANT ClientIsReachedByTrust
