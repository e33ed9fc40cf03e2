CONSTANTS
    h = h  r1 = r1  r2 = r2  g = g  None = None
    Publisher = h
    Readers = {r1, r2}
    Groups = {g}
    Ports = {1, 2, 3, 4, 5, 6}
    Offering <- AllOfferings
    Requesting <- AllRequests
    MaxOffers = 2
    MaxFinds <- OneFind
SPECIFICATION FairSpec
INVARIANTS TypeOK CountsItsOptions EndsOnlyWhenMixed AddressesAgree
PROPERTIES EventuallyTold
CHECK_DEADLOCK FALSE
