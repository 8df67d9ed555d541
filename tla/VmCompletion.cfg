SPECIFICATION FairSpec
CONSTANT MaxFaults = 3
INVARIANT QuotaIsAuthoritative
PROPERTY Contract
PROPERTY Returns
CHECK_DEADLOCK FALSE
