CONSTANTS
    g1 = g1
    g2 = g2
    g3 = g3
    Guests <- MCGuests
    GuestName <- MCGuestName
    PoolMax = 3
    ConnMax = 1

SPECIFICATION Spec
\* Every request has returned: the server waits for new requests.
CHECK_DEADLOCK FALSE

INVARIANT CleanWhenQuiet
 
PROPERTY RequestsComplete
