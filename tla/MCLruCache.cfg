\* Four keys for three entries: the fourth put evicts, and a put that finds two
\* entries, one more than half of three, drops the expired ones before it inserts.
\* The clock passes the time to live of what is stored at the start.
SPECIFICATION FairSpec
CONSTANTS
    Keys = {"a", "b", "c", "d"}
    Responses = {"r1", "r2"}
    NoResponse = NoResponse
    Miss = Miss
    Ttl = 1
    MaxEntries = 3
    Nodes <- NodeNames
    MaxPuts = 4
    MaxGets = 1
    MaxTime = 2
INVARIANTS
    TypeOK
    SizeCapped
    IndexMatchesEntries
    RecentKeysAreKept
    EvictionsExact
PROPERTIES
    ImplementsContract
    PutReturns
\* The bounds on puts, gets and the clock end every behaviour.
CHECK_DEADLOCK FALSE
