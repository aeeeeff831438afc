\* A configuration with "max_entries": 0.
SPECIFICATION FairSpec
CONSTANTS
    Keys = {"a", "b", "c"}
    Responses = {"r1", "r2"}
    NoResponse = NoResponse
    Miss = Miss
    Ttl = 1
    MaxEntries = 0
    Nodes <- NodeNames
    MaxPuts = 4
    MaxGets = 2
    MaxTime = 3
PROPERTIES
    PutReturns
\* The bounds on puts, gets and the clock end every behaviour.
CHECK_DEADLOCK FALSE
