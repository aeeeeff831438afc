\* Two requests at a time on one key, windows of two seconds of two ticks;
\* the clock runs through the end of the second window and into the third.
SPECIFICATION Spec
CONSTANTS
    Keys = {k1}
    Threads = {t1, t2}
    NoKey = NoKey
    Rpm = 2
    Tpm = 3
    Window = 2
    TicksPerSec = 2
    Estimates = {1, 2}
    MaxTok = 2
    MaxStall = 2
    MaxTime = 9
INVARIANTS
    TypeOK
    AtMostTwoWindowsOfRequests
    RequestsCountIsExact
    TokenOvershootBounded
    RetryAfterSuffices
SYMMETRY Symmetry
CHECK_DEADLOCK TRUE
