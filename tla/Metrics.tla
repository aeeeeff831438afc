------------------------------ MODULE Metrics ------------------------------
(***************************************************************************)
(* The counters of src/utils/metrics.cpp.  Each is an atomic of its own:   *)
(* the handlers add to them one at a time, and snapshot reads them one     *)
(* after the other while requests go on.  The latencies behind their own   *)
(* mutex are left out.                                                     *)
(***************************************************************************)
EXTENDS Integers, Sequences

VARIABLES
    counters,   \* total_requests_, total_errors_, cache_hits_, ...
    snapshot    \* the snapshot being taken: the counters read so far

metricsVars == <<counters, snapshot>>

CounterNames == {"requests", "errors", "hits", "misses", "tokens"}

\* Plausible fault: the counters read in another order.
ReadOrderReversed == <<"tokens", "misses", "hits", "errors", "requests">>

\* The order in which snapshot loads them.
ReadOrder == <<"requests", "errors", "hits", "misses", "tokens">>

Init ==
    /\ counters = [c \in CounterNames |-> 0]
    /\ snapshot = <<>>

Add(c, n) ==
    /\ counters' = [counters EXCEPT ![c] = @ + n]
    /\ UNCHANGED snapshot

\* snapshot loads its next counter; with the last one it returns, and another
\* snapshot may start.
ReadNext ==
    LET read == Append(snapshot, counters[ReadOrder[Len(snapshot) + 1]])
    IN  /\ snapshot' = IF Len(read) = Len(ReadOrder) THEN <<>> ELSE read
        /\ UNCHANGED counters

Snapped(c) == \E i \in DOMAIN snapshot : ReadOrder[i] = c
Read(c) == snapshot[CHOOSE i \in DOMAIN snapshot : ReadOrder[i] = c]
=============================================================================
