---------------------------- MODULE CostTracker ----------------------------
(***************************************************************************)
(* The cost ledger of src/cost_tracker.cpp: what each API key has spent,   *)
(* and a bounded history of priced requests.  Every operation holds mu_.   *)
(* A cost is in units of 1e-8 USD, a price in 1e-5 USD per 1K tokens.      *)
(***************************************************************************)
EXTENDS Integers, Sequences, FiniteSetsExt

CONSTANTS
    ApiKeys,      \* Authorization header values
    NoKey,        \* a request without one
    Pricing,      \* pricing_: <<provider, model>> |-> [input, output]
    MaxHistory    \* MAX_HISTORY, 100000 in the code

VARIABLES
    history,        \* history_: sequence of [id, api_key, provider, cost]
    spend_by_key    \* spend_by_key_: what each key has spent

costVars == <<history, spend_by_key>>

\* The price of a provider:model pair the table does not know.
DefaultPricing == [input |-> 200, output |-> 200]

\* get_pricing
PricingOf(provider, model) ==
    IF <<provider, model>> \in DOMAIN Pricing THEN Pricing[<<provider, model>>]
    ELSE DefaultPricing

\* estimate_cost; record prices a request in the same way.
EstimateCost(provider, model, input, output) ==
    LET p == PricingOf(provider, model)
    IN  input * p.input + output * p.output

Init ==
    /\ history = <<>>
    /\ spend_by_key = [k \in ApiKeys |-> 0]

\* The oldest record leaves a full history.
KeptHistory == IF Len(history) >= MaxHistory THEN Tail(history) ELSE history

\* Plausible fault: the spending of a key overwritten by its last request.
RecordOverwriting(id, api_key, provider, cost) ==
    /\ spend_by_key' = IF api_key = NoKey THEN spend_by_key
                       ELSE [spend_by_key EXCEPT ![api_key] = cost]
    /\ history' = Append(KeptHistory,
                    [id |-> id, api_key |-> api_key, provider |-> provider, cost |-> cost])

\* record
Record(id, api_key, provider, cost) ==
    /\ spend_by_key' = IF api_key = NoKey THEN spend_by_key
                       ELSE [spend_by_key EXCEPT ![api_key] = @ + cost]
    /\ history' = Append(KeptHistory,
                    [id |-> id, api_key |-> api_key, provider |-> provider, cost |-> cost])

\* get_summary: what the history still knows of a key's spending.
CostOfRecords(S) == MapThenSumSet(LAMBDA i : history[i].cost, S)

\* Plausible fault: the records of all keys summed up.
SummaryOfAllKeys(api_key) == CostOfRecords(DOMAIN history)

SummaryTotal(api_key) == CostOfRecords({i \in DOMAIN history : history[i].api_key = api_key})
=============================================================================
