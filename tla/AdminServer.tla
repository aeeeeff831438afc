---------------------------- MODULE AdminServer ----------------------------
(***************************************************************************)
(* The handlers of src/api/admin.cpp that change something, over the       *)
(* gateway that Startup has brought up and the keys of Auth: POST and      *)
(* DELETE of /admin/keys, POST of /admin/routing.  What they let in        *)
(* depends on the admin key, which has gone through the layers of the      *)
(* configuration.  Answers that change nothing (403, 400, 404, and the     *)
(* listings) are stuttering steps; DELETE of /admin/cache is in Gateway.   *)
(***************************************************************************)
EXTENDS Startup, Auth

CONSTANTS
    Headers,         \* the values of the Authorization header, "" for none
    StrategyNames    \* the names a client may send to /admin/routing

VARIABLE
    let_in   \* history: the headers of the requests that changed something

\* What no administrator changes.
bootVars == <<inputVars, phase, at, configVars, registered>>
vars == <<startupVars, authVars, let_in>>

----------------------------------------------------------------------------
\* Plausible fault: an empty admin key compared like any other.
IsAdminUnset(header) == header = settings.admin_key

\* is_admin: the header as it is, without a "Bearer " taken off.
IsAdmin(header) == settings.admin_key # "" /\ header = settings.admin_key

Administers(header) ==
    /\ phase = "serve"
    /\ IsAdmin(header)
    /\ let_in' = let_in \cup {header}

PostKeys(header, raw, tier) ==
    /\ Administers(header)
    /\ CreateKey(raw, tier)
    /\ UNCHANGED <<bootVars, strategy>>

DeleteKey(header, id) ==
    /\ Administers(header)
    /\ RevokeKey(id)
    /\ UNCHANGED <<bootVars, strategy>>

\* set_strategy; a name that is not known is the smart strategy.
PostRouting(header, s) ==
    /\ Administers(header)
    /\ strategy' = StrategyNamed(s)
    /\ UNCHANGED <<bootVars, authVars>>

BootStep == StartupStep /\ UNCHANGED <<authVars, let_in>>

Init == StartupInit /\ AuthInit /\ let_in = {}

Next ==
    \/ BootStep
    \/ \E header \in Headers, raw \in RawKeys, tier \in Tiers : PostKeys(header, raw, tier)
    \/ \E header \in Headers, id \in KeyIds : DeleteKey(header, id)
    \/ \E header \in Headers, s \in StrategyNames : PostRouting(header, s)

Spec == Init /\ [][Next]_vars

\* main waits for nothing until the server runs.
FairSpec == Spec /\ WF_vars(BootStep)

----------------------------------------------------------------------------
\* Nobody changes keys or routing but who sends the admin key that is in force
\* by the layers of the configuration: not the one of the file when a variable
\* replaces it, and nobody at all when it is empty, or was never read because
\* the file broke off before it.
OnlyAdminsAdminister ==
    /\ let_in \subseteq {Layered("admin_key")} \ {""}
    /\ let_in = {} =>
          DOMAIN keys = {} /\ (phase = "serve" => strategy = Layered("routing_strategy"))
=============================================================================
