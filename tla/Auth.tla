-------------------------------- MODULE Auth --------------------------------
(***************************************************************************)
(* The virtual keys of src/middleware/auth.cpp.  keys_ maps the hash of a  *)
(* raw key to its record; an administrator knows a key by its key_id,      *)
(* "gw-" and eight characters, of which six are the same in every key, so  *)
(* that two keys may well have one id.  Every operation holds mu_.         *)
(*                                                                         *)
(* Owners and budgets are left out: nothing reads them.  expires_at is     *)
(* never set, and so never checked against a time.  AdminServer calls the  *)
(* operations and says when.                                               *)
(***************************************************************************)
EXTENDS Integers, FiniteSets

CONSTANTS
    RawKeys,     \* what generate_key may return, and what clients may send
    HashOf,      \* hash_key: raw key |-> hash
    IdOf,        \* raw key |-> its key_id
    Tiers,       \* the tiers keys are created with
    MaxCreated,  \* bound on the keys created
    MaxRevoked   \* bound on the revocations answered

ASSUME HashAssumption ==
    /\ DOMAIN HashOf = RawKeys
    /\ \A r, q \in RawKeys : HashOf[r] = HashOf[q] => r = q
ASSUME IdAssumption == DOMAIN IdOf = RawKeys
ASSUME BoundsAssumption == MaxCreated \in Nat /\ MaxRevoked \in Nat

VARIABLES
    keys,      \* keys_: the records of the hashes in use
    created,   \* history: how many keys were created
    issued,    \* history: the raw keys given out |-> the tier each was given
    revoked,   \* history: key_id |-> how often revoke_key said yes to it
    cut_off    \* history: the keys whose revocation could mean no other

authVars == <<keys, created, issued, revoked, cut_off>>

KeyIds == {IdOf[r] : r \in RawKeys}
NoKeyInfo == [tier |-> "none", rpm |-> 0, tpm |-> 0]

Extended(f, x, y) == [z \in DOMAIN f \cup {x} |-> IF z = x THEN y ELSE f[z]]

----------------------------------------------------------------------------
\* The limits of the four tiers, and of a VirtualKey of any other.
Limits(tier) ==
    CASE tier = "free"       -> <<20, 40000>>
      [] tier = "pro"        -> <<120, 500000>>
      [] tier = "team"       -> <<600, 2000000>>
      [] tier = "enterprise" -> <<6000, 20000000>>
      [] OTHER               -> <<60, 100000>>

\* Plausible fault: keys_ indexed by key_id, which the administrator names.
SlotById(raw) == IdOf[raw]

\* keys_[hash_key(raw)]
Slot(raw) == HashOf[raw]

NewKey(raw, tier) ==
    [key_id |-> IdOf[raw], tier |-> tier, rpm |-> Limits(tier)[1], tpm |-> Limits(tier)[2],
     active |-> TRUE]

\* create_key.  The generator is seeded with 32 bits: it may return a key it
\* has returned before, whose record is then replaced.
CreateKey(raw, tier) ==
    /\ created < MaxCreated
    /\ created' = created + 1
    /\ keys' = Extended(keys, Slot(raw), NewKey(raw, tier))
    /\ issued' = Extended(issued, raw, tier)
    /\ cut_off' = cut_off \ {raw}
    /\ UNCHANGED revoked

WithId(id) == {h \in DOMAIN keys : keys[h].key_id = id}

\* Plausible fault: the loop of revoke_key goes on after its first match.
DeactivatedAll(h) ==
    [g \in DOMAIN keys |-> IF keys[g].key_id = keys[h].key_id
                           THEN [keys[g] EXCEPT !.active = FALSE] ELSE keys[g]]

\* Plausible fault: the record is erased, and can no longer be listed.
DeactivatedErased(h) == [g \in DOMAIN keys \ {h} |-> keys[g]]

Deactivated(h) == [keys EXCEPT ![h].active = FALSE]

Named(id) == {r \in DOMAIN issued : IdOf[r] = id}

\* revoke_key: the first match in the order of an unordered_map, active or
\* not; false when no key has the id, and nothing changes.
RevokeKey(id) ==
    /\ revoked[id] < MaxRevoked
    /\ \E h \in WithId(id) : keys' = Deactivated(h)
    /\ revoked' = [revoked EXCEPT ![id] = @ + 1]
    /\ cut_off' = IF \E r \in Named(id) : Named(id) = {r}
                  THEN cut_off \cup Named(id) ELSE cut_off
    /\ UNCHANGED <<created, issued>>

\* Plausible fault: the active flag is not looked at.
AuthenticateAny(raw) ==
    IF Slot(raw) \in DOMAIN keys
    THEN [tier |-> keys[Slot(raw)].tier, rpm |-> keys[Slot(raw)].rpm,
          tpm |-> keys[Slot(raw)].tpm]
    ELSE NoKeyInfo

\* authenticate, of a header that is the raw key with or without "Bearer ".
Authenticate(raw) ==
    IF Slot(raw) \in DOMAIN keys /\ keys[Slot(raw)].active
    THEN [tier |-> keys[Slot(raw)].tier, rpm |-> keys[Slot(raw)].rpm,
          tpm |-> keys[Slot(raw)].tpm]
    ELSE NoKeyInfo

AuthInit ==
    /\ keys = [h \in {} |-> NoKeyInfo]
    /\ created = 0
    /\ issued = [r \in {} |-> "none"]
    /\ revoked = [id \in KeyIds |-> 0]
    /\ cut_off = {}

----------------------------------------------------------------------------
KeyRecord == [key_id : KeyIds, tier : Tiers, rpm : Nat, tpm : Nat, active : BOOLEAN]

\* The key table holds the keys given out and no others, under their hashes.
KeysTypeOK ==
    /\ keys \in [{HashOf[r] : r \in DOMAIN issued} -> KeyRecord]
    /\ created \in Nat
    /\ DOMAIN issued \subseteq RawKeys /\ issued \in [DOMAIN issued -> Tiers]
    /\ revoked \in [KeyIds -> Nat]
    /\ cut_off \subseteq DOMAIN issued

Refused(raw) == Authenticate(raw) = NoKeyInfo

\* A key that was the only one of its id when that id was revoked is refused
\* from then on, whatever keys are created and revoked later, also ones with
\* the same id; only the generator giving out the very key again revives it.
RevokedStaysRefused == \A r \in cut_off : Refused(r)

\* A revocation costs at most one key its use, and only a key of the id that was
\* named: of the keys of one id, no more are refused than revocations of the id
\* were answered.  Which one it is, revoke_key does not say: where keys share an
\* id, it may not be the one that was meant.
OnlyRevokedAreRefused ==
    \A id \in KeyIds : Cardinality({r \in Named(id) : Refused(r)}) <= revoked[id]

\* A key in use has the tier and the limits it was last given out with, also
\* when other keys share its id.
KeysKeepTheirTier ==
    \A r \in DOMAIN issued : ~Refused(r) =>
        LET tier == issued[r]
        IN  Authenticate(r) = [tier |-> tier, rpm |-> Limits(tier)[1],
                               tpm |-> Limits(tier)[2]]
=============================================================================
