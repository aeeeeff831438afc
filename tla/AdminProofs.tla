---------------------------- MODULE AdminProofs ----------------------------
(***************************************************************************)
(* Proofs about AdminServer, for every set of raw keys, every assignment   *)
(* of ids to them, every configuration file and every environment.         *)
(***************************************************************************)
EXTENDS AdminServer, FiniteSetTheorems, TLAPS

\* Every key given out has its own record, as it was given out last.
KeyTable ==
    \A r \in DOMAIN issued :
        /\ keys[HashOf[r]].key_id = IdOf[r]
        /\ keys[HashOf[r]].tier = issued[r]
        /\ keys[HashOf[r]].rpm = Limits(issued[r])[1]
        /\ keys[HashOf[r]].tpm = Limits(issued[r])[2]

CutOffInactive == \A r \in cut_off : ~keys[HashOf[r]].active

AuthInv == KeysTypeOK /\ KeyTable /\ CutOffInactive

\* The limits of a key are two positive numbers, whatever its tier.
LEMMA LimitsPositive ==
    ASSUME NEW tier
    PROVE  /\ Limits(tier)[1] \in Nat \ {0}
           /\ Limits(tier)[2] \in Nat \ {0}
BY DEF Limits

\* authenticate refuses just the keys that are not active.
LEMMA RefusedIsInactive ==
    ASSUME KeysTypeOK, KeyTable, NEW r \in DOMAIN issued
    PROVE  Refused(r) <=> ~keys[HashOf[r]].active
<1>1. HashOf[r] \in DOMAIN keys
  BY DEF KeysTypeOK
<1>2. keys[HashOf[r]].rpm # 0
  BY LimitsPositive DEF KeyTable
<1> QED
  BY <1>1, <1>2 DEF Refused, Authenticate, Slot, NoKeyInfo

\* The tables at start-up are empty.
LEMMA AuthInvInit == AuthInit => AuthInv
BY DEF AuthInit, AuthInv, KeysTypeOK, KeyTable, CutOffInactive

\* create_key writes one record and leaves those of other raw keys alone.
LEMMA CreateKeepsAuthInv ==
    ASSUME AuthInv, NEW raw \in RawKeys, NEW tier \in Tiers, CreateKey(raw, tier)
    PROVE  AuthInv'
<1> USE DEF AuthInv, CreateKey, Slot, Extended
<1>1. DOMAIN issued' = DOMAIN issued \cup {raw} /\ DOMAIN issued' \subseteq RawKeys
  BY DEF KeysTypeOK
<1>2. NewKey(raw, tier) \in KeyRecord
  BY LimitsPositive DEF NewKey, KeyRecord, KeyIds
<1>3. DOMAIN keys' = {HashOf[r] : r \in DOMAIN issued'}
  BY <1>1 DEF KeysTypeOK
<1>4. keys' \in [{HashOf[r] : r \in DOMAIN issued'} -> KeyRecord]
  BY <1>2, <1>3 DEF KeysTypeOK
<1>5. KeysTypeOK'
  BY <1>1, <1>4, BoundsAssumption DEF KeysTypeOK
<1>6. ASSUME NEW r \in DOMAIN issued'
      PROVE  /\ keys'[HashOf[r]] = IF r = raw THEN NewKey(raw, tier) ELSE keys[HashOf[r]]
             /\ issued'[r] = IF r = raw THEN tier ELSE issued[r]
  BY <1>1, <1>3, HashAssumption
<1>7. KeyTable'
  <2> SUFFICES ASSUME NEW r \in DOMAIN issued'
               PROVE  LET k == keys'[HashOf[r]]
                      IN  /\ k.key_id = IdOf[r] /\ k.tier = issued'[r]
                          /\ k.rpm = Limits(issued'[r])[1] /\ k.tpm = Limits(issued'[r])[2]
    BY DEF KeyTable
  <2>1. CASE r = raw
    BY <2>1, <1>6 DEF NewKey
  <2>2. CASE r # raw
    <3>1. r \in DOMAIN issued /\ keys'[HashOf[r]] = keys[HashOf[r]] /\ issued'[r] = issued[r]
      BY <2>2, <1>1, <1>6
    <3> HIDE DEF CreateKey, Extended, Slot
    <3> QED
      BY <3>1 DEF KeyTable
  <2> QED
    BY <2>1, <2>2
<1>8. CutOffInactive'
  BY <1>1, <1>5, <1>6 DEF CutOffInactive, KeysTypeOK
<1> QED
  BY <1>5, <1>7, <1>8

\* revoke_key clears the flag of one record; if its id has one key, of that.
LEMMA RevokeKeepsAuthInv ==
    ASSUME AuthInv, NEW id \in KeyIds, RevokeKey(id)
    PROVE  AuthInv'
<1> USE DEF AuthInv
<1>1. PICK h \in WithId(id) : keys' = Deactivated(h)
  BY DEF RevokeKey
<1>2. h \in DOMAIN keys /\ keys[h].key_id = id
  BY <1>1 DEF WithId
<1>3. issued' = issued /\ created' = created
  BY DEF RevokeKey
<1>4. KeysTypeOK'
  <2>1. keys' \in [{HashOf[r] : r \in DOMAIN issued} -> KeyRecord]
    BY <1>1, <1>2 DEF KeysTypeOK, Deactivated, KeyRecord
  <2>2. revoked' \in [KeyIds -> Nat]
    BY DEF KeysTypeOK, RevokeKey
  <2>3. cut_off' \subseteq DOMAIN issued
    BY DEF KeysTypeOK, RevokeKey, Named
  <2> QED
    BY <2>1, <2>2, <2>3, <1>3 DEF KeysTypeOK
<1>5. ASSUME NEW g \in DOMAIN keys
      PROVE  /\ keys'[g].key_id = keys[g].key_id
             /\ keys'[g].tier = keys[g].tier
             /\ keys'[g].rpm = keys[g].rpm /\ keys'[g].tpm = keys[g].tpm
             /\ keys'[g].active = (keys[g].active /\ g # h)
  BY <1>1, <1>2 DEF KeysTypeOK, Deactivated, KeyRecord
<1>6. KeyTable'
  BY <1>3, <1>5 DEF KeyTable, KeysTypeOK
<1>7. CutOffInactive'
  <2> SUFFICES ASSUME NEW r \in cut_off' PROVE ~keys'[HashOf[r]].active
    BY DEF CutOffInactive
  <2>1. CASE r \in cut_off
    BY <2>1, <1>5 DEF CutOffInactive, KeysTypeOK
  <2>2. CASE r \notin cut_off
    <3>1. PICK q \in Named(id) : Named(id) = {q}
      BY <2>2 DEF RevokeKey
    <3>2. r = q /\ r \in DOMAIN issued
      BY <3>1, <2>2 DEF RevokeKey, Named
    <3>3. PICK p \in DOMAIN issued : h = HashOf[p]
      BY <1>2 DEF KeysTypeOK
    <3>4. p \in Named(id)
      BY <3>3, <1>2 DEF KeyTable, Named
    <3>5. h = HashOf[r]
      BY <3>1, <3>2, <3>3, <3>4
    <3> QED
      BY <3>5, <1>2, <1>5
  <2> QED
    BY <2>1, <2>2
<1> QED
  BY <1>4, <1>6, <1>7

\* Nothing else touches the keys.
LEMMA StutterKeepsAuthInv ==
    ASSUME AuthInv, UNCHANGED authVars
    PROVE  AuthInv'
BY DEF AuthInv, authVars, KeysTypeOK, KeyTable, CutOffInactive, KeyRecord, Limits

\* Every step of the server keeps the tables in order.
LEMMA AuthInvariant == Spec => []AuthInv
<1>1. Init => AuthInv
  BY AuthInvInit DEF Init
<1>2. AuthInv /\ [Next]_vars => AuthInv'
  <2> SUFFICES ASSUME AuthInv, [Next]_vars PROVE AuthInv'
    OBVIOUS
  <2>1. CASE BootStep
    BY <2>1, StutterKeepsAuthInv DEF BootStep, authVars
  <2>2. CASE \E header \in Headers, raw \in RawKeys, tier \in Tiers :
                PostKeys(header, raw, tier)
    BY <2>2, CreateKeepsAuthInv DEF PostKeys
  <2>3. CASE \E header \in Headers, id \in KeyIds : DeleteKey(header, id)
    BY <2>3, RevokeKeepsAuthInv DEF DeleteKey
  <2>4. CASE \E header \in Headers, s \in StrategyNames : PostRouting(header, s)
    BY <2>4, StutterKeepsAuthInv DEF PostRouting, authVars
  <2>5. CASE UNCHANGED vars
    BY <2>5, StutterKeepsAuthInv DEF vars, authVars
  <2> QED
    BY <2>1, <2>2, <2>3, <2>4, <2>5 DEF Next
<1> QED
  BY <1>1, <1>2, PTL DEF Spec

\* The key table holds the keys given out and no others, under their hashes.
THEOREM KeyTableTyped == Spec => []KeysTypeOK
BY AuthInvariant, PTL DEF AuthInv

\* A key that was the only one of its id when the id was revoked stays refused.
THEOREM RevocationHolds == Spec => []RevokedStaysRefused
<1>1. AuthInv => RevokedStaysRefused
  BY RefusedIsInactive DEF AuthInv, RevokedStaysRefused, CutOffInactive, KeysTypeOK
<1> QED
  BY <1>1, AuthInvariant, PTL

\* A key in use has the tier and the limits it was last given out with.
THEOREM TiersKept == Spec => []KeysKeepTheirTier
<1>1. AuthInv => KeysKeepTheirTier
  BY RefusedIsInactive DEF AuthInv, KeysKeepTheirTier, KeyTable, KeysTypeOK,
       Authenticate, Slot
<1> QED
  BY <1>1, AuthInvariant, PTL

\* The keys of an id that are refused: never more than its revocations.
Lost(id) == {r \in Named(id) : ~keys[HashOf[r]].active}

LostInv ==
    \A id \in KeyIds : IsFiniteSet(Lost(id)) /\ Cardinality(Lost(id)) <= revoked[id]

\* A new key is active: it only shrinks the sets of lost keys.
LEMMA CreateKeepsLostInv ==
    ASSUME AuthInv, LostInv, NEW raw \in RawKeys, NEW tier \in Tiers, CreateKey(raw, tier)
    PROVE  LostInv'
<1> SUFFICES ASSUME NEW id \in KeyIds
             PROVE  IsFiniteSet(Lost(id)') /\ Cardinality(Lost(id)') <= revoked'[id]
  BY DEF LostInv
<1>1. ASSUME NEW r \in DOMAIN issued, r # raw
      PROVE  keys'[HashOf[r]] = keys[HashOf[r]]
  BY <1>1, HashAssumption
     DEF AuthInv, KeysTypeOK, CreateKey, Extended, Slot
<1>2. keys'[HashOf[raw]].active
  BY DEF CreateKey, Extended, Slot, NewKey
<1>3. DOMAIN issued' = DOMAIN issued \cup {raw}
  BY DEF CreateKey, Extended
<1>4. Lost(id)' \subseteq Lost(id)
  BY <1>1, <1>2, <1>3 DEF Lost, Named
<1>5. IsFiniteSet(Lost(id)) /\ Cardinality(Lost(id)) <= revoked[id]
  BY DEF LostInv
<1>6. IsFiniteSet(Lost(id)') /\ Cardinality(Lost(id)') <= Cardinality(Lost(id))
  BY <1>4, <1>5, FS_Subset
<1>7. revoked'[id] = revoked[id] /\ revoked[id] \in Nat
  BY DEF CreateKey, AuthInv, KeysTypeOK
<1>8. Cardinality(Lost(id)) \in Nat /\ Cardinality(Lost(id)') \in Nat
  BY <1>5, <1>6, FS_CardinalityType
<1> QED
  BY <1>5, <1>6, <1>7, <1>8

\* A revocation loses at most the key of the record it deactivates.
LEMMA RevokeKeepsLostInv ==
    ASSUME AuthInv, LostInv, NEW id \in KeyIds, RevokeKey(id)
    PROVE  LostInv'
<1> SUFFICES ASSUME NEW i \in KeyIds
             PROVE  IsFiniteSet(Lost(i)') /\ Cardinality(Lost(i)') <= revoked'[i]
  BY DEF LostInv
<1>1. PICK h \in WithId(id) : keys' = Deactivated(h)
  BY DEF RevokeKey
<1>2. PICK p \in DOMAIN issued : h = HashOf[p]
  BY DEF WithId, AuthInv, KeysTypeOK
<1>3. IdOf[p] = id
  BY <1>2 DEF WithId, AuthInv, KeyTable
<1>4. issued' = issued
  BY DEF RevokeKey
<1>5. ASSUME NEW r \in DOMAIN issued, r # p
      PROVE  keys'[HashOf[r]] = keys[HashOf[r]]
  <2>1. HashOf[r] # h
    BY <1>2, <1>5, HashAssumption DEF AuthInv, KeysTypeOK
  <2> QED
    BY <2>1, <1>1, <1>5 DEF Deactivated, AuthInv, KeysTypeOK
<1>6. IsFiniteSet(Lost(i)) /\ Cardinality(Lost(i)) <= revoked[i] /\ revoked[i] \in Nat
  BY DEF LostInv, AuthInv, KeysTypeOK
<1>7. Cardinality(Lost(i)) \in Nat
  BY <1>6, FS_CardinalityType
<1>8. CASE i = id
  <2>1. Lost(i)' \subseteq Lost(i) \cup {p}
    BY <1>4, <1>5 DEF Lost, Named
  <2>2. /\ IsFiniteSet(Lost(i) \cup {p})
        /\ Cardinality(Lost(i) \cup {p}) <= Cardinality(Lost(i)) + 1
    BY <1>6, <1>7, FS_AddElement
  <2>3. IsFiniteSet(Lost(i)') /\ Cardinality(Lost(i)') <= Cardinality(Lost(i) \cup {p})
    BY <2>1, <2>2, FS_Subset
  <2>4. revoked'[i] = revoked[i] + 1
    BY <1>8 DEF RevokeKey, AuthInv, KeysTypeOK
  <2>5. Cardinality(Lost(i)') \in Nat /\ Cardinality(Lost(i) \cup {p}) \in Nat
    BY <2>2, <2>3, FS_CardinalityType
  <2> QED
    BY <1>6, <1>7, <2>2, <2>3, <2>4, <2>5
<1>9. CASE i # id
  <2>1. Lost(i)' = Lost(i)
    BY <1>3, <1>4, <1>5, <1>9 DEF Lost, Named
  <2>2. revoked'[i] = revoked[i]
    BY <1>9 DEF RevokeKey, AuthInv, KeysTypeOK
  <2> QED
    BY <2>1, <2>2, <1>6
<1> QED
  BY <1>8, <1>9

\* No more keys of an id are refused than its revocations were answered.
THEOREM OnlyRevokedRefused == Spec => []OnlyRevokedAreRefused
<1>1. Init => LostInv
  <2> SUFFICES ASSUME Init, NEW id \in KeyIds
               PROVE  IsFiniteSet(Lost(id)) /\ Cardinality(Lost(id)) <= revoked[id]
    BY DEF LostInv
  <2>1. Lost(id) = {} /\ revoked[id] = 0
    BY DEF Init, AuthInit, Lost, Named
  <2> QED
    BY <2>1, FS_EmptySet
<1>2. AuthInv /\ LostInv /\ [Next]_vars => LostInv'
  <2> SUFFICES ASSUME AuthInv, LostInv, [Next]_vars PROVE LostInv'
    OBVIOUS
  <2>1. ASSUME UNCHANGED authVars PROVE LostInv'
    BY <2>1 DEF LostInv, Lost, Named, authVars
  <2>2. CASE \E header \in Headers, raw \in RawKeys, tier \in Tiers :
                PostKeys(header, raw, tier)
    BY <2>2, CreateKeepsLostInv DEF PostKeys
  <2>3. CASE \E header \in Headers, id \in KeyIds : DeleteKey(header, id)
    BY <2>3, RevokeKeepsLostInv DEF DeleteKey
  <2>4. CASE \/ BootStep
             \/ \E header \in Headers, s \in StrategyNames : PostRouting(header, s)
             \/ UNCHANGED vars
    BY <2>1, <2>4 DEF BootStep, PostRouting, vars, authVars
  <2> QED
    BY <2>2, <2>3, <2>4 DEF Next
<1>3. AuthInv /\ LostInv => OnlyRevokedAreRefused
  <2> SUFFICES ASSUME AuthInv, LostInv, NEW id \in KeyIds
               PROVE  Cardinality({r \in Named(id) : Refused(r)}) <= revoked[id]
    BY DEF OnlyRevokedAreRefused
  <2>1. {r \in Named(id) : Refused(r)} = Lost(id)
    BY RefusedIsInactive DEF AuthInv, Lost, Named
  <2> QED
    BY <2>1 DEF LostInv
<1> QED
  BY <1>1, <1>2, <1>3, AuthInvariant, PTL DEF Spec

\* How far the settings are in each phase of the start.
SettingsInv ==
    /\ file \in Files /\ env \in Envs /\ at \in Nat \ {0}
    /\ DOMAIN settings = DOMAIN DefaultSettings
    /\ phase = "open" => at = 1
    /\ phase = "read" => file.state = "read"
    /\ phase \in {"open", "read"} =>
          /\ \A i \in 1..at - 1 : i \in DOMAIN file.reads /\ file.reads[i].value # Unreadable
          /\ \A s \in DOMAIN settings : settings[s] = FileLayer(s, 1..at - 1)
    /\ phase \in {"file_error", "override"} =>
          \A s \in DOMAIN settings : settings[s] = FileLayer(s, Kept)
    /\ phase = "reload" =>
          \A s \in DOMAIN settings : s \in DOMAIN env \/ settings[s] = FileLayer(s, Kept)
    /\ phase \in {"register", "construct", "run", "serve"} =>
          \A s \in DOMAIN settings : settings[s] = Layered(s)

\* One more read gives one setting its value and leaves the others.
LEMMA OneMoreRead ==
    ASSUME file \in Files, NEW n \in DOMAIN file.reads, NEW s \in DOMAIN DefaultSettings
    PROVE  FileLayer(s, 1..n) =
              IF file.reads[n].what # s THEN FileLayer(s, 1..n - 1)
              ELSE IF s = "routing_strategy" THEN StrategyNamed(file.reads[n].value)
              ELSE file.reads[n].value
<1>1. n \in Nat \ {0} /\ 1..n = (1..n - 1) \cup {n} /\ 1..n \subseteq DOMAIN file.reads
  BY FilesAssumption
<1>2. CASE file.reads[n].what # s
  <2>1. ReadsOf(s, 1..n) = ReadsOf(s, 1..n - 1)
    BY <1>1, <1>2 DEF ReadsOf
  <2> QED
    BY <2>1, <1>2 DEF FileLayer
<1>3. CASE file.reads[n].what = s
  <2>1. \A i \in DOMAIN file.reads \ {n} : file.reads[i].what # s
    BY <1>3, FilesAssumption, DefaultsAssumption
  <2>2. ReadsOf(s, 1..n) = {n}
    BY <1>1, <1>3, <2>1 DEF ReadsOf
  <2>3. TheRead(ReadsOf(s, 1..n)) = n
    BY <2>2 DEF TheRead
  <2> QED
    BY <2>2, <2>3, <1>3 DEF FileLayer
<1> QED
  BY <1>2, <1>3

\* Where the loading breaks off or ends, what was read is what is kept.
LEMMA KeptAtError ==
    ASSUME file \in Files, file.state = "read", NEW n \in DOMAIN file.reads,
           \A i \in 1..n - 1 : file.reads[i].value # Unreadable,
           file.reads[n].value = Unreadable
    PROVE  Kept = 1..n - 1
<1>1. n \in Nat \ {0} /\ Len(file.reads) \in Nat /\ DOMAIN file.reads = 1..Len(file.reads)
  BY FilesAssumption
<1> QED
  BY <1>1 DEF Kept

LEMMA KeptAtEnd ==
    ASSUME file \in Files, file.state = "read",
           \A i \in DOMAIN file.reads : file.reads[i].value # Unreadable
    PROVE  Kept = DOMAIN file.reads
BY FilesAssumption DEF Kept

\* What the settings should be depends on the input alone.
LEMMA SameFileSameLayers ==
    ASSUME UNCHANGED inputVars, NEW s
    PROVE  /\ Kept' = Kept /\ FileLayer(s, Kept)' = FileLayer(s, Kept)
           /\ Layered(s)' = Layered(s)
<1>1. file' = file /\ env' = env
  BY DEF inputVars
<1>2. Kept' = Kept
  BY <1>1 DEF Kept
<1>3. FileLayer(s, Kept)' = FileLayer(s, Kept)
  BY <1>1, <1>2 DEF FileLayer, ReadsOf
<1> QED
  BY <1>1, <1>2, <1>3 DEF Layered

LEMMA ReadKeepsSettings ==
    ASSUME SettingsInv, ReadNext
    PROVE  SettingsInv'
<1> DEFINE r == file.reads[at]
<1>1. at \in DOMAIN file.reads /\ file' = file /\ env' = env /\ file \in Files
  BY FilesAssumption DEF ReadNext, SettingsInv, inputVars
<1>2. CASE r.value = Unreadable
  <2>1. Kept = 1..at - 1
    BY <1>1, <1>2, KeptAtError DEF SettingsInv, ReadNext
  <2>3. phase' = "file_error" /\ at' = at /\ settings' = settings
    BY <1>2 DEF ReadNext, configVars
  <2>4. ASSUME NEW s \in DOMAIN settings
        PROVE  settings'[s] = FileLayer(s, Kept)'
    <3>1. settings[s] = FileLayer(s, 1..at - 1)
      BY DEF SettingsInv, ReadNext
    <3> QED
      BY <3>1, <2>1, <2>3, SameFileSameLayers DEF ReadNext
  <2> QED
    BY <1>1, <2>3, <2>4 DEF SettingsInv
<1>3. CASE r.value # Unreadable
  <2>1. phase' = phase /\ at' = at + 1 /\ Applied(r) /\ phase = "read"
    BY <1>3 DEF ReadNext
  <2>2. r.what \in Repeated \/ r.what \in DOMAIN DefaultSettings
    BY <1>1, FilesAssumption
  <2>3. DOMAIN settings' = DOMAIN settings
    BY <2>1 DEF Applied
  <2>4. ASSUME NEW s \in DOMAIN settings
        PROVE  settings'[s] = IF r.what # s THEN settings[s]
                              ELSE IF s = "routing_strategy" THEN StrategyNamed(r.value)
                              ELSE r.value
    BY <2>1, DefaultsAssumption DEF Applied, SettingsInv, Repeated
  <2>5. ASSUME NEW s \in DOMAIN settings
        PROVE  settings'[s] = FileLayer(s, 1..at)
    BY <2>1, <2>4, <1>1, OneMoreRead DEF SettingsInv
  <2>6. at' - 1 = at /\ at' \in Nat \ {0} /\ at \in Nat
    BY <2>1 DEF SettingsInv
  <2>7. ASSUME NEW s \in DOMAIN settings
        PROVE  FileLayer(s, 1..at - 1)' = FileLayer(s, 1..at)
    BY <1>1, <2>6 DEF FileLayer, ReadsOf
  <2>8. \A i \in 1..at : i \in DOMAIN file.reads /\ file.reads[i].value # Unreadable
    BY <1>1, <1>3, <2>1, <2>6 DEF SettingsInv
  <2> QED
    BY <1>1, <2>1, <2>3, <2>5, <2>6, <2>7, <2>8 DEF SettingsInv, ReadNext
<1> QED
  BY <1>2, <1>3

LEMMA OpenKeepsSettings ==
    ASSUME SettingsInv, OpenFile
    PROVE  SettingsInv'
<1>1. UNCHANGED <<inputVars, at, settings>> /\ phase = "open" /\ at = 1
  BY DEF OpenFile, SettingsInv, configVars
<1>2. file' = file /\ env' = env /\ file \in Files
  BY <1>1 DEF inputVars, SettingsInv
<1>3. \A s \in DOMAIN settings : settings[s] = FileLayer(s, {})
  BY <1>1 DEF SettingsInv
<1>4. CASE file.state = "read"
  <2>1. phase' = "read"
    BY <1>4 DEF OpenFile
  <2>2. ASSUME NEW s \in DOMAIN settings
        PROVE  settings'[s] = FileLayer(s, 1..at - 1)'
    BY <1>1, <1>2, <1>3 DEF FileLayer, ReadsOf
  <2> QED
    BY <1>1, <1>2, <1>4, <2>1, <2>2 DEF SettingsInv
<1>5. CASE file.state # "read"
  <2>1. phase' \in {"override", "file_error"}
    BY <1>2, <1>5, FilesAssumption DEF OpenFile
  <2>2. Kept = {}
    BY <1>5 DEF Kept
  <2>3. ASSUME NEW s \in DOMAIN settings
        PROVE  settings'[s] = FileLayer(s, Kept)'
    BY <1>1, <1>3, <2>2, SameFileSameLayers
  <2> QED
    BY <1>1, <1>2, <2>1, <2>3 DEF SettingsInv
<1> QED
  BY <1>4, <1>5

LEMMA EndOfReadKeepsSettings ==
    ASSUME SettingsInv, ReadDone
    PROVE  SettingsInv'
<1>1. /\ UNCHANGED <<inputVars, at, settings>>
      /\ phase = "read" /\ phase' = "override" /\ at > Len(file.reads)
  BY DEF ReadDone, configVars
<1>2. file' = file /\ env' = env /\ file \in Files /\ file.state = "read"
  BY <1>1 DEF inputVars, SettingsInv
<1>3. Len(file.reads) \in Nat /\ DOMAIN file.reads = 1..Len(file.reads)
  BY <1>2, FilesAssumption
<1>4. 1..at - 1 = DOMAIN file.reads
  BY <1>1, <1>3 DEF SettingsInv
<1>5. Kept = DOMAIN file.reads
  BY <1>1, <1>2, <1>4, KeptAtEnd DEF SettingsInv
<1>6. ASSUME NEW s \in DOMAIN settings
      PROVE  settings'[s] = FileLayer(s, Kept)'
  BY <1>1, <1>4, <1>5, SameFileSameLayers DEF SettingsInv
<1> QED
  BY <1>1, <1>2, <1>6 DEF SettingsInv

\* The environment has its way over what the file left, once or twice.
LEMMA EnvKeepsSettings ==
    ASSUME SettingsInv, OverrideAfterFile \/ LoadFromEnv
    PROVE  SettingsInv'
<1>1. UNCHANGED <<inputVars, at>> /\ file' = file /\ env' = env
  BY DEF OverrideAfterFile, LoadFromEnv, inputVars
<1>2. CASE BadNumber
  <2>1. phase' = "dead" /\ settings' = settings
    BY <1>2 DEF OverrideAfterFile, LoadFromEnv, Reload, ApplyEnv, configVars
  <2> QED
    BY <1>1, <2>1 DEF SettingsInv
<1>3. CASE ~BadNumber
  <2>1. settings' = [s \in DOMAIN settings |-> IF s \in DOMAIN env THEN env[s] ELSE settings[s]]
    BY <1>3 DEF OverrideAfterFile, LoadFromEnv, Reload, ApplyEnv
  <2>2. \/ phase = "override" /\ phase' = "reload"
        \/ phase = "reload" /\ phase' = "register"
    BY <1>3 DEF OverrideAfterFile, LoadFromEnv, Reload, ApplyEnv
  <2>3. ASSUME NEW s \in DOMAIN settings, s \notin DOMAIN env
        PROVE  settings'[s] = FileLayer(s, Kept)'
    BY <2>1, <2>2, <2>3, <1>1, SameFileSameLayers DEF SettingsInv
  <2>4. ASSUME NEW s \in DOMAIN settings
        PROVE  settings'[s] = Layered(s)'
    BY <2>1, <2>3, <1>1 DEF Layered
  <2> QED
    BY <1>1, <2>1, <2>2, <2>3, <2>4 DEF SettingsInv
<1> QED
  BY <1>2, <1>3

\* The other steps leave the settings alone.
LEMMA RestKeepsSettings ==
    ASSUME SettingsInv, UNCHANGED <<inputVars, at, settings>>,
           \/ FileError \/ InitializeRegistry \/ ConstructRouter \/ RunServer
           \/ phase' = phase
    PROVE  SettingsInv'
<1>1. file' = file /\ env' = env
  BY DEF inputVars
<1>2. ASSUME NEW s \in DOMAIN settings
      PROVE  FileLayer(s, Kept)' = FileLayer(s, Kept) /\ Layered(s)' = Layered(s)
  BY SameFileSameLayers
<1>3. CASE phase' = phase
  <2>1. ASSUME NEW s \in DOMAIN settings
        PROVE  FileLayer(s, 1..at - 1)' = FileLayer(s, 1..at - 1)
    BY <1>1 DEF FileLayer, ReadsOf
  <2> QED
    BY <1>1, <1>2, <1>3, <2>1 DEF SettingsInv
<1>4. CASE FileError
  BY <1>1, <1>2, <1>4 DEF SettingsInv, FileError, AfterFileError
<1>5. CASE InitializeRegistry \/ ConstructRouter \/ RunServer
  BY <1>1, <1>2, <1>5 DEF SettingsInv, InitializeRegistry, ConstructRouter, RunServer
<1> QED
  BY <1>3, <1>4, <1>5

LEMMA SettingsInvariant == Spec => []SettingsInv
<1>1. Init => SettingsInv
  <2> SUFFICES ASSUME Init PROVE SettingsInv
    OBVIOUS
  <2>1. file \in Files /\ env \in Envs /\ phase = "open" /\ at = 1 /\ settings = DefaultSettings
    BY DEF Init, StartupInit
  <2>2. ASSUME NEW s \in DOMAIN settings
        PROVE  settings[s] = FileLayer(s, 1..at - 1)
    BY <2>1 DEF FileLayer, ReadsOf
  <2> QED
    BY <2>1, <2>2 DEF SettingsInv
<1>2. SettingsInv /\ [Next]_vars => SettingsInv'
  <2> SUFFICES ASSUME SettingsInv, [Next]_vars PROVE SettingsInv'
    OBVIOUS
  <2>1. CASE BootStep
    <3>1. FileError \/ InitializeRegistry \/ ConstructRouter \/ RunServer
             => UNCHANGED <<inputVars, at, settings>>
      BY DEF FileError, InitializeRegistry, ConstructRouter, RunServer, configVars
    <3> QED
      BY <2>1, <3>1, OpenKeepsSettings, ReadKeepsSettings, EndOfReadKeepsSettings,
         EnvKeepsSettings, RestKeepsSettings DEF BootStep, StartupStep
  <2>2. ASSUME UNCHANGED bootVars PROVE SettingsInv'
    BY <2>2, RestKeepsSettings DEF bootVars, configVars
  <2>3. CASE \/ \E header \in Headers, raw \in RawKeys, tier \in Tiers :
                   PostKeys(header, raw, tier)
             \/ \E header \in Headers, id \in KeyIds : DeleteKey(header, id)
             \/ \E header \in Headers, s \in StrategyNames : PostRouting(header, s)
             \/ UNCHANGED vars
    BY <2>2, <2>3 DEF PostKeys, DeleteKey, PostRouting, vars, startupVars, bootVars
  <2> QED
    BY <2>1, <2>3 DEF Next
<1> QED
  BY <1>1, <1>2, PTL DEF Spec

\* A gateway that serves runs on defaults < file < environment.
THEOREM LayersHold == Spec => []LayersApplied
<1>1. SettingsInv => LayersApplied
  BY DEF SettingsInv, LayersApplied
<1> QED
  BY <1>1, SettingsInvariant, PTL

\* Before the server runs nobody is let in, and then only by the admin key in force.
AdminInv ==
    /\ let_in # {} => phase = "serve"
    /\ let_in \subseteq {Layered("admin_key")} \ {""}
    /\ let_in = {} =>
          /\ DOMAIN keys = {}
          /\ phase \in {"run", "serve"} => strategy = Layered("routing_strategy")

\* Keys and routing are changed with the admin key that is in force, or not at all.
THEOREM OnlyAdmins == Spec => []OnlyAdminsAdminister
<1>1. Init => AdminInv
  BY DEF Init, StartupInit, AuthInit, AdminInv
<1>2. SettingsInv /\ AdminInv /\ [Next]_vars => AdminInv'
  <2> SUFFICES ASSUME SettingsInv, AdminInv, [Next]_vars PROVE AdminInv'
    OBVIOUS
  <2>1. UNCHANGED inputVars
    BY DEF Next, BootStep, StartupStep, OpenFile, ReadNext, ReadDone, FileError,
           OverrideAfterFile, LoadFromEnv, InitializeRegistry, ConstructRouter, RunServer,
           PostKeys, DeleteKey, PostRouting, bootVars, vars, startupVars
  <2>2. /\ Layered("admin_key")' = Layered("admin_key")
        /\ Layered("routing_strategy")' = Layered("routing_strategy")
    BY <2>1, SameFileSameLayers
  <2>3. ASSUME NEW header \in Headers, Administers(header), phase' = phase
        PROVE  AdminInv'
    <3>1. header = Layered("admin_key") /\ header # "" /\ let_in' = let_in \cup {header}
      BY <2>3, DefaultsAssumption DEF Administers, IsAdmin, SettingsInv
    <3> QED
      BY <3>1, <2>2, <2>3 DEF AdminInv, Administers
  <2>4. CASE BootStep
    <3>1. UNCHANGED <<keys, let_in>> /\ phase # "serve"
      BY <2>4 DEF BootStep, authVars, StartupStep, OpenFile, ReadNext, ReadDone, FileError,
           OverrideAfterFile, LoadFromEnv, InitializeRegistry, ConstructRouter, RunServer
    <3>2. phase' \in {"run", "serve"} => strategy' = Layered("routing_strategy")
      <4>1. CASE ConstructRouter
        BY <4>1, DefaultsAssumption DEF ConstructRouter, SettingsInv
      <4>2. CASE RunServer
        BY <3>1, <4>2 DEF RunServer, AdminInv
      <4>3. CASE ~ConstructRouter /\ ~RunServer
        <5>1. phase' \notin {"run", "serve"}
          BY <2>4, <4>3, FilesAssumption DEF SettingsInv, BootStep, StartupStep, OpenFile,
             ReadNext, ReadDone, FileError, AfterFileError, OverrideAfterFile, LoadFromEnv,
             Reload, ApplyEnv, InitializeRegistry
        <5> QED
          BY <5>1
      <4> QED
        BY <4>1, <4>2, <4>3
    <3> QED
      BY <3>1, <3>2, <2>2 DEF AdminInv
  <2>5. CASE \/ \E header \in Headers, raw \in RawKeys, tier \in Tiers :
                   PostKeys(header, raw, tier)
             \/ \E header \in Headers, id \in KeyIds : DeleteKey(header, id)
             \/ \E header \in Headers, s \in StrategyNames : PostRouting(header, s)
    <3>1. \E header \in Headers : Administers(header) /\ phase' = phase
      BY <2>5 DEF PostKeys, DeleteKey, PostRouting, bootVars
    <3> QED
      BY <3>1, <2>3
  <2>6. CASE UNCHANGED vars
    BY <2>2, <2>6 DEF AdminInv, vars, startupVars, authVars
  <2> QED
    BY <2>4, <2>5, <2>6 DEF Next
<1>3. AdminInv => OnlyAdminsAdminister
  BY DEF AdminInv, OnlyAdminsAdminister
<1> QED
  BY <1>1, <1>2, <1>3, SettingsInvariant, PTL DEF Spec

----------------------------------------------------------------------------
\* The entries that file can put into config_.providers, before and after the
\* environment has given them its keys.
ListedEntries ==
    {file.reads[i].value : i \in {j \in DOMAIN file.reads :
        file.reads[j].what = "provider" /\ file.reads[j].value # Unreadable}}
Entries == ListedEntries \cup {Override(p) : p \in ListedEntries}

ListedIn(K) == {file.reads[i].value : i \in ReadsOf("provider", K)}
WithKeysInForce == {Override(p) : p \in ListedProviders}
Held == {providers[i] : i \in DOMAIN providers}

\* What config_.providers holds in each phase of the start, and what the
\* registry makes of it.
ProvidersInv ==
    /\ providers \in Seq(Entries)
    /\ phase \in {"open", "read"} => Held = ListedIn(1..at - 1)
    /\ phase \in {"file_error", "override"} => Held = ListedProviders
    /\ phase = "reload" => Held = ListedProviders \/ Held = WithKeysInForce
    /\ phase = "register" => Held = WithKeysInForce
    /\ phase \in {"construct", "run", "serve"} =>
          registered = {p.name : p \in {q \in WithKeysInForce : IsCreated(q)}}

\* An override keeps the name and the switch, and sets the key in force.
LEMMA OverrideSets ==
    ASSUME file \in Files, NEW p \in ListedEntries
    PROVE  /\ Override(p).name = p.name /\ Override(p).enabled = p.enabled
           /\ Override(p).api_key = KeyInForce(p)
           /\ Override(Override(p)) = Override(p)
<1>1. {"name", "enabled", "api_key"} \subseteq DOMAIN p
  BY EntriesAssumption DEF ListedEntries
<1>2. CASE p.name \in DOMAIN env
  <2> DEFINE q == [p EXCEPT !.api_key = env[p.name]]
  <2>1. Override(p) = q
    BY <1>2 DEF Override
  <2>2. q.name = p.name /\ q.enabled = p.enabled /\ q.api_key = env[p.name]
    BY <1>1
  <2>3. [q EXCEPT !.api_key = env[p.name]] = q
    OBVIOUS
  <2> HIDE DEF q
  <2>4. Override(q) = [q EXCEPT !.api_key = env[p.name]]
    BY <2>2, <1>2 DEF Override
  <2> QED
    BY <2>1, <2>2, <2>3, <2>4, <1>2 DEF KeyInForce
<1>3. CASE p.name \notin DOMAIN env
  BY <1>3 DEF Override, KeyInForce
<1> QED
  BY <1>2, <1>3

LEMMA OverrideOfEntry ==
    ASSUME file \in Files, NEW p \in Entries
    PROVE  Override(p) \in Entries
<1>1. CASE p \in ListedEntries
  BY <1>1 DEF Entries
<1>2. CASE p \notin ListedEntries
  <2>1. PICK q \in ListedEntries : p = Override(q)
    BY <1>2 DEF Entries
  <2>2. Override(p) = p
    BY <2>1, OverrideSets
  <2> QED
    BY <2>2
<1> QED
  BY <1>1, <1>2

LEMMA ListedAreEntries ==
    ASSUME file \in Files
    PROVE  ListedProviders \subseteq ListedEntries
<1> SUFFICES ASSUME NEW i \in ReadsOf("provider", Kept)
             PROVE  file.reads[i].value \in ListedEntries
  BY DEF ListedProviders
<1>1. i \in DOMAIN file.reads /\ file.reads[i].what = "provider"
  BY DEF ReadsOf, Kept
<1>2. file.reads[i].value # Unreadable
  <2>1. file.state = "read"
    BY DEF ReadsOf, Kept
  <2>2. i \in Nat
    BY <1>1, FilesAssumption
  <2>3. ~ (i < i)
    BY <2>2
  <2> QED
    BY <1>1, <2>1, <2>3 DEF ReadsOf, Kept
<1> QED
  BY <1>1, <1>2 DEF ListedEntries

\* All of these depend on the input alone.
LEMMA SameFileSameEntries ==
    ASSUME UNCHANGED inputVars
    PROVE  /\ file' = file /\ env' = env /\ Entries' = Entries
           /\ ListedProviders' = ListedProviders /\ WithKeysInForce' = WithKeysInForce
<1>1. file' = file /\ env' = env
  BY DEF inputVars
<1>2. ListedEntries' = ListedEntries
  BY <1>1 DEF ListedEntries
<1>3. \A p : Override(p)' = Override(p)
  BY <1>1 DEF Override
<1>4. Entries' = Entries
  <2>1. {Override(p) : p \in ListedEntries}' = {Override(p) : p \in ListedEntries}
    BY <1>1, <1>2 DEF Override
  <2> QED
    BY <1>2, <2>1 DEF Entries
<1>5. Kept' = Kept
  BY <1>1 DEF Kept
<1>6. ListedProviders' = ListedProviders
  BY <1>1, <1>5 DEF ListedProviders, ReadsOf
<1>7. WithKeysInForce' = WithKeysInForce
  BY <1>1, <1>6 DEF WithKeysInForce, Override
<1> QED
  BY <1>1, <1>4, <1>6, <1>7

\* One more read lists its entry, if it is one.
LEMMA OneMoreEntry ==
    ASSUME file \in Files, NEW n \in DOMAIN file.reads
    PROVE  ListedIn(1..n) =
              IF file.reads[n].what = "provider"
              THEN ListedIn(1..n - 1) \cup {file.reads[n].value}
              ELSE ListedIn(1..n - 1)
<1>1. n \in Nat \ {0} /\ 1..n = (1..n - 1) \cup {n}
  BY FilesAssumption
<1>2. CASE file.reads[n].what = "provider"
  <2>1. ReadsOf("provider", 1..n) = ReadsOf("provider", 1..n - 1) \cup {n}
    BY <1>1, <1>2 DEF ReadsOf
  <2> QED
    BY <1>2, <2>1 DEF ListedIn
<1>3. CASE file.reads[n].what # "provider"
  <2>1. ReadsOf("provider", 1..n) = ReadsOf("provider", 1..n - 1)
    BY <1>1, <1>3 DEF ReadsOf
  <2> QED
    BY <1>3, <2>1 DEF ListedIn
<1> QED
  BY <1>2, <1>3

LEMMA ReadKeepsProviders ==
    ASSUME SettingsInv, ProvidersInv, ReadNext
    PROVE  ProvidersInv'
<1> DEFINE r == file.reads[at]
<1>1. /\ at \in DOMAIN file.reads /\ file \in Files /\ phase = "read" /\ at \in Nat \ {0}
      /\ UNCHANGED inputVars
  BY FilesAssumption DEF ReadNext, SettingsInv
<1>2. Held = ListedIn(1..at - 1)
  BY <1>1 DEF ProvidersInv
<1>3. CASE r.value = Unreadable
  <2>1. Kept = 1..at - 1
    BY <1>1, <1>3, KeptAtError DEF SettingsInv
  <2>2. phase' = "file_error" /\ at' = at /\ providers' = providers
    BY <1>3 DEF ReadNext, configVars
  <2>3. ListedProviders = ListedIn(1..at - 1)
    BY <2>1 DEF ListedProviders, ListedIn
  <2>4. Held' = Held
    BY <2>2 DEF Held
  <2>5. Held' = ListedProviders'
    BY <1>1, <1>2, <2>3, <2>4, SameFileSameEntries
  <2>6. providers' \in Seq(Entries)'
    BY <1>1, <2>2, SameFileSameEntries DEF ProvidersInv
  <2> QED
    BY <2>2, <2>5, <2>6 DEF ProvidersInv
<1>4. CASE r.value # Unreadable
  <2>1. phase' = "read" /\ at' = at + 1 /\ Applied(r)
    BY <1>1, <1>4 DEF ReadNext
  <2>2. at' - 1 = at
    BY <1>1, <2>1
  <2>3. ListedIn(1..at - 1)' = ListedIn(1..at)
    <3>1. file' = file
      BY <1>1 DEF inputVars
    <3> QED
      BY <2>2, <3>1 DEF ListedIn, ReadsOf
  <2>4. CASE r.what = "provider"
    <3>1. r.value \in Entries
      BY <1>1, <1>4, <2>4 DEF Entries, ListedEntries
    <3>2. providers' = Append(providers, r.value)
      BY <2>1, <2>4 DEF Applied
    <3> HIDE DEF r
    <3>3. providers' \in Seq(Entries) /\ Held' = Held \cup {r.value}
      <4>1. providers \in Seq(Entries)
        BY DEF ProvidersInv
      <4>2. /\ Len(providers) \in Nat /\ DOMAIN providers = 1..Len(providers)
            /\ DOMAIN providers' = 1..Len(providers) + 1
            /\ \A i \in DOMAIN providers : providers'[i] = providers[i]
            /\ providers'[Len(providers) + 1] = r.value
        BY <3>1, <3>2, <4>1
      <4>3. providers' \in Seq(Entries)
        BY <3>1, <3>2, <4>1
      <4>4. DOMAIN providers' = DOMAIN providers \cup {Len(providers) + 1}
        BY <4>2
      <4>5. Held' = Held \cup {r.value}
        BY <4>2, <4>4 DEF Held
      <4> QED
        BY <4>3, <4>5
    <3>4. ListedIn(1..at) = ListedIn(1..at - 1) \cup {r.value}
      BY <1>1, <2>4, OneMoreEntry DEF r
    <3>5. providers' \in Seq(Entries)'
      BY <3>3, <1>1, SameFileSameEntries
    <3> QED
      BY <1>2, <2>1, <2>3, <3>3, <3>4, <3>5 DEF ProvidersInv
  <2>5. CASE r.what # "provider"
    <3>1. providers' = providers
      BY <2>1, <2>5 DEF Applied
    <3>2. ListedIn(1..at) = ListedIn(1..at - 1)
      BY <1>1, <2>5, OneMoreEntry
    <3>3. Held' = Held
      BY <3>1 DEF Held
    <3>4. providers' \in Seq(Entries)'
      BY <3>1, <1>1, SameFileSameEntries DEF ProvidersInv
    <3> QED
      BY <1>2, <2>1, <2>3, <3>2, <3>3, <3>4 DEF ProvidersInv
  <2> QED
    BY <2>4, <2>5
<1> QED
  BY <1>3, <1>4

\* The steps that leave the list alone.
LEMMA RestKeepsProviders ==
    ASSUME SettingsInv, ProvidersInv, UNCHANGED <<inputVars, providers>>,
           \/ OpenFile \/ ReadDone \/ FileError \/ InitializeRegistry \/ ConstructRouter \/ RunServer
           \/ UNCHANGED <<phase, at, registered>>
    PROVE  ProvidersInv'
<1>1. /\ file' = file /\ env' = env /\ Entries' = Entries /\ file \in Files
      /\ ListedProviders' = ListedProviders /\ WithKeysInForce' = WithKeysInForce
  BY SameFileSameEntries DEF SettingsInv
<1>2. Held' = Held /\ providers' \in Seq(Entries)'
  BY <1>1 DEF Held, ProvidersInv
<1>3. CASE UNCHANGED <<phase, at, registered>>
  <2>1. ListedIn(1..at - 1)' = ListedIn(1..at - 1)
    BY <1>1, <1>3 DEF ListedIn, ReadsOf
  <2>2. {p.name : p \in {q \in WithKeysInForce : IsCreated(q)}}' =
            {p.name : p \in {q \in WithKeysInForce : IsCreated(q)}}
    BY <1>1 DEF IsCreated
  <2> QED
    BY <1>1, <1>2, <1>3, <2>1, <2>2 DEF ProvidersInv
<1>4. CASE OpenFile
  <2>1. at = 1 /\ at' = at /\ phase = "open"
    BY <1>4 DEF OpenFile, SettingsInv
  <2>2. Held = {} /\ ListedIn(1..at - 1)' = {}
    BY <2>1 DEF ProvidersInv, ListedIn, ReadsOf
  <2>3. CASE file.state = "read"
    <3>1. phase' = "read"
      BY <1>4, <2>3 DEF OpenFile
    <3> QED
      BY <1>2, <2>2, <3>1 DEF ProvidersInv
  <2>4. CASE file.state # "read"
    <3>1. phase' \in {"override", "file_error"}
      BY <1>1, <1>4, <2>4, FilesAssumption DEF OpenFile
    <3>2. ListedProviders = {}
      BY <2>4 DEF ListedProviders, ReadsOf, Kept
    <3> QED
      BY <1>1, <1>2, <2>2, <3>1, <3>2 DEF ProvidersInv
  <2> QED
    BY <2>3, <2>4
<1>5. CASE ReadDone
  <2>1. phase = "read" /\ phase' = "override" /\ at > Len(file.reads) /\ file.state = "read"
    BY <1>5 DEF ReadDone, SettingsInv
  <2>2. Len(file.reads) \in Nat /\ DOMAIN file.reads = 1..Len(file.reads)
    BY <1>1, FilesAssumption
  <2>3. 1..at - 1 = DOMAIN file.reads
    BY <2>1, <2>2 DEF SettingsInv
  <2>4. Kept = DOMAIN file.reads
    BY <1>1, <2>1, <2>3, KeptAtEnd DEF SettingsInv
  <2>5. Held = ListedProviders
    BY <2>1, <2>3, <2>4 DEF ProvidersInv, ListedIn, ListedProviders
  <2> QED
    BY <1>1, <1>2, <2>1, <2>5 DEF ProvidersInv
<1>6. CASE FileError
  <2>1. phase = "file_error" /\ phase' = "reload"
    BY <1>6 DEF FileError, AfterFileError
  <2> QED
    BY <1>1, <1>2, <2>1 DEF ProvidersInv
<1>7. CASE InitializeRegistry
  <2>1. /\ phase = "register" /\ phase' = "construct"
        /\ registered' = {providers[i].name : i \in {j \in DOMAIN providers : IsCreated(providers[j])}}
    BY <1>7 DEF InitializeRegistry
  <2>2. registered' = {p.name : p \in {q \in Held : IsCreated(q)}}
    BY <2>1 DEF Held
  <2>3. Held = WithKeysInForce
    BY <2>1 DEF ProvidersInv
  <2>4. registered' = {p.name : p \in {q \in WithKeysInForce : IsCreated(q)}}'
    BY <1>1, <2>2, <2>3 DEF IsCreated
  <2> QED
    BY <1>2, <2>1, <2>4 DEF ProvidersInv
<1>8. CASE ConstructRouter \/ RunServer
  <2>1. /\ phase \in {"construct", "run"} /\ phase' \in {"run", "serve", "dead"}
        /\ registered' = registered
    BY <1>8 DEF ConstructRouter, RunServer
  <2>2. {p.name : p \in {q \in WithKeysInForce : IsCreated(q)}}' =
            {p.name : p \in {q \in WithKeysInForce : IsCreated(q)}}
    BY <1>1 DEF IsCreated
  <2> QED
    BY <1>2, <2>1, <2>2 DEF ProvidersInv
<1> QED
  BY <1>3, <1>4, <1>5, <1>6, <1>7, <1>8

\* The keys of the environment, given once or twice, are given once and for all.
LEMMA EnvKeepsProviders ==
    ASSUME SettingsInv, ProvidersInv, OverrideAfterFile \/ LoadFromEnv
    PROVE  ProvidersInv'
<1>1. UNCHANGED inputVars /\ file \in Files
  BY DEF OverrideAfterFile, LoadFromEnv, SettingsInv
<1>2. /\ file' = file /\ env' = env /\ Entries' = Entries
      /\ ListedProviders' = ListedProviders /\ WithKeysInForce' = WithKeysInForce
  BY <1>1, SameFileSameEntries
<1>3. CASE BadNumber
  <2>1. phase' = "dead" /\ providers' = providers
    BY <1>3 DEF OverrideAfterFile, LoadFromEnv, Reload, ApplyEnv, configVars
  <2> QED
    BY <1>2, <2>1 DEF ProvidersInv
<1>4. CASE ~BadNumber
  <2>1. providers' = [i \in DOMAIN providers |-> Override(providers[i])]
    BY <1>4 DEF OverrideAfterFile, LoadFromEnv, Reload, ApplyEnv
  <2>2. \/ phase = "override" /\ phase' = "reload"
        \/ phase = "reload" /\ phase' = "register"
    BY <1>4 DEF OverrideAfterFile, LoadFromEnv, Reload, ApplyEnv
  <2>3. providers \in Seq(Entries)
    BY DEF ProvidersInv
  <2>4. \A i \in DOMAIN providers : Override(providers[i]) \in Entries
    <3>1. \A i \in DOMAIN providers : providers[i] \in Entries
      BY <2>3
    <3> QED
      BY <3>1, <1>1, OverrideOfEntry
  <2>5. providers' \in Seq(Entries)
    <3>1. Len(providers) \in Nat /\ DOMAIN providers = 1..Len(providers)
      BY <2>3
    <3>2. providers' \in [1..Len(providers) -> Entries]
      BY <2>1, <2>4, <3>1
    <3> QED
      BY <3>1, <3>2
  <2>6. Held' = {Override(p) : p \in Held}
    BY <2>1 DEF Held
  <2>7. Held = ListedProviders \/ Held = WithKeysInForce
    BY <2>2 DEF ProvidersInv
  <2>8. {Override(p) : p \in WithKeysInForce} = WithKeysInForce
    <3>1. \A p \in ListedProviders : Override(Override(p)) = Override(p)
      BY <1>1, ListedAreEntries, OverrideSets
    <3> QED
      BY <3>1 DEF WithKeysInForce
  <2>9. Held' = WithKeysInForce
    BY <2>6, <2>7, <2>8 DEF WithKeysInForce
  <2> QED
    BY <1>2, <2>2, <2>5, <2>9 DEF ProvidersInv
<1> QED
  BY <1>3, <1>4

LEMMA ProvidersInvariant == Spec => []ProvidersInv
<1>1. Init => ProvidersInv
  <2> SUFFICES ASSUME Init PROVE ProvidersInv
    OBVIOUS
  <2>1. phase = "open" /\ at = 1 /\ providers = <<>>
    BY DEF Init, StartupInit
  <2>2. Held = {} /\ ListedIn(1..at - 1) = {}
    BY <2>1 DEF Held, ListedIn, ReadsOf
  <2>3. providers \in Seq(Entries)
    BY <2>1
  <2> QED
    BY <2>1, <2>2, <2>3 DEF ProvidersInv
<1>2. SettingsInv /\ ProvidersInv /\ [Next]_vars => ProvidersInv'
  <2> SUFFICES ASSUME SettingsInv, ProvidersInv, [Next]_vars PROVE ProvidersInv'
    OBVIOUS
  <2>1. CASE BootStep
    <3>1. (\/ OpenFile \/ ReadDone \/ FileError
           \/ InitializeRegistry \/ ConstructRouter \/ RunServer)
          => UNCHANGED <<inputVars, providers>>
      BY DEF OpenFile, ReadDone, FileError, InitializeRegistry, ConstructRouter, RunServer, configVars
    <3>2. CASE \/ OpenFile \/ ReadDone \/ FileError
               \/ InitializeRegistry \/ ConstructRouter \/ RunServer
      BY <3>1, <3>2, RestKeepsProviders
    <3>3. CASE ReadNext
      BY <3>3, ReadKeepsProviders
    <3>4. CASE OverrideAfterFile \/ LoadFromEnv
      BY <3>4, EnvKeepsProviders
    <3> QED
      BY <2>1, <3>2, <3>3, <3>4 DEF BootStep, StartupStep
  <2>2. ASSUME UNCHANGED bootVars PROVE ProvidersInv'
    BY <2>2, RestKeepsProviders DEF bootVars, configVars
  <2>3. CASE \/ \E header \in Headers, raw \in RawKeys, tier \in Tiers :
                   PostKeys(header, raw, tier)
             \/ \E header \in Headers, id \in KeyIds : DeleteKey(header, id)
             \/ \E header \in Headers, s \in StrategyNames : PostRouting(header, s)
             \/ UNCHANGED vars
    BY <2>2, <2>3 DEF PostKeys, DeleteKey, PostRouting, vars, startupVars, bootVars
  <2> QED
    BY <2>1, <2>3 DEF Next
<1> QED
  BY <1>1, <1>2, SettingsInvariant, PTL DEF Spec

\* A provider can be called just when it is listed, enabled and has a key in
\* force, wherever the loading of the file broke off.
THEOREM RegistryHolds == Spec => []RegisteredAsConfigured
<1>1. ASSUME SettingsInv, ProvidersInv, phase = "serve"
      PROVE  registered = KnownProviders \cap
                {p.name : p \in {q \in ListedProviders : q.enabled /\ KeyInForce(q) # ""}}
  <2>1. registered = {p.name : p \in {q \in WithKeysInForce : IsCreated(q)}}
    BY <1>1 DEF ProvidersInv
  <2>2. \A p \in ListedProviders :
            /\ Override(p).name = p.name /\ Override(p).enabled = p.enabled
            /\ Override(p).api_key = KeyInForce(p)
    BY <1>1, ListedAreEntries, OverrideSets DEF SettingsInv
  <2>3. ASSUME NEW p \in ListedProviders
        PROVE  IsCreated(Override(p)) <=>
                   p.enabled /\ KeyInForce(p) # "" /\ p.name \in KnownProviders
    <3>1. /\ Override(p).name = p.name /\ Override(p).enabled = p.enabled
          /\ Override(p).api_key = KeyInForce(p)
      BY <2>2
    <3>2. IsCreated(Override(p)) <=> /\ Override(p).enabled
                                    /\ Override(p).api_key # ""
                                    /\ Override(p).name \in KnownProviders
      BY Zenon DEF IsCreated
    <3> QED
      BY <3>1, <3>2, Zenon
  <2>4. registered = {Override(p).name : p \in {q \in ListedProviders : IsCreated(Override(q))}}
    BY <2>1 DEF WithKeysInForce
  <2>5. registered = {p.name : p \in {q \in ListedProviders :
                         q.enabled /\ KeyInForce(q) # "" /\ q.name \in KnownProviders}}
    <3> DEFINE Created(q) == q.enabled /\ KeyInForce(q) # "" /\ q.name \in KnownProviders
    <3>1. \A q \in ListedProviders : IsCreated(Override(q)) <=> Created(q)
      BY <2>3, Zenon
    <3> HIDE DEF Created
    <3>2. {q \in ListedProviders : IsCreated(Override(q))} = {q \in ListedProviders : Created(q)}
      BY <3>1, Zenon
    <3>3. registered = {Override(p).name : p \in {q \in ListedProviders : Created(q)}}
      BY <2>4, <3>2, Zenon
    <3>4. \A p \in {q \in ListedProviders : Created(q)} : Override(p).name = p.name
      BY <2>2, Zenon
    <3>5. registered = {p.name : p \in {q \in ListedProviders : Created(q)}}
      BY <3>3, <3>4
    <3> QED
      BY <3>5 DEF Created
  <2> QED
    BY <2>5
<1>2. SettingsInv /\ ProvidersInv => RegisteredAsConfigured
  BY <1>1 DEF RegisteredAsConfigured
<1> QED
  BY <1>2, SettingsInvariant, ProvidersInvariant, PTL
=============================================================================
