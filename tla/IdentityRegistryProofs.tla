----------------------- MODULE IdentityRegistryProofs -----------------------
(* Verdicts from the cache are fresh, for any wallets, profiles and bounds: *)
(* every change to what a verdict is about raises one of the two versions,  *)
(* so the sum a verdict was kept with can only fall behind.                 *)
EXTENDS IdentityRegistry, TLAPS

\* What the registry adds to the types of the authority.
RegistryType ==
    /\ identity \in [Wallets -> Identities \cup {NoIdentity}]
    /\ country \in [Wallets -> Nat]
    /\ identityVersion \in [Wallets -> 0..MaxVersion]

ProfileType ==
    /\ profileCount \in 0..MaxProfiles
    /\ topics \in [Profiles -> SUBSET ClaimTopics]
    /\ trusted \in [Profiles -> SUBSET ClaimIssuers]
    /\ profileVersion \in [Profiles -> 0..MaxVersion]

CacheType ==
    /\ cacheVersion \in [Wallets -> [Profiles -> 0..MaxVersion]]
    /\ verifiedCache \in [Wallets -> [Profiles -> BOOLEAN]]
    /\ basis \in [Wallets -> [Profiles -> FactsType]]

HistoryType ==
    /\ reused \subseteq Wallets
    /\ by \in Accounts \cup {NoAccount}

LEMMA TypeParts ==
    TypeOK <=> AuthorityType /\ RegistryType /\ ProfileType /\ CacheType /\ HistoryType
BY DEF TypeOK, RegistryType, ProfileType, CacheType, HistoryType

\* A profile has a version as soon as it is there, and not before.
ProfilesVersioned ==
    \A p \in Profiles :
        /\ p <= profileCount => profileVersion[p] # 0
        /\ p > profileCount => profileVersion[p] = 0

\* A verdict was kept with a sum the two versions have reached.
CacheBehind ==
    \A w \in Wallets \ reused, p \in Profiles : cacheVersion[w][p] <= CombinedVersion(w, p)

\* A verdict kept with the sum of now is about what is there now.
CurrentIsFresh ==
    \A w \in Wallets \ reused, p \in Profiles :
        Hit(w, p) /\ cacheVersion[w][p] # 0 => verifiedCache[w][p] /\ basis[w][p] = Facts(w, p)

IInv == TypeOK /\ ProfilesVersioned /\ CacheBehind /\ CurrentIsFresh

-----------------------------------------------------------------------------
(* Types *)

LEMMA AuthorityTyped ==
    ASSUME AuthorityType, NEW caller \in Accounts, AuthorityNext(caller)
    PROVE  AuthorityType'
<1> USE DEF AuthorityType
<1>1. ASSUME NEW role \in Roles, NEW account \in Accounts,
             GrantRole(caller, role, account) \/ RevokeRole(caller, role, account)
      PROVE  AuthorityType'
  BY <1>1 DEF GrantRole, RevokeRole
<1>2. ASSUME NEW role \in Roles, RenounceRole(caller, role)
      PROVE  AuthorityType'
  BY <1>2 DEF RenounceRole
<1>3. ASSUME NEW role \in Roles, NEW admin \in Roles, SetRoleAdmin(caller, role, admin)
      PROVE  AuthorityType'
  BY <1>3 DEF SetRoleAdmin
<1>4. ASSUME NEW account \in Accounts, TransferOwnership(caller, account)
      PROVE  AuthorityType'
  BY <1>4 DEF TransferOwnership
<1>5. ASSUME AcceptOwnership(caller)
      PROVE  AuthorityType'
  BY <1>5 DEF AcceptOwnership
<1>6. QED
  BY <1>1, <1>2, <1>3, <1>4, <1>5 DEF AuthorityNext

LEMMA VersionsTyped ==
    ASSUME RegistryType, NEW wallets \in SUBSET Wallets, BumpIdentity(wallets)
    PROVE  identityVersion' \in [Wallets -> 0..MaxVersion]
<1>1. \A w \in Wallets :
        identityVersion[w] + (IF w \in wallets THEN 1 ELSE 0) \in 0..MaxVersion
  BY RegistryAssumption DEF RegistryType, BumpIdentity
<1>2. QED
  BY <1>1 DEF BumpIdentity

LEMMA RegistryTyped ==
    ASSUME RegistryType, NEW caller \in Accounts, IdentityNext(caller)
    PROVE  RegistryType'
<1> USE RegistryAssumption
<1>1. ASSUME NEW w \in Wallets, NEW i \in Identities, NEW c \in Countries,
             RegisterIdentity(caller, w, i, c)
      PROVE  RegistryType'
  BY <1>1, VersionsTyped DEF RegistryType, RegisterIdentity
<1>2. ASSUME NEW w \in Wallets, NEW i \in Identities, NEW c \in Countries,
             NEW v \in Wallets, NEW j \in Identities, NEW d \in Countries,
             BatchRegisterIdentity(caller, w, i, c, v, j, d)
      PROVE  RegistryType'
  BY <1>2, VersionsTyped DEF RegistryType, BatchRegisterIdentity
<1>3. ASSUME NEW w \in Wallets, DeleteIdentity(caller, w)
      PROVE  RegistryType'
  BY <1>3, VersionsTyped DEF RegistryType, DeleteIdentity
<1>4. ASSUME NEW w \in Wallets, NEW i \in Identities, UpdateIdentity(caller, w, i)
      PROVE  RegistryType'
  BY <1>4, VersionsTyped DEF RegistryType, UpdateIdentity
<1>5. ASSUME NEW w \in Wallets, NEW c \in Countries, UpdateCountry(caller, w, c)
      PROVE  RegistryType'
  BY <1>5, VersionsTyped DEF RegistryType, UpdateCountry
<1>6. ASSUME NEW lost \in Wallets, NEW new \in Wallets, RecoverWallet(caller, lost, new)
      PROVE  RegistryType'
  BY <1>6 DEF RegistryType, RecoverWallet
<1>7. QED
  BY <1>1, <1>2, <1>3, <1>4, <1>5, <1>6 DEF IdentityNext

LEMMA ProfilesTyped ==
    ASSUME ProfileType, NEW caller \in Accounts, ProfileNext(caller)
    PROVE  ProfileType'
<1> USE RegistryAssumption DEF ProfileType, Profiles
<1>1. ASSUME NEW claimTopics \in TopicSets, CreateProfile(caller, claimTopics)
      PROVE  ProfileType'
  BY <1>1 DEF CreateProfile, TopicSets
<1>2. ASSUME NEW p \in Profiles, NEW claimTopics \in TopicSets,
             SetProfileClaimTopics(caller, p, claimTopics)
      PROVE  ProfileType'
  BY <1>2 DEF SetProfileClaimTopics, BumpProfile, TopicSets
<1>3. ASSUME NEW p \in Profiles, NEW issuer \in ClaimIssuers, AddTrustedIssuer(caller, p, issuer)
      PROVE  ProfileType'
  BY <1>3 DEF AddTrustedIssuer, BumpProfile
<1>4. ASSUME NEW p \in Profiles, NEW issuer \in ClaimIssuers, RemoveTrustedIssuer(caller, p, issuer)
      PROVE  ProfileType'
  BY <1>4 DEF RemoveTrustedIssuer, BumpProfile
<1>5. QED
  BY <1>1, <1>2, <1>3, <1>4 DEF ProfileNext

LEMMA CacheTyped ==
    ASSUME RegistryType, ProfileType, CacheType, VerificationNext
    PROVE  CacheType'
<1>1. PICK w \in Wallets, p \in Profiles : IsVerified(w, p)
  BY DEF VerificationNext
<1>2. CombinedVersion(w, p) \in 0..MaxVersion
  BY <1>1, RegistryAssumption DEF IsVerified, CombinedVersion, RegistryType, ProfileType
<1>3. Facts(w, p) \in FactsType
  BY DEF Facts, FactsType, RegistryType, ProfileType
<1>4. cacheVersion' \in [Wallets -> [Profiles -> 0..MaxVersion]]
  BY <1>1, <1>2, Zenon DEF IsVerified, CacheType
<1>5. verifiedCache' \in [Wallets -> [Profiles -> BOOLEAN]]
  BY <1>1, Zenon DEF IsVerified, CacheType
<1>6. basis' \in [Wallets -> [Profiles -> FactsType]]
  BY <1>1, <1>3, Zenon DEF IsVerified, CacheType
<1>7. QED
  BY <1>4, <1>5, <1>6 DEF CacheType

\* What the calls of each facet leave alone.
LEMMA IdentityFrame ==
    ASSUME NEW caller \in Accounts, IdentityNext(caller), reused \subseteq Wallets
    PROVE  /\ UNCHANGED <<authority, profiles, cache>>
           /\ reused \subseteq reused' /\ reused' \subseteq Wallets
<1> DEFINE Kept == /\ UNCHANGED <<authority, profiles, cache>>
                   /\ reused \subseteq reused' /\ reused' \subseteq Wallets
<1>1. UNCHANGED <<authority, profiles, cache, reused>> => Kept
  OBVIOUS
<1>2. ASSUME NEW w \in Wallets, NEW i, NEW c, RegisterIdentity(caller, w, i, c) PROVE Kept
  BY <1>1, <1>2 DEF RegisterIdentity
<1>3. ASSUME NEW w \in Wallets, NEW i, NEW c, NEW v \in Wallets, NEW j, NEW d,
             BatchRegisterIdentity(caller, w, i, c, v, j, d)
      PROVE  Kept
  BY <1>1, <1>3 DEF BatchRegisterIdentity
<1>4. ASSUME NEW w \in Wallets, DeleteIdentity(caller, w) PROVE Kept
  BY <1>1, <1>4 DEF DeleteIdentity
<1>5. ASSUME NEW w \in Wallets, NEW i, UpdateIdentity(caller, w, i) PROVE Kept
  BY <1>1, <1>5 DEF UpdateIdentity
<1>6. ASSUME NEW w \in Wallets, NEW c, UpdateCountry(caller, w, c) PROVE Kept
  BY <1>1, <1>6 DEF UpdateCountry
<1>7. ASSUME NEW w \in Wallets, NEW new \in Wallets, RecoverWallet(caller, w, new) PROVE Kept
  BY <1>7 DEF RecoverWallet
<1> HIDE DEF Kept
<1>8. Kept
  BY <1>2, <1>3, <1>4, <1>5, <1>6, <1>7, Zenon DEF IdentityNext
<1> QED BY <1>8 DEF Kept

LEMMA ProfileFrame ==
    ASSUME NEW caller \in Accounts, ProfileNext(caller)
    PROVE  UNCHANGED <<authority, registry, cache, reused>>
BY DEF ProfileNext, CreateProfile, SetProfileClaimTopics, AddTrustedIssuer, RemoveTrustedIssuer

LEMMA VerificationFrame ==
    ASSUME VerificationNext
    PROVE  UNCHANGED <<authority, registry, profiles, reused>>
BY DEF VerificationNext, IsVerified

LEMMA Typed ==
    ASSUME TypeOK, [Next]_vars
    PROVE  TypeOK'
<1> USE TypeParts
<1>1. ASSUME NEW caller \in Accounts, IdentityNext(caller), by' = caller
      PROVE  TypeOK'
  <2>1. RegistryType' BY <1>1, RegistryTyped
  <2>2. UNCHANGED <<authority, profiles, cache>> /\ reused' \subseteq Wallets
    BY <1>1, IdentityFrame DEF HistoryType
  <2>3. AuthorityType' BY <2>2 DEF authority, AuthorityType
  <2>4. ProfileType' BY <2>2 DEF profiles, ProfileType
  <2>5. CacheType' BY <2>2 DEF cache, CacheType
  <2>6. HistoryType' BY <1>1, <2>2 DEF HistoryType
  <2>7. QED BY <2>1, <2>3, <2>4, <2>5, <2>6 DEF TypeOK, RegistryType, ProfileType, CacheType, HistoryType
<1>2. ASSUME NEW caller \in Accounts, ProfileNext(caller), by' = caller
      PROVE  TypeOK'
  <2>1. ProfileType' BY <1>2, ProfilesTyped
  <2>2. UNCHANGED <<authority, registry, cache, reused>>
    BY <1>2, ProfileFrame
  <2>3. AuthorityType' BY <2>2 DEF authority, AuthorityType
  <2>4. RegistryType' BY <2>2 DEF registry, RegistryType
  <2>5. CacheType' BY <2>2 DEF cache, CacheType
  <2>6. HistoryType' BY <1>2, <2>2 DEF HistoryType
  <2>7. QED BY <2>1, <2>3, <2>4, <2>5, <2>6 DEF TypeOK, RegistryType, ProfileType, CacheType, HistoryType
<1>3. ASSUME NEW caller \in Accounts, VerificationNext, by' = caller
      PROVE  TypeOK'
  <2>1. CacheType' BY <1>3, CacheTyped
  <2>2. UNCHANGED <<authority, registry, profiles, reused>>
    BY <1>3, VerificationFrame
  <2>3. AuthorityType' BY <2>2 DEF authority, AuthorityType
  <2>4. RegistryType' BY <2>2 DEF registry, RegistryType
  <2>5. ProfileType' BY <2>2 DEF profiles, ProfileType
  <2>6. HistoryType' BY <1>3, <2>2 DEF HistoryType
  <2>7. QED BY <2>1, <2>3, <2>4, <2>5, <2>6 DEF TypeOK, RegistryType, ProfileType, CacheType, HistoryType
<1>4. ASSUME NEW caller \in Accounts, AuthorityNext(caller), by' = caller,
             UNCHANGED <<registry, profiles, cache, reused>>
      PROVE  TypeOK'
  <2>1. AuthorityType' BY <1>4, AuthorityTyped
  <2>2. RegistryType' BY <1>4 DEF registry, RegistryType
  <2>3. ProfileType' BY <1>4 DEF profiles, ProfileType
  <2>4. CacheType' BY <1>4 DEF cache, CacheType
  <2>5. HistoryType' BY <1>4 DEF HistoryType
  <2>6. QED BY <2>1, <2>2, <2>3, <2>4, <2>5 DEF TypeOK, RegistryType, ProfileType, CacheType, HistoryType
<1>5. CASE UNCHANGED vars
  BY <1>5 DEF vars, authority, registry, profiles, cache, TypeOK, AuthorityType
<1>6. QED
  BY <1>1, <1>2, <1>3, <1>4, <1>5 DEF Next, CallNext

LEMMA InitTyped ==
    ASSUME Init
    PROVE  TypeOK
<1>1. AuthorityType
  BY DEF Init, AuthorityInit, AuthorityType, Roles
<1>2. RegistryType
  BY RegistryAssumption DEF Init, RegistryType
<1>3. ProfileType
  BY RegistryAssumption DEF Init, ProfileType
<1>4. NoFacts \in FactsType
  BY DEF NoFacts, FactsType
<1>5. CacheType
  BY <1>4, RegistryAssumption DEF Init, CacheType
<1>6. QED
  BY <1>1, <1>2, <1>3, <1>5, TypeParts DEF Init, HistoryType

\* Every reachable state is well typed: versions never pass their bound, and
\* nobody but an account ever holds a role or owns the Diamond.
THEOREM TypeCorrect == Spec => []TypeOK
<1>1. QED
  BY InitTyped, Typed, PTL DEF Spec

-----------------------------------------------------------------------------
(* Verdicts *)

\* A step does one of three things to what verdicts on w and p rest on: nothing;
\* it raises their sum and leaves the verdict behind; or it judges anew.
Kept(w, p) ==
    /\ CombinedVersion(w, p)' = CombinedVersion(w, p)
    /\ Facts(w, p)' = Facts(w, p)
    /\ cacheVersion'[w][p] = cacheVersion[w][p]
    /\ verifiedCache'[w][p] = verifiedCache[w][p]
    /\ basis'[w][p] = basis[w][p]

Raised(w, p) ==
    /\ CombinedVersion(w, p)' > CombinedVersion(w, p)
    /\ cacheVersion'[w][p] = cacheVersion[w][p]

Judged(w, p) ==
    /\ cacheVersion'[w][p] = CombinedVersion(w, p)'
    /\ verifiedCache'[w][p]
    /\ basis'[w][p] = Facts(w, p)'

LEMMA VersionsAreNumbers ==
    ASSUME TypeOK, NEW w \in Wallets, NEW p \in Profiles
    PROVE  /\ identityVersion[w] \in Nat /\ profileVersion[p] \in Nat
           /\ cacheVersion[w][p] \in Nat /\ CombinedVersion(w, p) \in Nat
<1>1. identityVersion[w] \in 0..MaxVersion /\ profileVersion[p] \in 0..MaxVersion
  BY DEF TypeOK
<1>2. cacheVersion[w][p] \in 0..MaxVersion
  BY DEF TypeOK
<1>3. QED
  BY <1>1, <1>2, RegistryAssumption DEF CombinedVersion

\* Each of the three keeps the verdict on w and p right.
LEMMA VerdictStep ==
    ASSUME TypeOK, TypeOK', CacheBehind, CurrentIsFresh,
           NEW w \in Wallets \ reused, NEW p \in Profiles,
           Kept(w, p) \/ Raised(w, p) \/ Judged(w, p)
    PROVE  /\ cacheVersion'[w][p] <= CombinedVersion(w, p)'
           /\ Hit(w, p)' /\ cacheVersion'[w][p] # 0 =>
                 verifiedCache'[w][p] /\ basis'[w][p] = Facts(w, p)'
<1>1. cacheVersion[w][p] \in Nat /\ CombinedVersion(w, p) \in Nat
  BY VersionsAreNumbers
<1>2. cacheVersion'[w][p] \in Nat /\ CombinedVersion(w, p)' \in Nat
  <2>1. identityVersion'[w] \in 0..MaxVersion /\ profileVersion'[p] \in 0..MaxVersion
    BY DEF TypeOK
  <2>2. cacheVersion'[w][p] \in 0..MaxVersion
    BY DEF TypeOK
  <2>3. QED
    BY <2>1, <2>2, RegistryAssumption DEF CombinedVersion
<1>3. cacheVersion[w][p] <= CombinedVersion(w, p)
  BY DEF CacheBehind
<1>4. Hit(w, p)' <=> cacheVersion'[w][p] = CombinedVersion(w, p)'
  BY DEF Hit
<1>5. CASE Kept(w, p)
  <2>1. Hit(w, p)' <=> Hit(w, p)
    BY <1>4, <1>5 DEF Hit, Kept
  <2>2. Hit(w, p) /\ cacheVersion[w][p] # 0 => verifiedCache[w][p] /\ basis[w][p] = Facts(w, p)
    BY DEF CurrentIsFresh
  <2>3. QED
    BY <1>3, <1>5, <2>1, <2>2 DEF Kept
<1>6. CASE Raised(w, p)
  BY <1>1, <1>2, <1>3, <1>4, <1>6 DEF Raised
<1>7. CASE Judged(w, p)
  BY <1>1, <1>2, <1>7 DEF Judged
<1>8. QED
  BY <1>5, <1>6, <1>7

LEMMA IdentityCalls ==
    ASSUME TypeOK, NEW caller \in Accounts, IdentityNext(caller),
           NEW w \in Wallets \ reused', NEW p \in Profiles
    PROVE  Kept(w, p) \/ Raised(w, p)
<1>1. UNCHANGED <<profiles, cache>> /\ reused \subseteq reused'
  BY IdentityFrame DEF TypeOK
<1>2. identityVersion[w] \in Nat /\ profileVersion[p] \in Nat
  BY VersionsAreNumbers
<1>3. \/ identityVersion'[w] = identityVersion[w] /\ identity'[w] = identity[w]
      \/ identityVersion'[w] = identityVersion[w] + 1
      \/ identityVersion[w] = 0 /\ identityVersion'[w] \in Nat /\ identityVersion'[w] > 0
  <2> USE RegistryAssumption DEF TypeOK, BumpIdentity
  <2>1. ASSUME NEW v \in Wallets, NEW i \in Identities, NEW c \in Countries,
               RegisterIdentity(caller, v, i, c)
        PROVE  <1>3!1 \/ <1>3!2
    BY <2>1 DEF RegisterIdentity
  <2>2. ASSUME NEW u \in Wallets, NEW i \in Identities, NEW c \in Countries,
               NEW v \in Wallets, NEW j \in Identities, NEW d \in Countries,
               BatchRegisterIdentity(caller, u, i, c, v, j, d)
        PROVE  <1>3!1 \/ <1>3!2
    BY <2>2 DEF BatchRegisterIdentity
  <2>3. ASSUME NEW v \in Wallets, DeleteIdentity(caller, v)
        PROVE  <1>3!1 \/ <1>3!2
    BY <2>3 DEF DeleteIdentity
  <2>4. ASSUME NEW v \in Wallets, NEW i \in Identities, UpdateIdentity(caller, v, i)
        PROVE  <1>3!1 \/ <1>3!2
    BY <2>4 DEF UpdateIdentity
  <2>5. ASSUME NEW v \in Wallets, NEW c \in Countries, UpdateCountry(caller, v, c)
        PROVE  <1>3!1 \/ <1>3!2
    BY <2>5 DEF UpdateCountry
  <2>6. ASSUME NEW lost \in Wallets, NEW new \in Wallets, RecoverWallet(caller, lost, new)
        PROVE  <1>3!1 \/ <1>3!3
    <3>1. w # lost
      BY <2>6 DEF RecoverWallet
    <3>2. identityVersion[lost] \in Nat
      OBVIOUS
    <3>3. CASE w = new
      BY <2>6, <3>1, <3>2, <3>3 DEF RecoverWallet
    <3>4. CASE w # new
      BY <2>6, <3>1, <3>4 DEF RecoverWallet
    <3>5. QED
      BY <3>3, <3>4
  <2>7. QED
    BY <2>1, <2>2, <2>3, <2>4, <2>5, <2>6 DEF IdentityNext
<1>4. QED
  BY <1>1, <1>2, <1>3 DEF Kept, Raised, CombinedVersion, Facts, profiles, cache

LEMMA ProfileCalls ==
    ASSUME TypeOK, ProfilesVersioned, NEW caller \in Accounts, ProfileNext(caller),
           NEW w \in Wallets, NEW p \in Profiles
    PROVE  Kept(w, p) \/ Raised(w, p)
<1>1. UNCHANGED <<registry, cache>>
  BY ProfileFrame
<1>2. identityVersion[w] \in Nat /\ profileVersion[p] \in Nat
  BY VersionsAreNumbers
<1>3. \/ profileVersion'[p] = profileVersion[p] /\ topics'[p] = topics[p] /\ trusted'[p] = trusted[p]
      \/ profileVersion'[p] = profileVersion[p] + 1
  <2> USE RegistryAssumption DEF TypeOK, BumpProfile
  <2>1. ASSUME NEW claimTopics \in TopicSets, CreateProfile(caller, claimTopics)
        PROVE  <1>3
    <3>1. p = profileCount + 1 => profileVersion[p] = 0
      BY DEF ProfilesVersioned, Profiles
    <3>2. QED
      BY <2>1, <3>1 DEF CreateProfile
  <2>2. ASSUME NEW q \in Profiles, NEW claimTopics \in TopicSets,
               SetProfileClaimTopics(caller, q, claimTopics)
        PROVE  <1>3
    BY <2>2 DEF SetProfileClaimTopics
  <2>3. ASSUME NEW q \in Profiles, NEW issuer \in ClaimIssuers, AddTrustedIssuer(caller, q, issuer)
        PROVE  <1>3
    BY <2>3 DEF AddTrustedIssuer
  <2>4. ASSUME NEW q \in Profiles, NEW issuer \in ClaimIssuers, RemoveTrustedIssuer(caller, q, issuer)
        PROVE  <1>3
    BY <2>4 DEF RemoveTrustedIssuer
  <2>5. QED
    BY <2>1, <2>2, <2>3, <2>4 DEF ProfileNext
<1>4. QED
  BY <1>1, <1>2, <1>3 DEF Kept, Raised, CombinedVersion, Facts, registry, cache

LEMMA VerificationCalls ==
    ASSUME TypeOK, VerificationNext, NEW w \in Wallets, NEW p \in Profiles
    PROVE  Kept(w, p) \/ Judged(w, p)
<1>1. UNCHANGED <<registry, profiles>>
  BY VerificationFrame
<1>2. CombinedVersion(w, p)' = CombinedVersion(w, p) /\ Facts(w, p)' = Facts(w, p)
  BY <1>1 DEF CombinedVersion, Facts, registry, profiles
<1>3. PICK v \in Wallets, q \in Profiles : IsVerified(v, q)
  BY DEF VerificationNext
<1>4. /\ cacheVersion' = [cacheVersion EXCEPT ![v][q] = CombinedVersion(v, q)]
      /\ verifiedCache' = [verifiedCache EXCEPT ![v][q] = TRUE]
      /\ basis' = [basis EXCEPT ![v][q] = Facts(v, q)]
  BY <1>3 DEF IsVerified
<1>5. CASE w = v /\ p = q
  BY <1>2, <1>4, <1>5, Zenon DEF Judged, TypeOK
<1>6. CASE ~(w = v /\ p = q)
  BY <1>2, <1>4, <1>6, Zenon DEF Kept, TypeOK
<1>7. QED
  BY <1>5, <1>6

LEMMA ProfilesStayVersioned ==
    ASSUME TypeOK, ProfilesVersioned, NEW caller \in Accounts, ProfileNext(caller)
    PROVE  ProfilesVersioned'
<1> USE RegistryAssumption DEF TypeOK, ProfilesVersioned, BumpProfile, Profiles
<1>1. ASSUME NEW claimTopics \in TopicSets, CreateProfile(caller, claimTopics)
      PROVE  ProfilesVersioned'
  BY <1>1 DEF CreateProfile
<1>2. ASSUME NEW p \in Profiles, NEW claimTopics \in TopicSets,
             SetProfileClaimTopics(caller, p, claimTopics)
      PROVE  ProfilesVersioned'
  BY <1>2 DEF SetProfileClaimTopics
<1>3. ASSUME NEW p \in Profiles, NEW issuer \in ClaimIssuers, AddTrustedIssuer(caller, p, issuer)
      PROVE  ProfilesVersioned'
  BY <1>3 DEF AddTrustedIssuer
<1>4. ASSUME NEW p \in Profiles, NEW issuer \in ClaimIssuers, RemoveTrustedIssuer(caller, p, issuer)
      PROVE  ProfilesVersioned'
  BY <1>4 DEF RemoveTrustedIssuer
<1>5. QED
  BY <1>1, <1>2, <1>3, <1>4 DEF ProfileNext

LEMMA VerdictsStayFresh ==
    ASSUME IInv, [Next]_vars
    PROVE  IInv'
<1> USE DEF IInv
<1>1. TypeOK'
  BY Typed
<1>2. reused \subseteq reused' /\ ProfilesVersioned'
  <2>1. ASSUME NEW caller \in Accounts, IdentityNext(caller)
        PROVE  reused \subseteq reused' /\ ProfilesVersioned'
    <3>1. UNCHANGED profiles /\ reused \subseteq reused'
      BY <2>1, IdentityFrame DEF TypeOK
    <3>2. QED
      BY <3>1 DEF profiles, ProfilesVersioned
  <2>2. ASSUME NEW caller \in Accounts, ProfileNext(caller)
        PROVE  reused \subseteq reused' /\ ProfilesVersioned'
    BY <2>2, ProfileFrame, ProfilesStayVersioned
  <2>3. ASSUME UNCHANGED <<profiles, reused>>
        PROVE  reused \subseteq reused' /\ ProfilesVersioned'
    BY <2>3 DEF profiles, ProfilesVersioned
  <2>4. VerificationNext => UNCHANGED <<profiles, reused>>
    BY VerificationFrame
  <2>5. QED
    BY <2>1, <2>2, <2>3, <2>4 DEF Next, CallNext, vars
<1>3. ASSUME NEW w \in Wallets \ reused', NEW p \in Profiles
      PROVE  Kept(w, p) \/ Raised(w, p) \/ Judged(w, p)
  <2>1. ASSUME NEW caller \in Accounts, IdentityNext(caller)
        PROVE  Kept(w, p) \/ Raised(w, p)
    BY <1>3, <2>1, IdentityCalls
  <2>2. ASSUME NEW caller \in Accounts, ProfileNext(caller)
        PROVE  Kept(w, p) \/ Raised(w, p)
    BY <1>3, <2>2, ProfileCalls
  <2>3. CASE VerificationNext
    BY <1>3, <2>3, VerificationCalls
  <2>4. ASSUME UNCHANGED <<registry, profiles, cache>>
        PROVE  Kept(w, p)
    BY <2>4 DEF Kept, CombinedVersion, Facts, registry, profiles, cache
  <2>5. QED
    BY <2>1, <2>2, <2>3, <2>4 DEF Next, CallNext, vars
<1>4. ASSUME NEW w \in Wallets \ reused', NEW p \in Profiles
      PROVE  /\ cacheVersion'[w][p] <= CombinedVersion(w, p)'
             /\ Hit(w, p)' /\ cacheVersion'[w][p] # 0 =>
                   verifiedCache'[w][p] /\ basis'[w][p] = Facts(w, p)'
  <2>1. w \in Wallets \ reused
    BY <1>2, <1>4
  <2>2. Kept(w, p) \/ Raised(w, p) \/ Judged(w, p)
    BY <1>3, <1>4
  <2>3. QED
    BY <1>1, <1>4, <2>1, <2>2, VerdictStep
<1>5. CacheBehind'
  BY <1>4 DEF CacheBehind
<1>6. CurrentIsFresh'
  BY <1>4 DEF CurrentIsFresh
<1>7. QED
  BY <1>1, <1>2, <1>5, <1>6

LEMMA VerdictsBeginFresh ==
    ASSUME Init
    PROVE  IInv
<1>1. TypeOK
  BY InitTyped
<1>2. ProfilesVersioned
  BY RegistryAssumption DEF Init, ProfilesVersioned, Profiles
<1>3. \A w \in Wallets, p \in Profiles : cacheVersion[w][p] = 0 /\ CombinedVersion(w, p) \in Nat
  BY <1>1, VersionsAreNumbers DEF Init
<1>4. CacheBehind
  BY <1>3 DEF CacheBehind
<1>5. CurrentIsFresh
  BY <1>3 DEF CurrentIsFresh
<1>6. QED
  BY <1>1, <1>2, <1>4, <1>5 DEF IInv

LEMMA FreshVerdicts ==
    ASSUME IInv
    PROVE  HitsAreFresh
<1>1. SUFFICES ASSUME NEW w \in Wallets \ reused, NEW p \in 1..profileCount, Hit(w, p)
               PROVE  verifiedCache[w][p] /\ basis[w][p] = Facts(w, p)
  BY DEF HitsAreFresh
<1>2. p \in Profiles
  BY RegistryAssumption DEF IInv, TypeOK, Profiles
<1>3. identityVersion[w] \in Nat /\ profileVersion[p] \in Nat /\ profileVersion[p] # 0
  BY <1>2, VersionsAreNumbers DEF IInv, ProfilesVersioned
<1>4. cacheVersion[w][p] # 0
  BY <1>1, <1>3 DEF Hit, CombinedVersion
<1>5. QED
  BY <1>1, <1>2, <1>4 DEF IInv, CurrentIsFresh

\* isVerified never answers from the cache with a verdict about another identity,
\* other topics or other issuers than there are, save for wallets that recovery
\* took an identity from or put one into after another.
THEOREM HitsAlwaysFresh == Spec => []HitsAreFresh
<1>1. Init => IInv
  BY VerdictsBeginFresh
<1>2. IInv /\ [Next]_vars => IInv'
  BY VerdictsStayFresh
<1>3. IInv => HitsAreFresh
  BY FreshVerdicts
<1>4. QED
  BY <1>1, <1>2, <1>3, PTL DEF Spec

-----------------------------------------------------------------------------
(* Authority *)

LEMMA NominationStays ==
    ASSUME TypeOK, NominationIsTheOwners, [Next]_vars
    PROVE  NominationIsTheOwners'
<1> USE DEF NominationIsTheOwners
<1>1. CASE UNCHANGED authority
  BY <1>1 DEF authority
<1>2. ASSUME NEW caller \in Accounts, AuthorityNext(caller)
      PROVE  NominationIsTheOwners'
  <2>1. CASE \/ \E role \in Roles, account \in Accounts :
                   GrantRole(caller, role, account) \/ RevokeRole(caller, role, account)
             \/ \E role \in Roles : RenounceRole(caller, role)
             \/ \E role, admin \in Roles : SetRoleAdmin(caller, role, admin)
    BY <2>1 DEF GrantRole, RevokeRole, RenounceRole, SetRoleAdmin
  <2>2. CASE \E account \in Accounts : TransferOwnership(caller, account)
    BY <2>2 DEF TransferOwnership
  <2>3. CASE AcceptOwnership(caller)
    BY <2>3 DEF AcceptOwnership
  <2>4. QED
    BY <1>2, <2>1, <2>2, <2>3 DEF AuthorityNext
<1>3. \A caller \in Accounts : IdentityNext(caller) => UNCHANGED authority
  BY IdentityFrame DEF TypeOK
<1>4. \A caller \in Accounts : ProfileNext(caller) => UNCHANGED authority
  BY ProfileFrame
<1>5. VerificationNext => UNCHANGED authority
  BY VerificationFrame
<1>6. UNCHANGED vars => UNCHANGED authority
  BY DEF vars
<1>7. QED
  BY <1>1, <1>2, <1>3, <1>4, <1>5, <1>6 DEF Next, CallNext

\* Whatever roles are given and however often the Diamond changes hands, who may
\* take it over was nominated by the owner it has now.
THEOREM NominationAlwaysTheOwners == Spec => []NominationIsTheOwners
<1>1. Init => NominationIsTheOwners
  BY DEF Init, AuthorityInit, NominationIsTheOwners
<1>2. QED
  BY <1>1, NominationStays, TypeCorrect, PTL DEF Spec

\* What one call changes, with the duties it takes.
Dutiful(caller) ==
    /\ AuthorityIsDelegated(caller)
    /\ registry' # registry => OwnerOr("TRANSFER_AGENT", caller) \/ OwnerOr("RECOVERY_AGENT", caller)
    /\ (\E w \in Wallets : identityVersion'[w] < identityVersion[w])
          => OwnerOr("RECOVERY_AGENT", caller)
    /\ <<topics, trusted>>' # <<topics, trusted>> => OwnerOr("CLAIM_ISSUER_ROLE", caller)

LEMMA AuthorityCallDelegated ==
    ASSUME AuthorityType, NEW caller \in Accounts, AuthorityNext(caller)
    PROVE  AuthorityIsDelegated(caller)
<1> USE DEF AuthorityType, AuthorityIsDelegated, IsRoleAdmin, OwnerOr
<1>1. ASSUME NEW role \in Roles, NEW account \in Accounts, GrantRole(caller, role, account)
      PROVE  AuthorityIsDelegated(caller)
  BY <1>1 DEF GrantRole
<1>2. ASSUME NEW role \in Roles, NEW account \in Accounts, RevokeRole(caller, role, account)
      PROVE  AuthorityIsDelegated(caller)
  BY <1>2 DEF RevokeRole
<1>3. ASSUME NEW role \in Roles, RenounceRole(caller, role)
      PROVE  AuthorityIsDelegated(caller)
  BY <1>3 DEF RenounceRole
<1>4. ASSUME NEW role \in Roles, NEW admin \in Roles, SetRoleAdmin(caller, role, admin)
      PROVE  AuthorityIsDelegated(caller)
  BY <1>4 DEF SetRoleAdmin
<1>5. ASSUME NEW account \in Accounts, TransferOwnership(caller, account)
      PROVE  AuthorityIsDelegated(caller)
  BY <1>5 DEF TransferOwnership
<1>6. ASSUME AcceptOwnership(caller)
      PROVE  AuthorityIsDelegated(caller)
  BY <1>6 DEF AcceptOwnership
<1>7. QED
  BY <1>1, <1>2, <1>3, <1>4, <1>5, <1>6 DEF AuthorityNext

\* Only a recovery takes a version back.
LEMMA IdentityCallDutiful ==
    ASSUME TypeOK, NEW caller \in Accounts, IdentityNext(caller)
    PROVE  /\ OwnerOr("TRANSFER_AGENT", caller) \/ OwnerOr("RECOVERY_AGENT", caller)
           /\ (\E w \in Wallets : identityVersion'[w] < identityVersion[w])
                 => OwnerOr("RECOVERY_AGENT", caller)
<1>1. CASE \E lost, new \in Wallets : RecoverWallet(caller, lost, new)
  BY <1>1 DEF RecoverWallet
<1>2. ASSUME NEW wallets, BumpIdentity(wallets), NEW w \in Wallets
      PROVE  ~(identityVersion'[w] < identityVersion[w])
  <2>1. identityVersion[w] \in Nat
    BY RegistryAssumption DEF TypeOK
  <2>2. identityVersion'[w] = identityVersion[w] + (IF w \in wallets THEN 1 ELSE 0)
    BY <1>2 DEF BumpIdentity
  <2>3. QED
    BY <2>1, <2>2
<1>3. ASSUME NEW w \in Wallets,
             \/ \E i \in Identities, c \in Countries :
                   \/ RegisterIdentity(caller, w, i, c)
                   \/ \E v \in Wallets, j \in Identities, d \in Countries :
                         BatchRegisterIdentity(caller, w, i, c, v, j, d)
             \/ DeleteIdentity(caller, w)
             \/ \E i \in Identities : UpdateIdentity(caller, w, i)
             \/ \E c \in Countries : UpdateCountry(caller, w, c)
      PROVE  OwnerOr("TRANSFER_AGENT", caller) /\ \E wallets : BumpIdentity(wallets)
  BY <1>3 DEF RegisterIdentity, BatchRegisterIdentity, DeleteIdentity, UpdateIdentity, UpdateCountry
<1>4. QED
  BY <1>1, <1>2, <1>3 DEF IdentityNext

LEMMA ProfileCallDutiful ==
    ASSUME NEW caller \in Accounts, ProfileNext(caller)
    PROVE  OwnerOr("CLAIM_ISSUER_ROLE", caller)
BY DEF ProfileNext, CreateProfile, SetProfileClaimTopics, AddTrustedIssuer, RemoveTrustedIssuer

LEMMA EveryCallDutiful ==
    ASSUME TypeOK, NEW caller \in Accounts, CallNext(caller)
    PROVE  Dutiful(caller)
<1>1. UNCHANGED authority => AuthorityIsDelegated(caller)
  BY DEF authority, AuthorityIsDelegated
<1>2. UNCHANGED registry => ~\E w \in Wallets : identityVersion'[w] < identityVersion[w]
  <2>1. \A w \in Wallets : identityVersion[w] \in Nat
    BY RegistryAssumption DEF TypeOK
  <2>2. QED
    BY <2>1 DEF registry
<1>3. UNCHANGED profiles => UNCHANGED <<topics, trusted>>
  BY DEF profiles
<1>4. CASE IdentityNext(caller)
  <2>1. UNCHANGED authority /\ UNCHANGED profiles
    BY <1>4, IdentityFrame DEF TypeOK
  <2>2. QED
    BY <1>1, <1>3, <1>4, <2>1, IdentityCallDutiful DEF Dutiful
<1>5. CASE ProfileNext(caller)
  BY <1>1, <1>2, <1>5, ProfileFrame, ProfileCallDutiful DEF Dutiful
<1>6. CASE VerificationNext
  BY <1>1, <1>2, <1>3, <1>6, VerificationFrame DEF Dutiful
<1>7. CASE AuthorityNext(caller) /\ UNCHANGED <<registry, profiles, cache, reused>>
  BY <1>2, <1>3, <1>7, AuthorityCallDelegated DEF Dutiful, TypeOK
<1>8. QED
  BY <1>4, <1>5, <1>6, <1>7 DEF CallNext

\* For any accounts, roles and delegations: roles change hands only as they are
\* delegated, the owner only by the nominee's own call, identities by agents,
\* versions backwards by recovery alone, and profiles by claim issuers.
THEOREM DutiesAlwaysSeparate == Spec => DutiesAreSeparate
<1>1. ASSUME TypeOK, Next
      PROVE  Dutiful(by')
  BY <1>1, EveryCallDutiful DEF Next
<1>2. TypeOK /\ [Next]_vars => [Dutiful(by')]_vars
  BY <1>1
<1>3. QED
  BY <1>2, TypeCorrect, PTL DEF Spec, DutiesAreSeparate, Dutiful
=============================================================================
