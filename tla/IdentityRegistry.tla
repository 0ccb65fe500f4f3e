-------------------------- MODULE IdentityRegistry --------------------------
(* The identities of wallets, the profiles they are verified against, and   *)
(* the cache of verdicts: a verdict is kept with the sum of the wallet's    *)
(* and the profile's version, and holds as long as the sum is the same.     *)
EXTENDS Naturals, AccessControl

CONSTANTS
    Wallets, Identities, NoIdentity, Countries,
    ClaimTopics, ClaimIssuers,
    MaxProfiles,    \* bound: 2^32 - 1 in the code, where the next profile reverts
    MaxVersion      \* bound: 2^64 - 1 in the code, where the next version reverts

ASSUME RegistryAssumption ==
    /\ NoIdentity \notin Identities
    /\ Countries \subseteq Nat
    /\ MaxProfiles \in Nat /\ MaxVersion \in Nat \ {0}

VARIABLES
    identity, country, identityVersion,             \* of each wallet
    profileCount, topics, trusted, profileVersion,  \* of each profile
    cacheVersion, verifiedCache,                    \* of each wallet and profile
    basis,      \* history: what the verdict in the cache was about
    reused,     \* history: wallets recovered from, or into after they had an identity
    by          \* history: who made the last call

registry == <<identity, country, identityVersion>>
profiles == <<profileCount, topics, trusted, profileVersion>>
cache == <<cacheVersion, verifiedCache, basis>>
vars == <<authority, registry, profiles, cache, reused, by>>

Profiles == 1..MaxProfiles
TopicSets == (SUBSET ClaimTopics) \ {{}}

\* What a verdict is about.
Facts(w, p) == [identity |-> identity[w], topics |-> topics[p], trusted |-> trusted[p]]
NoFacts == [identity |-> NoIdentity, topics |-> {}, trusted |-> {}]

FactsType ==
    [identity : Identities \cup {NoIdentity}, topics : SUBSET ClaimTopics, trusted : SUBSET ClaimIssuers]

Init ==
    /\ AuthorityInit
    /\ identity = [w \in Wallets |-> NoIdentity]
    /\ country = [w \in Wallets |-> 0]
    /\ identityVersion = [w \in Wallets |-> 0]
    /\ profileCount = 0
    /\ topics = [p \in Profiles |-> {}]
    /\ trusted = [p \in Profiles |-> {}]
    /\ profileVersion = [p \in Profiles |-> 0]
    /\ cacheVersion = [w \in Wallets |-> [p \in Profiles |-> 0]]
    /\ verifiedCache = [w \in Wallets |-> [p \in Profiles |-> FALSE]]
    /\ basis = [w \in Wallets |-> [p \in Profiles |-> NoFacts]]
    /\ reused = {}
    /\ by = NoAccount

-----------------------------------------------------------------------------
(* IdentityRegistryFacet *)

Bound(w) == identity[w] # NoIdentity

BumpIdentity(wallets) ==
    /\ \A w \in wallets : identityVersion[w] < MaxVersion
    /\ identityVersion' =
          [w \in Wallets |-> identityVersion[w] + (IF w \in wallets THEN 1 ELSE 0)]

RegisterIdentity(caller, w, i, c) ==
    /\ OwnerOr("TRANSFER_AGENT", caller)
    /\ ~Bound(w)
    /\ identity' = [identity EXCEPT ![w] = i]
    /\ country' = [country EXCEPT ![w] = c]
    /\ BumpIdentity({w})
    /\ UNCHANGED <<authority, profiles, cache, reused>>

\* Two wallets; the same wallet twice is registered already when its turn comes.
BatchRegisterIdentity(caller, w, i, c, v, j, d) ==
    /\ OwnerOr("TRANSFER_AGENT", caller)
    /\ w # v /\ ~Bound(w) /\ ~Bound(v)
    /\ identity' = [identity EXCEPT ![w] = i, ![v] = j]
    /\ country' = [country EXCEPT ![w] = c, ![v] = d]
    /\ BumpIdentity({w, v})
    /\ UNCHANGED <<authority, profiles, cache, reused>>

DeleteIdentity(caller, w) ==
    /\ OwnerOr("TRANSFER_AGENT", caller)
    /\ Bound(w)
    /\ identity' = [identity EXCEPT ![w] = NoIdentity]
    /\ country' = [country EXCEPT ![w] = 0]
    /\ BumpIdentity({w})
    /\ UNCHANGED <<authority, profiles, cache, reused>>

UpdateIdentity(caller, w, i) ==
    /\ OwnerOr("TRANSFER_AGENT", caller)
    /\ Bound(w)
    /\ identity' = [identity EXCEPT ![w] = i]
    /\ BumpIdentity({w})
    /\ UNCHANGED <<authority, country, profiles, cache, reused>>

UpdateCountry(caller, w, c) ==
    /\ OwnerOr("TRANSFER_AGENT", caller)
    /\ Bound(w)
    /\ country' = [country EXCEPT ![w] = c]
    /\ BumpIdentity({w})
    /\ UNCHANGED <<authority, identity, profiles, cache, reused>>

CombinedVersion(w, p) == identityVersion[w] + profileVersion[p]
Hit(w, p) == cacheVersion[w][p] = CombinedVersion(w, p)

\* Answers without a trace for a wallet without an identity, for a profile that
\* is not there and from the cache; a sum that does not fit reverts.
IsVerified(w, p) ==
    /\ Bound(w)
    /\ p <= profileCount
    /\ CombinedVersion(w, p) <= MaxVersion
    /\ ~Hit(w, p)
    /\ verifiedCache' = [verifiedCache EXCEPT ![w][p] = TRUE]
    /\ cacheVersion' = [cacheVersion EXCEPT ![w][p] = CombinedVersion(w, p)]
    /\ basis' = [basis EXCEPT ![w][p] = Facts(w, p)]
    /\ UNCHANGED <<authority, registry, profiles, reused>>

-----------------------------------------------------------------------------
(* ClaimTopicsFacet and TrustedIssuerFacet *)

BumpProfile(p) ==
    /\ profileVersion[p] < MaxVersion
    /\ profileVersion' = [profileVersion EXCEPT ![p] = @ + 1]

CreateProfile(caller, claimTopics) ==
    LET p == profileCount + 1 IN
    /\ OwnerOr("CLAIM_ISSUER_ROLE", caller)
    /\ p <= MaxProfiles
    /\ profileCount' = p
    /\ topics' = [topics EXCEPT ![p] = claimTopics]
    /\ profileVersion' = [profileVersion EXCEPT ![p] = 1]
    /\ UNCHANGED <<authority, registry, trusted, cache, reused>>

SetProfileClaimTopics(caller, p, claimTopics) ==
    /\ OwnerOr("CLAIM_ISSUER_ROLE", caller)
    /\ p <= profileCount
    /\ topics' = [topics EXCEPT ![p] = claimTopics]
    /\ BumpProfile(p)
    /\ UNCHANGED <<authority, registry, profileCount, trusted, cache, reused>>

AddTrustedIssuer(caller, p, issuer) ==
    /\ OwnerOr("CLAIM_ISSUER_ROLE", caller)
    /\ p <= profileCount
    /\ issuer \notin trusted[p]
    /\ trusted' = [trusted EXCEPT ![p] = @ \cup {issuer}]
    /\ BumpProfile(p)
    /\ UNCHANGED <<authority, registry, profileCount, topics, cache, reused>>

\* Mutant: the profile keeps its version.
RemoveTrustedIssuerUnversioned(caller, p, issuer) ==
    /\ OwnerOr("CLAIM_ISSUER_ROLE", caller)
    /\ p <= profileCount
    /\ issuer \in trusted[p]
    /\ trusted' = [trusted EXCEPT ![p] = @ \ {issuer}]
    /\ UNCHANGED <<authority, registry, profileCount, topics, profileVersion, cache, reused>>

RemoveTrustedIssuer(caller, p, issuer) ==
    /\ OwnerOr("CLAIM_ISSUER_ROLE", caller)
    /\ p <= profileCount
    /\ issuer \in trusted[p]
    /\ trusted' = [trusted EXCEPT ![p] = @ \ {issuer}]
    /\ BumpProfile(p)
    /\ UNCHANGED <<authority, registry, profileCount, topics, cache, reused>>

-----------------------------------------------------------------------------
(* RecoveryFacet, as far as identities go *)

\* Mutant: nothing asks whether the next version fits.
RecoverWalletUnchecked(caller, lost, new) ==
    /\ OwnerOr("RECOVERY_AGENT", caller)
    /\ lost # new /\ ~Bound(new)
    /\ identity' = [identity EXCEPT ![new] = identity[lost], ![lost] = NoIdentity]
    /\ country' = [country EXCEPT ![new] = country[lost], ![lost] = 0]
    /\ identityVersion' = [identityVersion EXCEPT ![new] = identityVersion[lost] + 1, ![lost] = 0]
    /\ reused' = reused \cup {lost} \cup {w \in {new} : identityVersion[w] # 0}
    /\ UNCHANGED <<authority, profiles, cache>>

\* The new wallet's version follows on the lost one's, which starts again.
RecoverWallet(caller, lost, new) ==
    /\ OwnerOr("RECOVERY_AGENT", caller)
    /\ lost # new /\ ~Bound(new)
    /\ identityVersion[lost] < MaxVersion
    /\ identity' = [identity EXCEPT ![new] = identity[lost], ![lost] = NoIdentity]
    /\ country' = [country EXCEPT ![new] = country[lost], ![lost] = 0]
    /\ identityVersion' = [identityVersion EXCEPT ![new] = identityVersion[lost] + 1, ![lost] = 0]
    /\ reused' = reused \cup {lost} \cup {w \in {new} : identityVersion[w] # 0}
    /\ UNCHANGED <<authority, profiles, cache>>

-----------------------------------------------------------------------------
IdentityNext(caller) ==
    \E w \in Wallets :
        \/ \E i \in Identities, c \in Countries :
              \/ RegisterIdentity(caller, w, i, c)
              \/ \E v \in Wallets, j \in Identities, d \in Countries :
                    BatchRegisterIdentity(caller, w, i, c, v, j, d)
        \/ DeleteIdentity(caller, w)
        \/ \E i \in Identities : UpdateIdentity(caller, w, i)
        \/ \E c \in Countries : UpdateCountry(caller, w, c)
        \/ \E new \in Wallets : RecoverWallet(caller, w, new)

ProfileNext(caller) ==
    \/ \E claimTopics \in TopicSets : CreateProfile(caller, claimTopics)
    \/ \E p \in Profiles :
          \/ \E claimTopics \in TopicSets : SetProfileClaimTopics(caller, p, claimTopics)
          \/ \E issuer \in ClaimIssuers :
                AddTrustedIssuer(caller, p, issuer) \/ RemoveTrustedIssuer(caller, p, issuer)

VerificationNext == \E w \in Wallets, p \in Profiles : IsVerified(w, p)

CallNext(caller) ==
    \/ IdentityNext(caller) \/ ProfileNext(caller) \/ VerificationNext
    \/ AuthorityNext(caller) /\ UNCHANGED <<registry, profiles, cache, reused>>

Next == \E caller \in Accounts : CallNext(caller) /\ by' = caller

Spec == Init /\ [][Next]_vars

-----------------------------------------------------------------------------
TypeOK ==
    /\ AuthorityType
    /\ identity \in [Wallets -> Identities \cup {NoIdentity}]
    /\ country \in [Wallets -> Nat]
    /\ identityVersion \in [Wallets -> 0..MaxVersion]
    /\ profileCount \in 0..MaxProfiles
    /\ topics \in [Profiles -> SUBSET ClaimTopics]
    /\ trusted \in [Profiles -> SUBSET ClaimIssuers]
    /\ profileVersion \in [Profiles -> 0..MaxVersion]
    /\ cacheVersion \in [Wallets -> [Profiles -> 0..MaxVersion]]
    /\ verifiedCache \in [Wallets -> [Profiles -> BOOLEAN]]
    /\ basis \in [Wallets -> [Profiles -> FactsType]]
    /\ reused \subseteq Wallets
    /\ by \in Accounts \cup {NoAccount}

\* Whatever is answered from the cache was judged on the identity, the topics and
\* the trusted issuers there are now.  Not promised of a wallet that recovery
\* took an identity from, or gave one to after it had another: its versions
\* start again.
HitsAreFresh ==
    \A w \in Wallets \ reused, p \in 1..profileCount :
        Bound(w) /\ Hit(w, p) => verifiedCache[w][p] /\ basis[w][p] = Facts(w, p)

\* Agents change identities and nothing else, claim issuers profiles and nothing
\* else, everybody else only what is delegated to him; anyone may ask.
DutiesAreSeparate ==
    [][/\ AuthorityIsDelegated(by')
       /\ registry' # registry => OwnerOr("TRANSFER_AGENT", by') \/ OwnerOr("RECOVERY_AGENT", by')
       /\ (\E w \in Wallets : identityVersion'[w] < identityVersion[w]) => OwnerOr("RECOVERY_AGENT", by')
       /\ <<topics, trusted>>' # <<topics, trusted>> => OwnerOr("CLAIM_ISSUER_ROLE", by')]_vars
=============================================================================
