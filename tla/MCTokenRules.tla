---------------------------- MODULE MCTokenRules ----------------------------
(* An instance of RegulatedToken for TLC with all five compliance modules.  *)
(* A behaviour plugs in and sets either those that limit or those that      *)
(* judge the parties (its focus); each is a behaviour of Spec.              *)
EXTENDS MCRegulatedToken

VARIABLE focus

Limiting == {"MaxBalance", "MaxHolders"}

Plugged(modules) == \A id \in AssetIds : asset'[id].modules \subseteq modules

\* The limits on holders and holdings against every way units move.
LimitsNext ==
    /\ LedgerNext \/ ComplianceModulesNext
    /\ Plugged(Limiting)
    /\ \A id \in AssetIds :
          ~rules'[id].kyc /\ rules'[id].cprExpiry = 0 /\ rules'[id].blocked = {}

Touched ==
    {w \in Wallets :
        w \in identified \/ country[w] # NoCountry \/ \E id \in AssetIds : w \in ledger[id].holders}

\* The rules about the parties, and identities, against every way units move,
\* for two wallets and two units.
PartiesNext ==
    /\ LedgerNext \/ ComplianceModulesNext \/ IdentityNext \/ Tick
    /\ Plugged(Modules \ Limiting)
    /\ Cardinality(Touched') <= 2
    /\ \A id \in AssetIds :
          rules'[id].maxHolders + rules'[id].maxBalance = 0 /\ ledger'[id].supply <= 2

RulesInit == Init /\ focus \in {"limits", "parties"}
RulesNext ==
    /\ \/ focus = "limits" /\ LimitsNext
       \/ focus = "parties" /\ PartiesNext
    /\ UNCHANGED focus
RulesSpec == RulesInit /\ [][RulesNext]_<<vars, focus>>
=============================================================================
