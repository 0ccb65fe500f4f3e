----------------------------- MODULE AssetGroups -----------------------------
(* Groups of assets over the regulated token: AssetGroupFacet registers a   *)
(* unit and mints it in one call, beside whatever the other facets do.      *)
(*                                                                          *)
(* An asset is still named by its place in registeredTokenIds; tokenId      *)
(* gives the number it has there, as its high and its low 128 bits.         *)
EXTENDS RegulatedToken, Sequences

CONSTANTS
    MaxGroups,      \* bound: at most this many calls of createGroup succeed
    UnitLimits      \* the maxUnits callers pass, 0 meaning none

ASSUME GroupAssumption == MaxGroups \in Nat /\ UnitLimits \subseteq Nat

VARIABLES
    nextTokenId,    \* the last number registerAsset gave
    tokenId,        \* per asset, <<high, low>>
    nextGroupId,    \* the last groupId given
    group,          \* per groupId: parent, maxUnits, unitCount, nextUnitIndex
    groupChildren,  \* per groupId, the units in the order they were minted
    childToGroup    \* per asset, 0 for one that is no unit

groupVars == <<nextTokenId, tokenId, nextGroupId, group, groupChildren, childToGroup>>

Groups == 1..MaxGroups
NoGroup == [parent |-> 0, maxUnits |-> 0, unitCount |-> 0, nextUnitIndex |-> 0]

GroupsInit ==
    /\ nextTokenId = 0
    /\ tokenId = [id \in AssetIds |-> <<0, 0>>]
    /\ nextGroupId = 0
    /\ group = [g \in Groups |-> NoGroup]
    /\ groupChildren = [g \in Groups |-> <<>>]
    /\ childToGroup = [id \in AssetIds |-> 0]

GroupExists(g) == g <= nextGroupId

CreateGroup(caller, parent, maxUnits) ==
    /\ caller \in ComplianceAdminOrOwner
    /\ Registered(parent)
    /\ nextGroupId < MaxGroups
    /\ nextGroupId' = nextGroupId + 1
    /\ group' = [group EXCEPT ![nextGroupId'] =
                    [parent |-> parent, maxUnits |-> maxUnits, unitCount |-> 0, nextUnitIndex |-> 1]]
    /\ UNCHANGED <<vars, nextTokenId, tokenId, groupChildren, childToGroup>>

-----------------------------------------------------------------------------
(* _mintUnit, on what an earlier unit of a batch left *)

\* What minting units reads and writes.
Books == [registered |-> registered, asset |-> asset, ledger |-> ledger, tokenId |-> tokenId,
          group |-> group, groupChildren |-> groupChildren, childToGroup |-> childToGroup]

\* A unit to mint: its group, its supply cap, the investor and the amount.
Unit(g, cap, to, n) == [group |-> g, cap |-> cap, to |-> to, amount |-> n]

TokenIds(b) == {b.tokenId[id] : id \in 1..b.registered}
NextTokenId(b, g) == <<g, b.group[g].nextUnitIndex>>

\* Freezes for the new tokenId itself are not looked at, and neither is the
\* parent's pause.
UnitAllowed(b, u) ==
    LET g == b.group[u.group] IN
    /\ ~globalPaused
    /\ GroupExists(u.group)
    /\ g.maxUnits = 0 \/ g.unitCount < g.maxUnits
    /\ u.to \notin globalFreeze
    /\ NextTokenId(b, u.group) \notin TokenIds(b)
    /\ b.registered < MaxAssets
    /\ u.cap # 0 => u.amount <= u.cap
    /\ u.amount <= MaxUint

\* The unit takes over the parent's modules as they are now; nobody becomes a
\* holder of nothing.
UnitMinted(b, u) ==
    LET id == b.registered + 1
        g  == b.group[u.group]
    IN [registered |-> id,
        asset |-> [b.asset EXCEPT ![id] =
                      [paused |-> FALSE, cap |-> u.cap, modules |-> b.asset[g.parent].modules]],
        ledger |-> [b.ledger EXCEPT ![id] = IF u.amount = 0 THEN @ ELSE Minted(@, u.to, u.amount)],
        tokenId |-> [b.tokenId EXCEPT ![id] = NextTokenId(b, u.group)],
        group |-> [b.group EXCEPT ![u.group] =
                      [parent |-> g.parent, maxUnits |-> g.maxUnits,
                       unitCount |-> g.unitCount + 1, nextUnitIndex |-> g.nextUnitIndex + 1]],
        groupChildren |-> [b.groupChildren EXCEPT ![u.group] = Append(@, id)],
        childToGroup |-> [b.childToGroup EXCEPT ![id] = u.group]]

Write(b) ==
    /\ registered' = b.registered
    /\ asset' = b.asset
    /\ ledger' = b.ledger
    /\ tokenId' = b.tokenId
    /\ group' = b.group
    /\ groupChildren' = b.groupChildren
    /\ childToGroup' = b.childToGroup
    /\ UNCHANGED <<restrainVars, partyVars, rules, now, nextTokenId, nextGroupId>>

MintUnit(caller, u) ==
    /\ caller \in IssuerOrOwner \cup ComplianceAdminOrOwner
    /\ UnitAllowed(Books, u)
    /\ Write(UnitMinted(Books, u))

\* Mutant: both units are validated before the first is minted.
MintUnitBatchValidatedUpFront(caller, u, v) ==
    /\ caller \in IssuerOrOwner \cup ComplianceAdminOrOwner
    /\ UnitAllowed(Books, u)
    /\ UnitAllowed(Books, v)
    /\ registered + 2 <= MaxAssets
    /\ Write(UnitMinted(UnitMinted(Books, u), v))

MintUnitBatch(caller, u, v) ==
    /\ caller \in IssuerOrOwner \cup ComplianceAdminOrOwner
    /\ UnitAllowed(Books, u)
    /\ UnitAllowed(UnitMinted(Books, u), v)
    /\ Write(UnitMinted(UnitMinted(Books, u), v))

-----------------------------------------------------------------------------
(* Beside the other facets *)

\* registerAsset gives the next number of its own counter.
Numbered ==
    IF registered' = registered THEN UNCHANGED <<nextTokenId, tokenId>>
    ELSE /\ nextTokenId' = nextTokenId + 1
         /\ tokenId' = [tokenId EXCEPT ![registered'] = <<0, nextTokenId'>>]

TokenCall(call) == call /\ Numbered /\ UNCHANGED <<nextGroupId, group, groupChildren, childToGroup>>

Units == {Unit(g, cap, to, n) : g \in Groups, cap \in Caps, to \in Wallets, n \in Amounts \cup {0}}

GroupNext ==
    \E caller \in Callers :
        \/ \E parent \in AssetIds, maxUnits \in UnitLimits : CreateGroup(caller, parent, maxUnits)
        \/ \E u \in Units : MintUnit(caller, u)
        \/ \E u, v \in Units : MintUnitBatch(caller, u, v)

GroupsNext == TokenCall(Next) \/ GroupNext

GroupsSpec == Init /\ GroupsInit /\ [][GroupsNext]_<<vars, groupVars>>

-----------------------------------------------------------------------------
\* The books of the groups agree with the registry of assets: no two assets have
\* the same tokenId; a group has as many units as it counts and no more than it
\* may have; its list gives them in the order of their indexes; an asset is a
\* unit of the group that lists it; and the tokenId of the next unit is free, so
\* no group with room left is stuck.
UnitsAgree ==
    /\ \A id \in 1..registered :
          /\ \A other \in 1..registered : tokenId[id] = tokenId[other] => id = other
          /\ \A g \in 1..nextGroupId :
                childToGroup[id] = g <=> \E k \in 1..group[g].unitCount : groupChildren[g][k] = id
    /\ \A g \in 1..nextGroupId :
          /\ group[g].unitCount = Len(groupChildren[g])
          /\ group[g].maxUnits # 0 => group[g].unitCount <= group[g].maxUnits
          /\ \A k \in 1..group[g].unitCount : tokenId[groupChildren[g][k]] = <<g, k>>
          /\ NextTokenId(Books, g) \notin TokenIds(Books)
=============================================================================
