----------------------------- MODULE EventChain -----------------------------
(* The chain as the indexer sees it: blocks of the logs that the facets     *)
(* emit for one tokenId, each with the contracts' state after it, and mints *)
(* of another tokenId, which crowd the lists of events.  A block is final   *)
(* once it is there: the indexer treats it so.                              *)
EXTENDS Naturals, Sequences

CONSTANTS
    Wallets,
    NoOne,          \* the zero address
    Identities,     \* identity contracts
    Countries,
    Amounts,
    Uris,           \* what callers of registerAsset and setAssetUri pass
    Traffic,        \* bound: the kinds of calls that are made
    MaxUnits,       \* bound: the units in circulation
    MaxBlocks,      \* bound: the length of the chain
    MaxLogs         \* bound: the logs of a block

\* Logs that change nothing modelled here, by what the event carries: the
\* tokenId, an account, both, or a tokenId that is only in its second topic.
TokenNotices == {"AssetConfigUpdated", "PluginModulesSet", "SnapshotCreated", "DividendCreated",
                 "YieldDeposited", "CountryRestricted", "MaxBalanceSet"}
AccountNotices == {"RoleGranted", "EmergencyPause", "DividendClaimed",
                   "GlobalPluginRegistered", "GlobalPluginStatusChanged"}
TokenAccountNotices == {"ComplianceModuleAdded", "RewardAssetAdded", "YieldClaimed"}
GroupNotices == {"GroupCreated"}
\* A Minted log of another tokenId.
OtherTokenNotices == {"OtherMinted"}
Notices == TokenNotices \cup AccountNotices \cup TokenAccountNotices \cup GroupNotices
             \cup OtherTokenNotices

CallKinds == {"register", "mint", "mintUnit", "burn", "transfer", "batchTransfer", "forcedTransfer",
              "freeze", "partialFreeze", "walletFreeze", "lockup", "pause", "uri",
              "bind", "unbind", "rebind", "move", "recover"} \cup Notices

ASSUME ChainAssumption ==
    /\ Traffic \subseteq CallKinds
    /\ NoOne \notin Wallets \cup Identities
    /\ Countries \subseteq Nat /\ Amounts \subseteq Nat /\ Uris \subseteq Nat
    /\ MaxUnits \in Nat /\ MaxBlocks \in Nat /\ MaxLogs \in Nat

VARIABLE chain

ContractState ==
    [registered : BOOLEAN, paused : BOOLEAN, uri : Nat,
     held : [Wallets -> Nat],
     walletFrozen : [Wallets -> BOOLEAN], frozen : [Wallets -> BOOLEAN],
     frozenAmount : [Wallets -> Nat], lockup : [Wallets -> Nat],
     identity : [Wallets -> Identities \cup {NoOne}], country : [Wallets -> Nat]]

\* n is the data word: an amount, a flag, a time, a country or a uri.
LogsOf(kinds, from, to) == [kind : kinds, from : from, to : to, n : Nat]

Log ==
    LogsOf({"TransferSingle"}, Wallets \cup {NoOne}, Wallets \cup {NoOne})
      \cup LogsOf({"Minted", "UnitMinted"}, {NoOne}, Wallets)
      \cup LogsOf({"Burned", "WalletFrozen", "AssetFrozen", "PartialFreeze", "LockupSet",
                   "IdentityUnbound"}, Wallets, {NoOne})
      \cup LogsOf({"AssetRegistered", "AssetPaused", "AssetUnpaused"}, Wallets, {NoOne})
      \cup LogsOf({"URI"} \cup TokenNotices \cup GroupNotices \cup OtherTokenNotices, {NoOne}, {NoOne})
      \cup LogsOf(AccountNotices \cup TokenAccountNotices, Wallets, {NoOne})
      \cup LogsOf({"TransferBatch", "ForcedTransfer", "WalletRecovered"}, Wallets, Wallets)
      \cup LogsOf({"IdentityBound"}, Wallets, Identities)

Block == [logs : Seq(Log), state : ContractState]

\* Without calls of registerAsset the token is there from the start.
Genesis ==
    [registered |-> "register" \notin Traffic, paused |-> FALSE, uri |-> 0,
     held |-> [w \in Wallets |-> 0],
     walletFrozen |-> [w \in Wallets |-> FALSE], frozen |-> [w \in Wallets |-> FALSE],
     frozenAmount |-> [w \in Wallets |-> 0], lockup |-> [w \in Wallets |-> 0],
     identity |-> [w \in Wallets |-> NoOne], country |-> [w \in Wallets |-> 0]]

StateAt(b) == IF b = 0 THEN Genesis ELSE chain[b].state
Tip == StateAt(Len(chain))

LogOf(kind, from, to, n) == [kind |-> kind, from |-> from, to |-> to, n |-> n]

-----------------------------------------------------------------------------
(* The calls that can be made in a state: the state after each, its logs *)

Call(state, logs) == [state |-> state, logs |-> logs]

Gained(s, w, n) == [s EXCEPT !.held[w] = @ + n]
Lost(s, w, n) == [s EXCEPT !.held[w] = @ - n]
Given(s, from, to, n) == Gained(Lost(s, from, n), to, n)

\* Amounts that leave every wallet within the bound.
Mintable(s) ==
    {n \in Amounts : s.registered /\ \A w \in Wallets : s.held[w] + n <= MaxUnits}
Sendable(s, w) == {n \in Amounts : n <= s.held[w]}

Launched(s, u) == [s EXCEPT !.registered = TRUE, !.uri = u]

\* The uri given at registration is in no log.
RegisterAsset(s) ==
    {Call(Launched(s, u), <<LogOf("AssetRegistered", w, NoOne, 0)>>)
        : w \in Wallets, u \in {v \in Uris : ~s.registered}}

Mint(s) ==
    {Call(Gained(s, w, n),
          <<LogOf("TransferSingle", NoOne, w, n), LogOf("Minted", NoOne, w, n)>>)
        : w \in Wallets, n \in Mintable(s)}

\* The first units of a child tokenId; no Minted log.
MintUnit(s) ==
    {Call(Gained(s, w, n),
          <<LogOf("TransferSingle", NoOne, w, n), LogOf("UnitMinted", NoOne, w, n)>>)
        : w \in Wallets, n \in {m \in Mintable(s) : \A v \in Wallets : s.held[v] = 0}}

Burn(s) ==
    UNION {{Call(Lost(s, w, n),
                 <<LogOf("TransferSingle", w, NoOne, n), LogOf("Burned", w, NoOne, n)>>)
              : n \in Sendable(s, w)} : w \in Wallets}

Transfer(s) ==
    UNION {{Call(Given(s, from, to, n), <<LogOf("TransferSingle", from, to, n)>>)
              : n \in Sendable(s, from)} : from, to \in Wallets}

BatchTransfer(s) ==
    UNION {{Call(Given(s, from, to, n), <<LogOf("TransferBatch", from, to, n)>>)
              : n \in Sendable(s, from)} : from, to \in Wallets}

ForcedTransfer(s) ==
    UNION {{Call(Given(s, from, to, n),
                 <<LogOf("TransferSingle", from, to, n), LogOf("ForcedTransfer", from, to, n)>>)
              : n \in Sendable(s, from)} : from, to \in Wallets}

SetAssetWalletFrozen(s) ==
    {Call([s EXCEPT !.frozen[w] = f], <<LogOf("AssetFrozen", w, NoOne, IF f THEN 1 ELSE 0)>>)
        : w \in Wallets, f \in BOOLEAN}

SetFrozenAmount(s) ==
    {Call([s EXCEPT !.frozenAmount[w] = n], <<LogOf("PartialFreeze", w, NoOne, n)>>)
        : w \in Wallets, n \in Amounts}

SetWalletFrozen(s) ==
    {Call([s EXCEPT !.walletFrozen[w] = f], <<LogOf("WalletFrozen", w, NoOne, IF f THEN 1 ELSE 0)>>)
        : w \in Wallets, f \in BOOLEAN}

SetLockupExpiry(s) ==
    {Call([s EXCEPT !.lockup[w] = n], <<LogOf("LockupSet", w, NoOne, n)>>)
        : w \in Wallets, n \in Amounts}

PauseAsset(s) ==
    {Call([s EXCEPT !.paused = ~@],
          <<LogOf(IF s.paused THEN "AssetUnpaused" ELSE "AssetPaused", w, NoOne, 0)>>)
        : w \in {v \in Wallets : s.registered}}

SetAssetUri(s) ==
    {Call([s EXCEPT !.uri = u],
          <<LogOf("URI", NoOne, NoOne, u), LogOf("AssetConfigUpdated", NoOne, NoOne, 0)>>)
        : u \in {v \in Uris : s.registered}}

Notify(kind, s) ==
    {Call(s, <<LogOf(kind, w, NoOne, 0)>>)
        : w \in IF kind \in AccountNotices \cup TokenAccountNotices THEN Wallets ELSE {NoOne}}

Bound(s, w) == s.identity[w] # NoOne

Registered(s, w, i, c) ==
    Call([s EXCEPT !.identity[w] = i, !.country[w] = c], <<LogOf("IdentityBound", w, i, c)>>)

RegisterIdentity(s) ==
    {Registered(s, w, i, c)
        : w \in {v \in Wallets : ~Bound(s, v)}, i \in Identities, c \in Countries}

DeleteIdentity(s) ==
    {Call([s EXCEPT !.identity[w] = NoOne, !.country[w] = 0], <<LogOf("IdentityUnbound", w, NoOne, 0)>>)
        : w \in {v \in Wallets : Bound(s, v)}}

UpdateIdentity(s) ==
    {Call([s EXCEPT !.identity[w] = i], <<LogOf("IdentityBound", w, i, s.country[w])>>)
        : w \in {v \in Wallets : Bound(s, v)}, i \in Identities}

\* Emits nothing.
UpdateCountry(s) ==
    {Call([s EXCEPT !.country[w] = c], <<>>)
        : w \in {v \in Wallets : Bound(s, v)}, c \in Countries}

\* A flag that is set, a number that is not zero, goes from lost to new.
FlagMoved(flags, lost, new) ==
    [flags EXCEPT ![new] = flags[new] \/ flags[lost], ![lost] = FALSE]

NumberMoved(numbers, lost, new) ==
    IF numbers[lost] = 0 THEN numbers
    ELSE [numbers EXCEPT ![new] = numbers[lost], ![lost] = 0]

Recovered(s, lost, new) ==
    LET n == s.held[lost]
        moved == Given(s, lost, new, n)
    IN Call([moved EXCEPT
               !.identity = [@ EXCEPT ![new] = s.identity[lost], ![lost] = NoOne],
               !.country = [@ EXCEPT ![new] = s.country[lost], ![lost] = 0],
               !.walletFrozen = FlagMoved(@, lost, new),
               !.frozen = FlagMoved(@, lost, new),
               !.frozenAmount = NumberMoved(@, lost, new),
               !.lockup = NumberMoved(@, lost, new)],
            (IF n = 0 THEN <<>> ELSE <<LogOf("TransferSingle", lost, new, n)>>)
              \o <<LogOf("WalletRecovered", lost, new, 0)>>)

RecoverWallet(s) ==
    UNION {{Recovered(s, lost, new) : new \in {w \in Wallets : w # lost /\ ~Bound(s, w)}}
              : lost \in Wallets}

CallsOf(kind, s) ==
    CASE kind = "register"       -> RegisterAsset(s)
      [] kind = "mint"           -> Mint(s)
      [] kind = "mintUnit"       -> MintUnit(s)
      [] kind = "burn"           -> Burn(s)
      [] kind = "transfer"       -> Transfer(s)
      [] kind = "batchTransfer"  -> BatchTransfer(s)
      [] kind = "forcedTransfer" -> ForcedTransfer(s)
      [] kind = "freeze"         -> SetAssetWalletFrozen(s)
      [] kind = "partialFreeze"  -> SetFrozenAmount(s)
      [] kind = "walletFreeze"   -> SetWalletFrozen(s)
      [] kind = "lockup"         -> SetLockupExpiry(s)
      [] kind = "pause"          -> PauseAsset(s)
      [] kind = "uri"            -> SetAssetUri(s)
      [] kind = "bind"           -> RegisterIdentity(s)
      [] kind = "unbind"         -> DeleteIdentity(s)
      [] kind = "rebind"         -> UpdateIdentity(s)
      [] kind = "move"           -> UpdateCountry(s)
      [] kind = "recover"        -> RecoverWallet(s)
      [] kind \in Notices        -> Notify(kind, s)

Calls(kinds, s) == UNION {CallsOf(kind, s) : kind \in kinds}

\* A block of up to two calls.
Blocks(kinds, s) ==
    LET one == Calls(kinds, s)
        two == UNION {{Call(b.state, a.logs \o b.logs) : b \in Calls(kinds, a.state)} : a \in one}
    IN {Call(s, <<>>)} \cup {b \in one \cup two : Len(b.logs) <= MaxLogs}

NewBlock(kinds) ==
    /\ Len(chain) < MaxBlocks
    /\ \E b \in Blocks(kinds, Tip) : chain' = Append(chain, b)
=============================================================================
