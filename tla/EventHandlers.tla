---------------------------- MODULE EventHandlers ----------------------------
(* handleLog: the switch from a log to its handler, and the puts of each    *)
(* handler, from what the database holds when it begins.                    *)
EXTENDS IndexStore

\* The tokenId of a log is the one that is indexed; an event that carries
\* another number in its place names no token here.
TokenOnly(id) == PutGenericEvent(id, TRUE, NoOne)
AddressOnly(id, address) == PutGenericEvent(id, FALSE, address)
TokenAndAddress(id, address) == PutGenericEvent(id, TRUE, address)

-----------------------------------------------------------------------------
(* Balances: the row of an event is not a generic one *)

handleMinted(db, log, id) == RecordMint(db, log.to, log.n) \o PutEvent(id)
handleBurned(db, log, id) == RecordBurn(db, log.from, log.n) \o PutEvent(id)
handleForcedTransfer(id) == PutEvent(id)

\* Of a mint of another tokenId: the rows of that one are not kept here.
handleMintedOfOther(id) == PutEvent(id)

\* Mints and burns are left to their own logs.
handleTransferSingle(db, log, id) ==
    IF NoOne \in {log.from, log.to} THEN <<>>
    ELSE RecordTransfer(db, log.from, log.to, log.n) \o PutEvent(id)

-----------------------------------------------------------------------------
(* The asset *)

\* named: name and symbol were had from the contracts.
handleAssetRegistered(log, id, named) == RecordAsset(named) \o TokenAndAddress(id, log.from)

handleURI(db, log, id) == UpdateAssetURI(db, log.n) \o TokenOnly(id)

handleAssetPaused(db, log, id, paused) ==
    UpdateAssetPaused(db, paused) \o TokenAndAddress(id, log.from)

-----------------------------------------------------------------------------
(* Identities and recovery *)

handleIdentityBound(db, log, id) ==
    RecordIdentity(db, log.from, log.to, log.n) \o AddressOnly(id, log.from)

handleIdentityUnbound(db, log, id) == RemoveIdentity(db, log.from) \o AddressOnly(id, log.from)

\* Mutant: the lost wallet keeps its row.
MoveIdentityKeepsLost(db, lost, new) ==
    IF IsBound(db, lost)
    THEN RecordIdentity(db, new, db.identity[lost].identity, db.identity[lost].country)
    ELSE <<>>

MoveIdentity(db, lost, new) ==
    IF IsBound(db, lost)
    THEN RecordIdentity(db, new, db.identity[lost].identity, db.identity[lost].country)
           \o RemoveIdentity(db, lost)
    ELSE <<>>

\* The rows of freezes stay with the lost wallet.
handleWalletRecovered(db, log, id) ==
    MoveIdentity(db, log.from, log.to) \o AddressOnly(id, log.to)

-----------------------------------------------------------------------------
(* Freezes *)

handleWalletFrozen(log, id) ==
    RecordWalletFreeze(log.from, log.n = 1) \o AddressOnly(id, log.from)
handleAssetFrozen(log, id) ==
    RecordFreeze(log.from, log.n = 1) \o TokenAndAddress(id, log.from)
handlePartialFreeze(db, log, id) ==
    UpdateFreezeAmount(db, log.from, log.n) \o TokenAndAddress(id, log.from)
handleLockupSet(db, log, id) ==
    UpdateLockupExpiry(db, log.from, log.n) \o TokenAndAddress(id, log.from)

-----------------------------------------------------------------------------
(* Events that are only listed *)

\* A handler for the tokenId in the first topic; those of groups have the
\* groupId there.
handleGenericEvent(log, id) ==
    IF log.kind \in GroupNotices \cup {"UnitMinted"} THEN AddressOnly(id, NoOne) ELSE TokenOnly(id)

handleGenericEventWithTokenAndAddr(log, id) == TokenAndAddress(id, log.from)
handleGenericEventAddrOnly(log, id) == AddressOnly(id, log.from)
handleRoleEvent(log, id) == AddressOnly(id, log.from)
handleGlobalPlugin(log, id) == AddressOnly(id, log.from)
handleSnapshotAndDividendCreated(id) == TokenOnly(id)
handleDividendClaimed(log, id) == AddressOnly(id, log.from)
handleRewardAssetEvent(log, id) == TokenAndAddress(id, log.from)
handleYieldDeposited(id) == TokenOnly(id)
handleYieldClaimed(log, id) == TokenAndAddress(id, log.from)
handleComplianceSetting(id) == TokenOnly(id)

NoticePuts(log, id) ==
    CASE log.kind \in GroupNotices \cup {"UnitMinted", "AssetConfigUpdated", "PluginModulesSet"} ->
           handleGenericEvent(log, id)
      [] log.kind = "ComplianceModuleAdded" -> handleGenericEventWithTokenAndAddr(log, id)
      [] log.kind = "EmergencyPause" -> handleGenericEventAddrOnly(log, id)
      [] log.kind = "RoleGranted" -> handleRoleEvent(log, id)
      [] log.kind \in {"GlobalPluginRegistered", "GlobalPluginStatusChanged"} ->
           handleGlobalPlugin(log, id)
      [] log.kind \in {"SnapshotCreated", "DividendCreated"} ->
           handleSnapshotAndDividendCreated(id)
      [] log.kind = "DividendClaimed" -> handleDividendClaimed(log, id)
      [] log.kind = "RewardAssetAdded" -> handleRewardAssetEvent(log, id)
      [] log.kind = "YieldDeposited" -> handleYieldDeposited(id)
      [] log.kind = "YieldClaimed" -> handleYieldClaimed(log, id)
      [] log.kind \in {"CountryRestricted", "MaxBalanceSet"} -> handleComplianceSetting(id)
      [] log.kind \in OtherTokenNotices -> handleMintedOfOther(id)

-----------------------------------------------------------------------------
\* The switch of handleLog.  TransferBatch has no case.
HandlerPuts(db, log, id, named) ==
    CASE log.kind = "Minted" -> handleMinted(db, log, id)
      [] log.kind = "Burned" -> handleBurned(db, log, id)
      [] log.kind = "ForcedTransfer" -> handleForcedTransfer(id)
      [] log.kind = "TransferSingle" -> handleTransferSingle(db, log, id)
      [] log.kind = "AssetRegistered" -> handleAssetRegistered(log, id, named)
      [] log.kind = "URI" -> handleURI(db, log, id)
      [] log.kind = "IdentityBound" -> handleIdentityBound(db, log, id)
      [] log.kind = "IdentityUnbound" -> handleIdentityUnbound(db, log, id)
      [] log.kind = "WalletFrozen" -> handleWalletFrozen(log, id)
      [] log.kind = "AssetFrozen" -> handleAssetFrozen(log, id)
      [] log.kind = "PartialFreeze" -> handlePartialFreeze(db, log, id)
      [] log.kind = "LockupSet" -> handleLockupSet(db, log, id)
      [] log.kind \in {"AssetPaused", "AssetUnpaused"} ->
           handleAssetPaused(db, log, id, log.kind = "AssetPaused")
      [] log.kind = "WalletRecovered" -> handleWalletRecovered(db, log, id)
      [] log.kind \in Notices \cup {"UnitMinted"} -> NoticePuts(log, id)
      [] log.kind = "TransferBatch" -> <<>>

\* The logs that leave a row.
LeavesEvent(log) ==
    CASE log.kind = "TransferSingle" -> NoOne \notin {log.from, log.to}
      [] OTHER -> log.kind # "TransferBatch"
=============================================================================
