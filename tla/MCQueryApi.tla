---------------------------- MODULE MCQueryApi ----------------------------
(* An instance of QueryApi for TLC.  The calls are made in groups, one      *)
(* group (the focus) in a behaviour, each with what is asked about it.      *)
EXTENDS QueryApi, TLC

CONSTANTS w1, w2, nobody, i1

VARIABLE focus

Foci ==
    [balances   |-> {"mint", "burn", "transfer", "forcedTransfer"},
     parties    |-> {"mint", "bind", "unbind", "rebind", "recover"},
     freezes    |-> {"walletFreeze", "freeze", "partialFreeze", "lockup"},
     asset      |-> {"register", "pause", "uri"},
     events     |-> {"mint", "pause"},
     crowd      |-> {"mint"} \cup OtherTokenNotices,
     notices    |-> Notices \cup {"bind", "recover"},
     identities |-> {"bind", "unbind", "recover"}]

AllTraffic == UNION {Foci[f] : f \in DOMAIN Foci}

\* The blocks of a behaviour, and the logs of a block.
Bounds ==
    [balances |-> <<3, 2>>, parties |-> <<3, 2>>, freezes |-> <<3, 1>>, asset |-> <<3, 2>>,
     events |-> <<2, 2>>, crowd |-> <<3, 2>>, notices |-> <<1, 1>>, identities |-> <<2, 2>>]

RegistrationBlock(issuer) ==
    [logs |-> <<LogOf("AssetRegistered", issuer, NoOne, 0)>>,
     state |-> [Genesis EXCEPT !.registered = TRUE]]

\* Where units are minted the token is registered in the first block.
FocusedInit ==
    /\ focus \in DOMAIN Foci
    /\ chain \in IF focus \in {"balances", "parties", "events", "crowd"}
                  THEN {<<RegistrationBlock(w)>> : w \in Wallets} ELSE {<<>>}
    /\ StoreInit /\ ReaderInit

FocusedNext ==
    /\ \/ IndexerWorks
       \/ focus \in {"events", "notices"} /\ (AskEvents \/ VisitEvent \/ Deliver)
       \/ focus = "crowd" /\ (AskEvents \/ VisitEvent \/ Deliver) /\ request' \in TransferRequests \cup {NoRequest}
       \/ focus = "identities" /\ (AskByCountry \/ VisitWallet \/ Deliver)
       \/ /\ Len(chain) < Bounds[focus][1]
          /\ MineWhileReading(Foci[focus])
          /\ Len(chain'[Len(chain')].logs) <= Bounds[focus][2]
    /\ UNCHANGED focus

FocusedSpec == FocusedInit /\ [][FocusedNext]_<<queryVars, focus>>

Symmetry == Permutations(Wallets)
=============================================================================
