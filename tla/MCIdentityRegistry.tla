------------------------- MODULE MCIdentityRegistry -------------------------
(* An instance of IdentityRegistry for TLC.  In a behaviour either the      *)
(* owner makes all the calls, and versions and verdicts grow, or everybody  *)
(* calls everything and versions stay small (its focus).                    *)
EXTENDS IdentityRegistry, FiniteSets, TLC

CONSTANTS a1, a2, nobody, w1, w2, i1, i2, none, k1, k2, s1

VARIABLE focus

\* The roles that are held and the admins that were set, all together.
Delegations ==
    Cardinality({x \in Roles \X Accounts : x[2] \in roles[x[1]]})
      + Cardinality({r \in Roles : roleAdmin[r] # "DEFAULT"})

\* Every account, a first version of everything, up to three delegations at a
\* time; nobody asks for a verdict.
AccessNext ==
    /\ \E caller \in Accounts :
          /\ \/ IdentityNext(caller)
             \/ ProfileNext(caller)
             \/ AuthorityNext(caller) /\ UNCHANGED <<registry, profiles, cache, reused>>
          /\ by' = caller
    /\ Delegations' <= 3
    /\ \A w \in Wallets : identityVersion'[w] <= 1 /\ identity'[w] \in {none, i1}
    /\ \A p \in Profiles : profileVersion'[p] <= 1 /\ topics'[p] \in {{}, {k1}}

VerdictsNext ==
    /\ \/ IdentityNext(owner)
       \/ ProfileNext(owner)
       \/ VerificationNext
    /\ by' = owner

FocusedInit ==
    /\ Init
    /\ focus \in {"access", "verdicts"}
FocusedNext ==
    /\ \/ focus = "access" /\ AccessNext
       \/ focus = "verdicts" /\ VerdictsNext
    /\ UNCHANGED focus
FocusedSpec == FocusedInit /\ [][FocusedNext]_<<vars, focus>>

Symmetry == Permutations(Accounts) \cup Permutations(Wallets)
=============================================================================
