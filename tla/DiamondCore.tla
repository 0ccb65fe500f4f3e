----------------------------- MODULE DiamondCore -----------------------------
(***************************************************************************)
(* The two registries of the diamond that are lists with a removal by      *)
(* swapping in the last element: the selectors and facets of LibDiamond,   *)
(* and the plugins of GlobalPluginFacet.  Positions in storage count from  *)
(* 0, sequences from 1.                                                    *)
(*                                                                         *)
(* One action is one call, by a caller with the role, that does not        *)
(* revert.  A cut of several facets is one cut after the other; it has no  *)
(* initializer.                                                            *)
(***************************************************************************)
EXTENDS Integers, FiniteSets, Functions, SequencesExt

CONSTANTS
    Selectors,
    CutSelector,        \* that of diamondCut
    Facets,             \* contracts with code
    CutFacet,           \* the facet of diamondCut
    Self,               \* the diamond, a contract with code too
    NoFacet,            \* address(0)
    MaxPerCut,          \* bound: the selectors of a cut
    Plugins,
    MAX_GLOBAL_PLUGINS

ASSUME DiamondAssumption ==
    /\ CutSelector \in Selectors
    /\ {CutFacet, Self} \subseteq Facets /\ NoFacet \notin Facets
    /\ MaxPerCut \in Nat /\ MAX_GLOBAL_PLUGINS \in Nat

VARIABLES
    table,          \* DiamondStorage
    plugins,        \* the list of GlobalPluginInfo, in order
    pluginIndex     \* position in the list plus one, 0 when not registered

vars == <<table, plugins, pluginIndex>>

Table ==
    [facetOf : [Selectors -> Facets \cup {NoFacet}], positionOf : [Selectors -> Nat],
     selectorsOf : [Facets -> Seq(Selectors)], facetPosition : [Facets -> Nat],
     facetAddresses : Seq(Facets)]

\* pop after the last element was written over the one at i.
SwapAndPop(list, i) == Front([list EXCEPT ![i] = Last(list)])

-----------------------------------------------------------------------------
(* LibDiamond: one selector *)

AddFacet(t, f) ==
    [t EXCEPT !.facetPosition[f] = Len(t.facetAddresses),
              !.facetAddresses = Append(@, f)]

AddFunction(t, s, position, f) ==
    [t EXCEPT !.positionOf[s] = position,
              !.selectorsOf[f] = Append(@, s),
              !.facetOf[s] = f]

\* Mutant: the last facet is popped, whichever it is.
FacetDroppedLast(t, f) ==
    [t EXCEPT !.facetPosition[f] = 0, !.facetAddresses = Front(@)]

\* A facet without selectors leaves the list of facets.
FacetDropped(t, f) ==
    LET moved == Last(t.facetAddresses)
    IN [t EXCEPT !.facetPosition =
                     [[@ EXCEPT ![moved] = t.facetPosition[f]] EXCEPT ![f] = 0],
                 !.facetAddresses = SwapAndPop(@, t.facetPosition[f] + 1)]

\* Mutant: the position of the selector that was swapped in is not repaired.
RemoveFunctionUnrepaired(t, f, s) ==
    LET selectors == t.selectorsOf[f]
        removed == [t EXCEPT
            !.facetOf[s] = NoFacet,
            !.positionOf[s] = 0,
            !.selectorsOf[f] = SwapAndPop(selectors, t.positionOf[s] + 1)]
    IN IF Len(selectors) = 1 THEN FacetDropped(removed, f) ELSE removed

RemoveFunction(t, f, s) ==
    LET selectors == t.selectorsOf[f]
        removed == [t EXCEPT
            !.facetOf[s] = NoFacet,
            !.positionOf =
                [[@ EXCEPT ![Last(selectors)] = t.positionOf[s]] EXCEPT ![s] = 0],
            !.selectorsOf[f] = SwapAndPop(selectors, t.positionOf[s] + 1)]
    IN IF Len(selectors) = 1 THEN FacetDropped(removed, f) ELSE removed

-----------------------------------------------------------------------------
(* LibDiamond: the selectors of a cut, one after the other.  next is the     *)
(* position the next selector takes; ok turns FALSE when one of them reverts *)

Progress(t, next, ok) == [table |-> t, next |-> next, ok |-> ok]

WithFacet(t, f) ==
    Progress(IF t.selectorsOf[f] = <<>> THEN AddFacet(t, f) ELSE t, Len(t.selectorsOf[f]), TRUE)

AddSelector(c, s, f) ==
    Progress(AddFunction(c.table, s, c.next, f), c.next + 1,
             c.ok /\ c.table.facetOf[s] = NoFacet)

AddFunctions(t, f, selectors) ==
    LET Step(c, s) == AddSelector(c, s, f)
    IN FoldLeft(Step, WithFacet(t, f), selectors)

Removable(f) == f # NoFacet /\ f # Self

ReplaceSelector(c, s, f) ==
    LET old == c.table.facetOf[s]
    IN IF c.ok /\ old # f /\ Removable(old)
       THEN Progress(AddFunction(RemoveFunction(c.table, old, s), s, c.next, f), c.next + 1, TRUE)
       ELSE Progress(c.table, c.next, FALSE)

ReplaceFunctions(t, f, selectors) ==
    LET Step(c, s) == ReplaceSelector(c, s, f)
    IN FoldLeft(Step, WithFacet(t, f), selectors)

RemoveSelector(c, s) ==
    LET old == c.table.facetOf[s]
    IN IF c.ok /\ Removable(old)
       THEN Progress(RemoveFunction(c.table, old, s), 0, TRUE)
       ELSE Progress(c.table, 0, FALSE)

RemoveFunctions(t, selectors) == FoldLeft(RemoveSelector, Progress(t, 0, TRUE), selectors)

EmptyTable ==
    [facetOf |-> [s \in Selectors |-> NoFacet], positionOf |-> [s \in Selectors |-> 0],
     selectorsOf |-> [f \in Facets |-> <<>>], facetPosition |-> [f \in Facets |-> 0],
     facetAddresses |-> <<>>]

\* The constructor cuts in diamondCut.
Init ==
    /\ table = AddFunctions(EmptyTable, CutFacet, <<CutSelector>>).table
    /\ plugins = <<>>
    /\ pluginIndex = [p \in Plugins |-> 0]

\* The call comes in by its selector.
Cut(outcome) ==
    /\ table.facetOf[CutSelector] # NoFacet
    /\ outcome.ok
    /\ table' = outcome.table
    /\ UNCHANGED <<plugins, pluginIndex>>

DiamondCutAdd(f, selectors) == Cut(AddFunctions(table, f, selectors))
DiamondCutReplace(f, selectors) == Cut(ReplaceFunctions(table, f, selectors))
DiamondCutRemove(selectors) == Cut(RemoveFunctions(table, selectors))

-----------------------------------------------------------------------------
(* GlobalPluginFacet *)

Info(p, active) == [plugin |-> p, active |-> active]
Registered(p) == pluginIndex[p] # 0

\* Mutant: one plugin more than the limit.
RegisterGlobalPluginOneMore(p) ==
    /\ ~Registered(p)
    /\ Len(plugins) <= MAX_GLOBAL_PLUGINS
    /\ plugins' = Append(plugins, Info(p, TRUE))
    /\ pluginIndex' = [pluginIndex EXCEPT ![p] = Len(plugins')]
    /\ UNCHANGED table

RegisterGlobalPlugin(p) ==
    /\ ~Registered(p)
    /\ Len(plugins) < MAX_GLOBAL_PLUGINS
    /\ plugins' = Append(plugins, Info(p, TRUE))
    /\ pluginIndex' = [pluginIndex EXCEPT ![p] = Len(plugins')]
    /\ UNCHANGED table

\* Mutant: the index of the plugin that was swapped in is not repaired.
RemoveGlobalPluginUnrepaired(p) ==
    /\ Registered(p)
    /\ plugins' = SwapAndPop(plugins, pluginIndex[p])
    /\ pluginIndex' = [pluginIndex EXCEPT ![p] = 0]
    /\ UNCHANGED table

\* Mutant: the plugin that is swapped in is entered anew, switched on.
RemoveGlobalPluginReactivated(p) ==
    /\ Registered(p)
    /\ plugins' = Front([plugins EXCEPT ![pluginIndex[p]] = Info(Last(plugins).plugin, TRUE)])
    /\ pluginIndex' = [[pluginIndex EXCEPT ![Last(plugins).plugin] = pluginIndex[p]] EXCEPT ![p] = 0]
    /\ UNCHANGED table

RemoveGlobalPlugin(p) ==
    /\ Registered(p)
    /\ plugins' = SwapAndPop(plugins, pluginIndex[p])
    /\ pluginIndex' = [[pluginIndex EXCEPT ![Last(plugins).plugin] = pluginIndex[p]] EXCEPT ![p] = 0]
    /\ UNCHANGED table

SetGlobalPluginStatus(p, active) ==
    /\ Registered(p)
    /\ plugins[pluginIndex[p]].active # active
    /\ plugins' = [plugins EXCEPT ![pluginIndex[p]].active = active]
    /\ UNCHANGED <<table, pluginIndex>>

-----------------------------------------------------------------------------
Cuts == BoundedSeq(Selectors, MaxPerCut) \ {<<>>}

Next ==
    \/ \E selectors \in Cuts :
          \/ \E f \in Facets : DiamondCutAdd(f, selectors) \/ DiamondCutReplace(f, selectors)
          \/ DiamondCutRemove(selectors)
    \/ \E p \in Plugins :
          \/ RegisterGlobalPlugin(p) \/ RemoveGlobalPlugin(p)
          \/ \E active \in BOOLEAN : SetGlobalPluginStatus(p, active)

Spec == Init /\ [][Next]_vars

-----------------------------------------------------------------------------
TypeOK ==
    /\ table \in Table
    /\ plugins \in Seq([plugin : Plugins, active : BOOLEAN])
    /\ Len(plugins) <= MAX_GLOBAL_PLUGINS
    /\ pluginIndex \in [Plugins -> 0..MAX_GLOBAL_PLUGINS]

\* After any sequence of cuts the recorded positions are those of the lists:
\* a later removal takes out the selector it names and no other.
PositionsAgree ==
    /\ \A f \in Facets : \A i \in DOMAIN table.selectorsOf[f] :
          LET s == table.selectorsOf[f][i]
          IN table.facetOf[s] = f /\ table.positionOf[s] = i - 1
    /\ \A i \in DOMAIN table.facetAddresses :
          table.facetPosition[table.facetAddresses[i]] = i - 1

\* pluginIndex finds every plugin of the list, and only those.
PluginIndexAgrees ==
    /\ \A i \in DOMAIN plugins : pluginIndex[plugins[i].plugin] = i
    /\ \A p \in Plugins : Registered(p) => plugins[pluginIndex[p]].plugin = p

\* A plugin that is switched off stays off while others are registered and
\* removed: its entry changes only when its status does, and then every plugin
\* keeps its place.
StatusIsKept ==
    [][\A p \in Plugins :
          /\ Registered(p) /\ Registered(p)'
          /\ plugins'[pluginIndex'[p]] # plugins[pluginIndex[p]]
          => \E active \in BOOLEAN :
                plugins'[pluginIndex'[p]] = Info(p, active) /\ pluginIndex' = pluginIndex]_vars

\* What DiamondLoupeFacet answers: the facets on the list, and the selectors of each.
Routes == INSTANCE RouteTable WITH
    route <- table.facetOf,
    loupe <- [f \in Facets |->
                 IF f \in Range(table.facetAddresses) THEN Range(table.selectorsOf[f]) ELSE {}]

\* Adding, replacing and removing selectors, several in one cut, down to the last
\* of a facet and from it on, is a step of a plain table of routes, and the loupe
\* always shows that table.
ImplementsRouteTable == Routes!Spec
=============================================================================
