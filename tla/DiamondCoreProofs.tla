-------------------------- MODULE DiamondCoreProofs --------------------------
(***************************************************************************)
(* Theorems about DiamondCore, for any selectors, facets and plugins, any  *)
(* limit on plugins and cuts of any length: the plugin registry and its    *)
(* index, and the selector table, its lists, the positions it records and  *)
(* the table of routes it implements.                                      *)
(*                                                                         *)
(* A cut folds over the selectors it names.  Its run is written as a       *)
(* function of the prefixes of that list, and what holds all along the run *)
(* is shown by the smallest prefix where it would not.                     *)
(***************************************************************************)
EXTENDS DiamondCore, FiniteSums, SequenceTheorems

Infos == [plugin : Plugins, active : BOOLEAN]

\* What a call of the registry may rely on.
IInv ==
    /\ plugins \in Seq(Infos)
    /\ Len(plugins) <= MAX_GLOBAL_PLUGINS
    /\ pluginIndex \in [Plugins -> 0..Len(plugins)]
    /\ PluginIndexAgrees

\* Writing the last element over the one at i and popping: what is left, and where.
LEMMA SwapAndPopFacts ==
    ASSUME NEW S, NEW list \in Seq(S), NEW i \in 1..Len(list)
    PROVE  /\ SwapAndPop(list, i) \in Seq(S)
           /\ Len(SwapAndPop(list, i)) = Len(list) - 1
           /\ \A j \in 1..(Len(list) - 1) :
                 SwapAndPop(list, i)[j] = IF j = i THEN list[Len(list)] ELSE list[j]
<1> DEFINE swapped == [list EXCEPT ![i] = Last(list)]
<1>1. /\ swapped \in Seq(S)
      /\ Len(swapped) = Len(list)
      /\ \A j \in 1..Len(list) : swapped[j] = IF j = i THEN list[Len(list)] ELSE list[j]
    BY DEF Last
<1>2. QED
    BY <1>1 DEF SwapAndPop, Front

LEMMA InitInv == Init => IInv
BY DiamondAssumption DEF Init, IInv, PluginIndexAgrees, Registered

\* IInv, place by place and plugin by plugin.
LEMMA ListAndIndex ==
    ASSUME IInv
    PROVE  /\ Len(plugins) \in Nat
           /\ \A i \in 1..Len(plugins) :
                 plugins[i].plugin \in Plugins /\ pluginIndex[plugins[i].plugin] = i
           /\ \A q \in Plugins :
                 /\ pluginIndex[q] \in 0..Len(plugins)
                 /\ pluginIndex[q] # 0 => plugins[pluginIndex[q]].plugin = q
<1>1. Len(plugins) \in Nat /\ DOMAIN plugins = 1..Len(plugins)
    BY DEF IInv
<1>2. \A i \in 1..Len(plugins) : plugins[i] \in Infos
    BY DEF IInv
<1>3. \A i \in 1..Len(plugins) : plugins[i].plugin \in Plugins
    BY <1>2 DEF Infos
<1>4. QED
    BY <1>1, <1>3 DEF IInv, PluginIndexAgrees, Registered

\* And back, for the state a call leaves.
LEMMA NewListAndIndex ==
    ASSUME plugins' \in Seq(Infos),
           Len(plugins') <= MAX_GLOBAL_PLUGINS,
           pluginIndex' \in [Plugins -> 0..Len(plugins')],
           \A i \in 1..Len(plugins') : pluginIndex'[plugins'[i].plugin] = i,
           \A q \in Plugins : pluginIndex'[q] # 0 => plugins'[pluginIndex'[q]].plugin = q
    PROVE  IInv'
<1>1. DOMAIN plugins' = 1..Len(plugins')
    OBVIOUS
<1>2. QED
    BY <1>1 DEF IInv, PluginIndexAgrees, Registered

\* What each call does to the list and the index.
LEMMA RegisterEffect ==
    ASSUME IInv, NEW p \in Plugins, RegisterGlobalPlugin(p)
    PROVE  /\ plugins' \in Seq(Infos)
           /\ Len(plugins') = Len(plugins) + 1
           /\ \A i \in 1..Len(plugins) : plugins'[i] = plugins[i]
           /\ plugins'[Len(plugins) + 1].plugin = p
           /\ pluginIndex[p] = 0
           /\ pluginIndex' = [q \in Plugins |-> IF q = p THEN Len(plugins) + 1 ELSE pluginIndex[q]]
<1> DEFINE new == Info(p, TRUE)
<1>1. new \in Infos /\ new.plugin = p
    BY DEF Info, Infos
<1>2. plugins \in Seq(Infos) /\ plugins' = Append(plugins, new)
    BY DEF IInv, RegisterGlobalPlugin
<1> HIDE DEF new
<1>3. /\ plugins' \in Seq(Infos)
      /\ Len(plugins') = Len(plugins) + 1
      /\ \A i \in 1..Len(plugins) : plugins'[i] = plugins[i]
      /\ plugins'[Len(plugins) + 1] = new
    BY <1>1, <1>2, AppendProperties
<1>4. QED
    BY <1>1, <1>3 DEF IInv, RegisterGlobalPlugin, Registered

LEMMA RemoveEffect ==
    ASSUME IInv, NEW p \in Plugins, RemoveGlobalPlugin(p)
    PROVE  LET n == Len(plugins)
               k == pluginIndex[p]
               moved == plugins[n].plugin
           IN /\ n \in Nat /\ k \in 1..n /\ plugins[k].plugin = p
              /\ n \in 1..n /\ moved \in Plugins /\ pluginIndex[moved] = n
              /\ plugins' \in Seq(Infos)
              /\ Len(plugins') = n - 1
              /\ \A i \in 1..(n - 1) : plugins'[i] = IF i = k THEN plugins[n] ELSE plugins[i]
              /\ pluginIndex' = [q \in Plugins |->
                     IF q = p THEN 0 ELSE IF q = moved THEN k ELSE pluginIndex[q]]
<1> DEFINE n == Len(plugins)
           k == pluginIndex[p]
           moved == plugins[n].plugin
<1>1. /\ n \in Nat /\ k \in 1..n /\ plugins[k].plugin = p
      /\ n \in 1..n /\ moved \in Plugins /\ pluginIndex[moved] = n
    BY ListAndIndex DEF RemoveGlobalPlugin, Registered
<1>2. /\ plugins' \in Seq(Infos)
      /\ Len(plugins') = n - 1
      /\ \A i \in 1..(n - 1) : plugins'[i] = IF i = k THEN plugins[n] ELSE plugins[i]
    <2>1. plugins \in Seq(Infos) /\ plugins' = SwapAndPop(plugins, k)
        BY DEF IInv, RemoveGlobalPlugin
    <2>2. QED
        BY <1>1, <2>1, SwapAndPopFacts, SMTT(30)
<1>3. pluginIndex' = [q \in Plugins |-> IF q = p THEN 0 ELSE IF q = moved THEN k ELSE pluginIndex[q]]
    BY <1>1 DEF IInv, RemoveGlobalPlugin, Last
<1>4. QED
    BY <1>1, <1>2, <1>3

LEMMA SetStatusEffect ==
    ASSUME IInv, NEW p \in Plugins, NEW active \in BOOLEAN, SetGlobalPluginStatus(p, active)
    PROVE  /\ pluginIndex[p] \in 1..Len(plugins)
           /\ pluginIndex' = pluginIndex
           /\ plugins' \in Seq(Infos)
           /\ Len(plugins') = Len(plugins)
           /\ \A i \in 1..Len(plugins) : i # pluginIndex[p] => plugins'[i] = plugins[i]
           /\ plugins'[pluginIndex[p]] = Info(p, active)
<1> DEFINE k == pluginIndex[p]
           changed == [plugins[k] EXCEPT !.active = active]
<1>1. k \in 1..Len(plugins) /\ plugins[k].plugin = p /\ pluginIndex' = pluginIndex
    BY ListAndIndex DEF SetGlobalPluginStatus, Registered
<1>2. changed \in Infos /\ changed = Info(p, active)
    <2>1. plugins[k] \in Infos
        BY <1>1 DEF IInv
    <2>2. QED
        BY <1>1, <2>1 DEF Infos, Info
<1>3. plugins' = [plugins EXCEPT ![k] = changed]
    BY DEF SetGlobalPluginStatus
<1> HIDE DEF changed
<1>4. /\ plugins' \in Seq(Infos)
      /\ Len(plugins') = Len(plugins)
      /\ \A i \in 1..Len(plugins) : plugins'[i] = IF i = k THEN changed ELSE plugins[i]
    BY <1>1, <1>2, <1>3 DEF IInv
<1>5. QED
    BY <1>1, <1>2, <1>4

LEMMA RegisterInv ==
    ASSUME IInv, NEW p \in Plugins, RegisterGlobalPlugin(p)
    PROVE  IInv'
<1> DEFINE n == Len(plugins)
<1>1. n + 1 <= MAX_GLOBAL_PLUGINS
    BY ListAndIndex, DiamondAssumption DEF RegisterGlobalPlugin
<1>2. pluginIndex' \in [Plugins -> 0..(n + 1)]
    BY RegisterEffect, ListAndIndex
<1>3. \A i \in 1..(n + 1) : pluginIndex'[plugins'[i].plugin] = i
    <2>1. ASSUME NEW i \in 1..n
          PROVE  pluginIndex'[plugins'[i].plugin] = i
        BY RegisterEffect, ListAndIndex
    <2>2. pluginIndex'[plugins'[n + 1].plugin] = n + 1
        BY RegisterEffect
    <2>3. QED
        BY <2>1, <2>2, ListAndIndex
<1>4. \A q \in Plugins : pluginIndex'[q] # 0 => plugins'[pluginIndex'[q]].plugin = q
    <2>1. ASSUME NEW q \in Plugins, q # p, pluginIndex[q] # 0
          PROVE  plugins'[pluginIndex'[q]].plugin = q
        <3>1. pluginIndex'[q] = pluginIndex[q] /\ pluginIndex[q] \in 1..n
            BY RegisterEffect, <2>1, ListAndIndex
        <3>2. QED
            BY RegisterEffect, <2>1, <3>1, ListAndIndex
    <2>2. plugins'[pluginIndex'[p]].plugin = p
        BY RegisterEffect
    <2>3. QED
        BY RegisterEffect, <2>1, <2>2
<1>5. QED
    BY RegisterEffect, <1>1, <1>2, <1>3, <1>4, NewListAndIndex

LEMMA RemoveInv ==
    ASSUME IInv, NEW p \in Plugins, RemoveGlobalPlugin(p)
    PROVE  IInv'
<1> DEFINE n == Len(plugins)
           k == pluginIndex[p]
           moved == plugins[n].plugin
<1>1. ASSUME NEW q \in Plugins, q # p, q # moved, pluginIndex[q] # 0
      PROVE  /\ pluginIndex[q] \in 1..(n - 1) /\ pluginIndex[q] # k
             /\ plugins[pluginIndex[q]].plugin = q
    BY RemoveEffect, <1>1, ListAndIndex
<1>2. p # moved => k \in 1..(n - 1)
    BY RemoveEffect
<1>3. pluginIndex' \in [Plugins -> 0..(n - 1)]
    BY RemoveEffect, <1>1, <1>2
<1>4. ASSUME NEW i \in 1..(n - 1)
      PROVE  pluginIndex'[plugins'[i].plugin] = i
    <2>1. CASE i = k
        <3>1. moved # p
            BY RemoveEffect, <2>1
        <3>2. QED
            BY RemoveEffect, <2>1, <3>1, SMTT(30)
    <2>2. CASE i # k
        <3>1. /\ i \in 1..n /\ i # n /\ plugins[i].plugin \in Plugins
              /\ pluginIndex[plugins[i].plugin] = i
            BY RemoveEffect, ListAndIndex
        <3>2. plugins[i].plugin # p /\ plugins[i].plugin # moved
            BY RemoveEffect, <2>2, <3>1
        <3>3. QED
            BY RemoveEffect, <2>2, <3>1, <3>2
    <2>3. QED
        BY <2>1, <2>2
<1>5. ASSUME NEW q \in Plugins, pluginIndex'[q] # 0
      PROVE  plugins'[pluginIndex'[q]].plugin = q
    <2>1. CASE q = moved
        BY RemoveEffect, <1>2, <1>5, <2>1, SMTT(30)
    <2>2. CASE q # moved
        <3>1. q # p /\ pluginIndex'[q] = pluginIndex[q]
            BY RemoveEffect, <1>5, <2>2
        <3>2. QED
            BY RemoveEffect, <1>1, <1>5, <2>2, <3>1
    <2>3. QED
        BY <2>1, <2>2
<1>6. n - 1 <= MAX_GLOBAL_PLUGINS
    BY RemoveEffect, DiamondAssumption DEF IInv
<1>7. QED
    BY RemoveEffect, <1>3, <1>4, <1>5, <1>6, NewListAndIndex

LEMMA SetStatusInv ==
    ASSUME IInv, NEW p \in Plugins, NEW active \in BOOLEAN, SetGlobalPluginStatus(p, active)
    PROVE  IInv'
<1> DEFINE n == Len(plugins)
<1>1. Info(p, active).plugin = p
    BY DEF Info
<1>2. \A i \in 1..n : plugins'[i].plugin = plugins[i].plugin
    BY <1>1, SetStatusEffect, ListAndIndex
<1>3. Len(plugins') <= MAX_GLOBAL_PLUGINS /\ pluginIndex' \in [Plugins -> 0..Len(plugins')]
    BY SetStatusEffect DEF IInv
<1>4. \A i \in 1..n : pluginIndex'[plugins'[i].plugin] = i
    BY <1>2, SetStatusEffect, ListAndIndex
<1>5. ASSUME NEW q \in Plugins, pluginIndex'[q] # 0
      PROVE  plugins'[pluginIndex'[q]].plugin = q
    <2>1. pluginIndex[q] \in 1..n
        BY <1>5, SetStatusEffect, ListAndIndex
    <2>2. QED
        BY <1>2, <1>5, <2>1, SetStatusEffect, ListAndIndex
<1>6. QED
    BY <1>3, <1>4, <1>5, SetStatusEffect, NewListAndIndex

\* A cut leaves the plugins alone.
LEMMA UnchangedInv ==
    ASSUME IInv, UNCHANGED <<plugins, pluginIndex>>
    PROVE  IInv'
BY DEF IInv, PluginIndexAgrees, Registered

LEMMA NextInv == IInv /\ [Next]_vars => IInv'
<1> SUFFICES ASSUME IInv, [Next]_vars
             PROVE  IInv'
    OBVIOUS
<1>1. ASSUME NEW f \in Facets, NEW selectors \in Cuts,
             DiamondCutAdd(f, selectors) \/ DiamondCutReplace(f, selectors)
      PROVE  IInv'
    BY <1>1, UnchangedInv, Zenon DEF DiamondCutAdd, DiamondCutReplace, Cut
<1>2. ASSUME NEW selectors \in Cuts, DiamondCutRemove(selectors)
      PROVE  IInv'
    BY <1>2, UnchangedInv, Zenon DEF DiamondCutRemove, Cut
<1>3. ASSUME NEW p \in Plugins, RegisterGlobalPlugin(p)
      PROVE  IInv'
    BY <1>3, RegisterInv
<1>4. ASSUME NEW p \in Plugins, RemoveGlobalPlugin(p)
      PROVE  IInv'
    BY <1>4, RemoveInv
<1>5. ASSUME NEW p \in Plugins, NEW active \in BOOLEAN, SetGlobalPluginStatus(p, active)
      PROVE  IInv'
    BY <1>5, SetStatusInv
<1>6. CASE UNCHANGED vars
    BY <1>6, UnchangedInv DEF vars
<1>7. QED
    BY <1>1, <1>2, <1>3, <1>4, <1>5, <1>6, Zenon DEF Next

\* After any sequence of registrations, removals and switches pluginIndex finds
\* every plugin of the list and only those, however long the list may get.
THEOREM IndexAlwaysAgrees == Spec => []PluginIndexAgrees
<1>1. IInv => PluginIndexAgrees
    BY DEF IInv
<1>2. QED
    BY <1>1, InitInv, NextInv, PTL DEF Spec

-----------------------------------------------------------------------------
\* One step keeps the entry of p, or is the switch of p itself.
StatusStep(p) ==
    /\ Registered(p) /\ Registered(p)'
    /\ plugins'[pluginIndex'[p]] # plugins[pluginIndex[p]]
    => \E active \in BOOLEAN :
          plugins'[pluginIndex'[p]] = Info(p, active) /\ pluginIndex' = pluginIndex

LEMMA StatusSteps ==
    ASSUME IInv, [Next]_vars, NEW p \in Plugins
    PROVE  StatusStep(p)
<1> SUFFICES ASSUME Registered(p), Registered(p)',
                    plugins'[pluginIndex'[p]] # plugins[pluginIndex[p]]
             PROVE  \E active \in BOOLEAN :
                       plugins'[pluginIndex'[p]] = Info(p, active) /\ pluginIndex' = pluginIndex
    BY Zenon DEF StatusStep
<1>1. pluginIndex[p] \in 1..Len(plugins) /\ pluginIndex'[p] # 0
    BY ListAndIndex DEF Registered
<1>2. ASSUME UNCHANGED <<plugins, pluginIndex>>
      PROVE  FALSE
    BY <1>2
<1>3. ASSUME NEW r \in Plugins, RegisterGlobalPlugin(r)
      PROVE  FALSE
    BY <1>1, <1>3, RegisterEffect
<1>4. ASSUME NEW r \in Plugins, RemoveGlobalPlugin(r)
      PROVE  FALSE
    <2>1. p # r
        BY <1>1, <1>4, RemoveEffect
    <2>2. CASE p = plugins[Len(plugins)].plugin
        BY <1>1, <1>4, <2>1, <2>2, RemoveEffect
    <2>3. CASE p # plugins[Len(plugins)].plugin
        <3>1. pluginIndex'[p] = pluginIndex[p]
            BY <1>4, <2>1, <2>3, RemoveEffect
        <3>2. pluginIndex[p] # Len(plugins) /\ pluginIndex[p] # pluginIndex[r]
            BY <1>1, <1>4, <2>1, <2>3, RemoveEffect, ListAndIndex
        <3>3. QED
            BY <1>1, <1>4, <3>1, <3>2, RemoveEffect
    <2>4. QED
        BY <2>2, <2>3
<1>5. ASSUME NEW r \in Plugins, NEW active \in BOOLEAN, SetGlobalPluginStatus(r, active)
      PROVE  \E a \in BOOLEAN :
                plugins'[pluginIndex'[p]] = Info(p, a) /\ pluginIndex' = pluginIndex
    <2>1. CASE p = r
        BY <1>5, <2>1, SetStatusEffect
    <2>2. CASE p # r
        <3>1. pluginIndex[p] # pluginIndex[r]
            BY <1>1, <1>5, <2>2, SetStatusEffect, ListAndIndex
        <3>2. QED
            BY <1>1, <1>5, <3>1, SetStatusEffect
    <2>3. QED
        BY <2>1, <2>2
<1>6. ASSUME NEW f \in Facets, NEW selectors \in Cuts,
             DiamondCutAdd(f, selectors) \/ DiamondCutReplace(f, selectors)
      PROVE  FALSE
    BY <1>2, <1>6, Zenon DEF DiamondCutAdd, DiamondCutReplace, Cut
<1>7. ASSUME NEW selectors \in Cuts, DiamondCutRemove(selectors)
      PROVE  FALSE
    BY <1>2, <1>7, Zenon DEF DiamondCutRemove, Cut
<1>8. CASE UNCHANGED vars
    BY <1>2, <1>8 DEF vars
<1>9. QED
    BY <1>3, <1>4, <1>5, <1>6, <1>7, <1>8, Zenon DEF Next

\* A plugin keeps its entry, switched on or off, while others come, go and are
\* switched: for any plugins and any limit.
THEOREM StatusAlwaysKept == Spec => StatusIsKept
<1>1. IInv /\ [Next]_vars => \A p \in Plugins : StatusStep(p)
    BY StatusSteps, Zenon
<1>2. QED
    BY <1>1, InitInv, NextInv, PTL DEF Spec, StatusIsKept, StatusStep

-----------------------------------------------------------------------------
(* The table between two selectors of a cut.  open are the facets that are   *)
(* on the list although they may have no selector yet.                       *)

ListsAgree(t) ==
    \A f \in Facets : \A i \in 1..Len(t.selectorsOf[f]) :
        /\ t.facetOf[t.selectorsOf[f][i]] = f
        /\ t.positionOf[t.selectorsOf[f][i]] = i - 1

\* Every selector is where its recorded facet and position say.
AllFound(t) ==
    \A s \in Selectors : t.facetOf[s] # NoFacet =>
        /\ t.positionOf[s] + 1 \in 1..Len(t.selectorsOf[t.facetOf[s]])
        /\ t.selectorsOf[t.facetOf[s]][t.positionOf[s] + 1] = s

AddressesAgree(t) ==
    \A i \in 1..Len(t.facetAddresses) : t.facetPosition[t.facetAddresses[i]] = i - 1

\* The facets with selectors, and the open ones, are on the list.
AllListed(t, open) ==
    \A f \in Facets : Len(t.selectorsOf[f]) # 0 \/ f \in open =>
        /\ t.facetPosition[f] + 1 \in 1..Len(t.facetAddresses)
        /\ t.facetAddresses[t.facetPosition[f] + 1] = f

\* No others are.
NoneIdle(t, open) ==
    \A i \in 1..Len(t.facetAddresses) :
        Len(t.selectorsOf[t.facetAddresses[i]]) # 0 \/ t.facetAddresses[i] \in open

TableInv(t, open) ==
    /\ t \in Table
    /\ ListsAgree(t) /\ AllFound(t) /\ AddressesAgree(t)
    /\ AllListed(t, open) /\ NoneIdle(t, open)

LEMMA TableFields ==
    ASSUME NEW t \in Table
    PROVE  /\ t.facetOf \in [Selectors -> Facets \cup {NoFacet}]
           /\ t.positionOf \in [Selectors -> Nat]
           /\ t.selectorsOf \in [Facets -> Seq(Selectors)]
           /\ t.facetPosition \in [Facets -> Nat]
           /\ t.facetAddresses \in Seq(Facets)
           /\ Len(t.facetAddresses) \in Nat
           /\ \A i \in 1..Len(t.facetAddresses) : t.facetAddresses[i] \in Facets
           /\ \A f \in Facets :
                 /\ t.selectorsOf[f] \in Seq(Selectors)
                 /\ Len(t.selectorsOf[f]) \in Nat
                 /\ \A i \in 1..Len(t.selectorsOf[f]) : t.selectorsOf[f][i] \in Selectors
    BY DEF Table

\* An open facet that has a selector need not be called open.
LEMMA Closed ==
    ASSUME NEW t, NEW open, NEW f \in Facets, TableInv(t, open \cup {f}),
           Len(t.selectorsOf[f]) # 0
    PROVE  TableInv(t, open)
<1>1. NoneIdle(t, open)
    BY DEF TableInv, NoneIdle
<1> QED
    BY <1>1 DEF TableInv, AllListed

LEMMA Opened ==
    ASSUME NEW t, NEW f \in Facets, TableInv(t, {}), Len(t.selectorsOf[f]) # 0
    PROVE  TableInv(t, {f})
<1>1. AllListed(t, {f})
    BY DEF TableInv, AllListed
<1>2. NoneIdle(t, {f})
    BY DEF TableInv, NoneIdle
<1> QED
    BY <1>1, <1>2 DEF TableInv

-----------------------------------------------------------------------------
(* What each helper of LibDiamond leaves *)

LEMMA AddFacetFields ==
    ASSUME NEW t \in Table, NEW f \in Facets
    PROVE  LET u == AddFacet(t, f) IN
           /\ u \in Table
           /\ u.facetOf = t.facetOf /\ u.positionOf = t.positionOf
           /\ u.selectorsOf = t.selectorsOf
           /\ \A g \in Facets : u.facetPosition[g] =
                  IF g = f THEN Len(t.facetAddresses) ELSE t.facetPosition[g]
           /\ u.facetAddresses = Append(t.facetAddresses, f)
<1> DEFINE u == AddFacet(t, f)
<1>1. u = [facetOf |-> t.facetOf, positionOf |-> t.positionOf, selectorsOf |-> t.selectorsOf,
           facetPosition |-> [t.facetPosition EXCEPT ![f] = Len(t.facetAddresses)],
           facetAddresses |-> Append(t.facetAddresses, f)]
    <2> DEFINE n == Len(t.facetAddresses)
               list == Append(t.facetAddresses, f)
    <2>1. u = [t EXCEPT !.facetPosition[f] = n, !.facetAddresses = list]
        BY DEF AddFacet
    <2> HIDE DEF n, list, u
    <2>2. u = [facetOf |-> t.facetOf, positionOf |-> t.positionOf, selectorsOf |-> t.selectorsOf,
               facetPosition |-> [t.facetPosition EXCEPT ![f] = n], facetAddresses |-> list]
        BY <2>1 DEF Table
    <2> QED
        BY <2>2 DEF n, list
<1>2. [t.facetPosition EXCEPT ![f] = Len(t.facetAddresses)] \in [Facets -> Nat]
    BY TableFields
<1>3. Append(t.facetAddresses, f) \in Seq(Facets)
    BY TableFields
<1> HIDE DEF u
<1>4. u \in Table
    BY <1>1, <1>2, <1>3, TableFields DEF Table
<1> QED
    BY <1>1, <1>4, TableFields DEF u

LEMMA AddFunctionFields ==
    ASSUME NEW t \in Table, NEW s \in Selectors, NEW k \in Nat, NEW f \in Facets
    PROVE  LET u == AddFunction(t, s, k, f) IN
           /\ u \in Table
           /\ \A r \in Selectors :
                 /\ u.facetOf[r] = IF r = s THEN f ELSE t.facetOf[r]
                 /\ u.positionOf[r] = IF r = s THEN k ELSE t.positionOf[r]
           /\ \A g \in Facets : u.selectorsOf[g] =
                  IF g = f THEN Append(t.selectorsOf[f], s) ELSE t.selectorsOf[g]
           /\ u.facetPosition = t.facetPosition
           /\ u.facetAddresses = t.facetAddresses
<1> DEFINE u == AddFunction(t, s, k, f)
<1>1. u = [facetOf |-> [t.facetOf EXCEPT ![s] = f],
           positionOf |-> [t.positionOf EXCEPT ![s] = k],
           selectorsOf |-> [t.selectorsOf EXCEPT ![f] = Append(t.selectorsOf[f], s)],
           facetPosition |-> t.facetPosition, facetAddresses |-> t.facetAddresses]
    <2> DEFINE list == Append(t.selectorsOf[f], s)
    <2>1. u = [t EXCEPT !.positionOf[s] = k, !.selectorsOf[f] = list, !.facetOf[s] = f]
        BY DEF AddFunction
    <2> HIDE DEF list, u
    <2>2. u = [facetOf |-> [t.facetOf EXCEPT ![s] = f],
               positionOf |-> [t.positionOf EXCEPT ![s] = k],
               selectorsOf |-> [t.selectorsOf EXCEPT ![f] = list],
               facetPosition |-> t.facetPosition, facetAddresses |-> t.facetAddresses]
        BY <2>1 DEF Table
    <2> QED
        BY <2>2 DEF list
<1>2. /\ [t.facetOf EXCEPT ![s] = f] \in [Selectors -> Facets \cup {NoFacet}]
      /\ [t.positionOf EXCEPT ![s] = k] \in [Selectors -> Nat]
    BY TableFields
<1>3. [t.selectorsOf EXCEPT ![f] = Append(t.selectorsOf[f], s)] \in [Facets -> Seq(Selectors)]
    <2>1. Append(t.selectorsOf[f], s) \in Seq(Selectors)
        BY TableFields
    <2> QED
        BY <2>1, TableFields
<1> HIDE DEF u
<1>4. u \in Table
    BY <1>1, <1>2, <1>3, TableFields DEF Table
<1> QED
    BY <1>1, <1>4, TableFields, SMTT(30) DEF u

\* The selector taken out, its facet still on the list.
Unrouted(t, f, s) ==
    [t EXCEPT
        !.facetOf[s] = NoFacet,
        !.positionOf = [[@ EXCEPT ![Last(t.selectorsOf[f])] = t.positionOf[s]] EXCEPT ![s] = 0],
        !.selectorsOf[f] = SwapAndPop(t.selectorsOf[f], t.positionOf[s] + 1)]

LEMMA RemoveFunctionIs ==
    ASSUME NEW t, NEW f, NEW s
    PROVE  RemoveFunction(t, f, s) =
               IF Len(t.selectorsOf[f]) = 1 THEN FacetDropped(Unrouted(t, f, s), f)
               ELSE Unrouted(t, f, s)
    BY DEF RemoveFunction, Unrouted

LEMMA UnroutedFields ==
    ASSUME NEW t \in Table, NEW f \in Facets, NEW s \in Selectors,
           t.positionOf[s] + 1 \in 1..Len(t.selectorsOf[f])
    PROVE  LET u == Unrouted(t, f, s)
               last == t.selectorsOf[f][Len(t.selectorsOf[f])]
           IN
           /\ u \in Table
           /\ \A r \in Selectors :
                 /\ u.facetOf[r] = IF r = s THEN NoFacet ELSE t.facetOf[r]
                 /\ u.positionOf[r] = IF r = s THEN 0
                                     ELSE IF r = last THEN t.positionOf[s] ELSE t.positionOf[r]
           /\ \A g \in Facets : u.selectorsOf[g] =
                  IF g = f THEN SwapAndPop(t.selectorsOf[f], t.positionOf[s] + 1)
                  ELSE t.selectorsOf[g]
           /\ u.facetPosition = t.facetPosition
           /\ u.facetAddresses = t.facetAddresses
<1> DEFINE u == Unrouted(t, f, s)
           last == t.selectorsOf[f][Len(t.selectorsOf[f])]
           list == SwapAndPop(t.selectorsOf[f], t.positionOf[s] + 1)
<1>1. Last(t.selectorsOf[f]) = last
    BY DEF Last
<1>2. u = [facetOf |-> [t.facetOf EXCEPT ![s] = NoFacet],
           positionOf |-> [[t.positionOf EXCEPT ![last] = t.positionOf[s]] EXCEPT ![s] = 0],
           selectorsOf |-> [t.selectorsOf EXCEPT ![f] = list],
           facetPosition |-> t.facetPosition, facetAddresses |-> t.facetAddresses]
    <2> HIDE DEF list, last
    <2>1. u = [t EXCEPT !.facetOf[s] = NoFacet,
                   !.positionOf = [[t.positionOf EXCEPT ![last] = t.positionOf[s]] EXCEPT ![s] = 0],
                   !.selectorsOf[f] = list]
        BY <1>1 DEF Unrouted, list
    <2> QED
        BY <2>1 DEF Table
<1>3. /\ [t.facetOf EXCEPT ![s] = NoFacet] \in [Selectors -> Facets \cup {NoFacet}]
      /\ [[t.positionOf EXCEPT ![last] = t.positionOf[s]] EXCEPT ![s] = 0] \in [Selectors -> Nat]
    <2>1. t.positionOf[s] \in Nat
        BY TableFields
    <2> HIDE DEF last
    <2> QED
        BY <2>1, TableFields
<1>4. [t.selectorsOf EXCEPT ![f] = list] \in [Facets -> Seq(Selectors)]
    <2>1. list \in Seq(Selectors)
        BY TableFields, SwapAndPopFacts
    <2> HIDE DEF list
    <2> QED
        BY <2>1, TableFields
<1> HIDE DEF u, list, last
<1>5. u \in Table
    BY <1>2, <1>3, <1>4, TableFields DEF Table
<1> QED
    <2>1. last \in Selectors
        BY TableFields DEF last
    <2> QED
        BY <1>2, <1>5, <2>1, TableFields, SMTT(30) DEF u, list, last

LEMMA FacetDroppedFields ==
    ASSUME NEW t \in Table, NEW f \in Facets,
           t.facetPosition[f] + 1 \in 1..Len(t.facetAddresses)
    PROVE  LET u == FacetDropped(t, f)
               moved == t.facetAddresses[Len(t.facetAddresses)]
           IN
           /\ u \in Table
           /\ u.facetOf = t.facetOf /\ u.positionOf = t.positionOf
           /\ u.selectorsOf = t.selectorsOf
           /\ \A g \in Facets : u.facetPosition[g] =
                  IF g = f THEN 0 ELSE IF g = moved THEN t.facetPosition[f] ELSE t.facetPosition[g]
           /\ u.facetAddresses = SwapAndPop(t.facetAddresses, t.facetPosition[f] + 1)
<1> DEFINE u == FacetDropped(t, f)
           moved == t.facetAddresses[Len(t.facetAddresses)]
           list == SwapAndPop(t.facetAddresses, t.facetPosition[f] + 1)
<1>1. Last(t.facetAddresses) = moved
    BY DEF Last
<1>2. u = [facetOf |-> t.facetOf, positionOf |-> t.positionOf, selectorsOf |-> t.selectorsOf,
           facetPosition |-> [[t.facetPosition EXCEPT ![moved] = t.facetPosition[f]] EXCEPT ![f] = 0],
           facetAddresses |-> list]
    <2> HIDE DEF moved
    <2>1. u = [t EXCEPT !.facetPosition = [[t.facetPosition EXCEPT ![moved] = t.facetPosition[f]] EXCEPT ![f] = 0],
                        !.facetAddresses = list]
        BY <1>1 DEF FacetDropped
    <2> HIDE DEF list
    <2> QED
        BY <2>1 DEF Table
<1>3. [[t.facetPosition EXCEPT ![moved] = t.facetPosition[f]] EXCEPT ![f] = 0] \in [Facets -> Nat]
    <2>1. t.facetPosition[f] \in Nat
        BY TableFields
    <2> HIDE DEF moved
    <2> QED
        BY <2>1, TableFields
<1>4. list \in Seq(Facets)
    BY TableFields, SwapAndPopFacts
<1> HIDE DEF u, list, moved
<1>5. u \in Table
    BY <1>2, <1>3, <1>4, TableFields DEF Table
<1> QED
    <2>1. moved \in Facets
        BY TableFields DEF moved
    <2>2. \A g \in Facets : u.facetPosition[g] =
              IF g = f THEN 0 ELSE IF g = moved THEN t.facetPosition[f] ELSE t.facetPosition[g]
        BY <1>2, <2>1, TableFields
    <2> QED
        BY <1>2, <1>5, <2>2 DEF u, list, moved

-----------------------------------------------------------------------------
(* The helpers keep the table consistent *)

\* From t to u selector s is led to f, the others stay.
LedTo(t, u, s, f) ==
    \A r \in Selectors : u.facetOf[r] = IF r = s THEN f ELSE t.facetOf[r]

\* So that it is the one after n of that facet, in a table that is consistent.
Leads(t, u, s, f, n) ==
    /\ TableInv(u, {f})
    /\ LedTo(t, u, s, f)
    /\ Len(u.selectorsOf[f]) = n + 1

\* The lists of the other facets stay.
OthersKept(t, u, f) == \A g \in Facets : g # f => u.selectorsOf[g] = t.selectorsOf[g]

LEMMA AddFacetInv ==
    ASSUME NEW t, NEW f \in Facets, TableInv(t, {}), Len(t.selectorsOf[f]) = 0
    PROVE  TableInv(AddFacet(t, f), {f})
<1> DEFINE u == AddFacet(t, f)
           n == Len(t.facetAddresses)
<1>1. t \in Table
    BY DEF TableInv
<1>2. /\ u \in Table
      /\ u.facetOf = t.facetOf /\ u.positionOf = t.positionOf
      /\ u.selectorsOf = t.selectorsOf
      /\ \A g \in Facets : u.facetPosition[g] = IF g = f THEN n ELSE t.facetPosition[g]
      /\ u.facetAddresses = Append(t.facetAddresses, f)
    BY <1>1, AddFacetFields
<1> HIDE DEF u
<1>3. /\ n \in Nat /\ Len(u.facetAddresses) = n + 1
      /\ \A i \in 1..n : u.facetAddresses[i] = t.facetAddresses[i] /\ t.facetAddresses[i] \in Facets
      /\ u.facetAddresses[n + 1] = f
    BY <1>1, <1>2, TableFields
<1>5. \A i \in 1..n : t.facetAddresses[i] # f
    BY DEF TableInv, NoneIdle
<1>6. ListsAgree(u) /\ AllFound(u)
    BY <1>2 DEF TableInv, ListsAgree, AllFound
<1>7. AddressesAgree(u)
    <2>1. ASSUME NEW i \in 1..(n + 1) PROVE u.facetPosition[u.facetAddresses[i]] = i - 1
        <3>1. CASE i = n + 1
            BY <1>2, <1>3, <3>1
        <3>2. CASE i # n + 1
            <4>1. i \in 1..n
                BY <1>3, <3>2
            <4>2. t.facetPosition[t.facetAddresses[i]] = i - 1
                BY <4>1 DEF TableInv, AddressesAgree
            <4> QED
                BY <1>2, <1>3, <1>5, <4>1, <4>2
        <3> QED
            BY <3>1, <3>2
    <2> QED
        BY <1>3, <2>1 DEF AddressesAgree
<1>8. AllListed(u, {f})
    <2>1. ASSUME NEW g \in Facets, Len(u.selectorsOf[g]) # 0, g # f
          PROVE  u.facetPosition[g] + 1 \in 1..(n + 1) /\ u.facetAddresses[u.facetPosition[g] + 1] = g
        <3>1. t.facetPosition[g] + 1 \in 1..n /\ t.facetAddresses[t.facetPosition[g] + 1] = g
            BY <1>2, <2>1 DEF TableInv, AllListed
        <3> QED
            BY <1>2, <1>3, <2>1, <3>1
    <2>2. u.facetPosition[f] + 1 \in 1..(n + 1) /\ u.facetAddresses[u.facetPosition[f] + 1] = f
        BY <1>2, <1>3
    <2> QED
        BY <1>3, <2>1, <2>2 DEF AllListed
<1>9. NoneIdle(u, {f})
    <2>1. ASSUME NEW i \in 1..(n + 1)
          PROVE  Len(u.selectorsOf[u.facetAddresses[i]]) # 0 \/ u.facetAddresses[i] = f
        <3>1. CASE i = n + 1
            BY <1>3, <3>1
        <3>2. CASE i # n + 1
            <4>1. i \in 1..n
                BY <1>3, <3>2
            <4>2. Len(t.selectorsOf[t.facetAddresses[i]]) # 0
                BY <4>1 DEF TableInv, NoneIdle
            <4> QED
                BY <1>2, <1>3, <4>1, <4>2
        <3> QED
            BY <3>1, <3>2
    <2> QED
        BY <1>3, <2>1 DEF NoneIdle
<1> QED
    BY <1>2, <1>6, <1>7, <1>8, <1>9 DEF TableInv, u

LEMMA AddFunctionInv ==
    ASSUME NEW t, NEW f \in Facets, NEW s \in Selectors, TableInv(t, {f}),
           t.facetOf[s] = NoFacet, NEW n, n = Len(t.selectorsOf[f])
    PROVE  Leads(t, AddFunction(t, s, n, f), s, f, n)
<1> DEFINE u == AddFunction(t, s, n, f)
<1>1. t \in Table /\ n \in Nat
    BY TableFields DEF TableInv
<1>2. /\ u \in Table
      /\ \A r \in Selectors :
            /\ u.facetOf[r] = IF r = s THEN f ELSE t.facetOf[r]
            /\ u.positionOf[r] = IF r = s THEN n ELSE t.positionOf[r]
      /\ \A g \in Facets : u.selectorsOf[g] =
             IF g = f THEN Append(t.selectorsOf[f], s) ELSE t.selectorsOf[g]
      /\ u.facetPosition = t.facetPosition
      /\ u.facetAddresses = t.facetAddresses
    BY <1>1, AddFunctionFields, SMTT(30)
<1> HIDE DEF u
<1>3. /\ u.selectorsOf[f] = Append(t.selectorsOf[f], s)
      /\ \A g \in Facets : g # f => u.selectorsOf[g] = t.selectorsOf[g]
      /\ \A r \in Selectors : r # s => u.facetOf[r] = t.facetOf[r] /\ u.positionOf[r] = t.positionOf[r]
      /\ u.facetOf[s] = f /\ u.positionOf[s] = n
    BY <1>1, <1>2, TableFields
<1>4. /\ Len(u.selectorsOf[f]) = n + 1
      /\ \A i \in 1..n : u.selectorsOf[f][i] = t.selectorsOf[f][i]
      /\ u.selectorsOf[f][n + 1] = s
    BY <1>1, <1>3, TableFields
<1>5. \A g \in Facets : \A i \in 1..Len(t.selectorsOf[g]) :
          /\ t.selectorsOf[g][i] \in Selectors /\ t.selectorsOf[g][i] # s
          /\ t.facetOf[t.selectorsOf[g][i]] = g /\ t.positionOf[t.selectorsOf[g][i]] = i - 1
    <2>1. ASSUME NEW g \in Facets, NEW i \in 1..Len(t.selectorsOf[g])
          PROVE  t.facetOf[t.selectorsOf[g][i]] = g /\ t.positionOf[t.selectorsOf[g][i]] = i - 1
        BY DEF TableInv, ListsAgree
    <2> QED
        BY <1>1, <2>1, TableFields, DiamondAssumption
<1>6. ListsAgree(u)
    <2>1. ASSUME NEW g \in Facets, g # f, NEW i \in 1..Len(u.selectorsOf[g])
          PROVE  u.facetOf[u.selectorsOf[g][i]] = g /\ u.positionOf[u.selectorsOf[g][i]] = i - 1
        <3> DEFINE r == t.selectorsOf[g][i]
        <3>1. /\ u.selectorsOf[g][i] = r /\ r \in Selectors /\ r # s
              /\ t.facetOf[r] = g /\ t.positionOf[r] = i - 1
            BY <1>3, <1>5, <2>1
        <3> QED
            BY <1>3, <3>1
    <2>2. ASSUME NEW i \in 1..(n + 1)
          PROVE  u.facetOf[u.selectorsOf[f][i]] = f /\ u.positionOf[u.selectorsOf[f][i]] = i - 1
        <3>1. CASE i = n + 1
            BY <1>1, <1>3, <1>4, <3>1
        <3>2. CASE i # n + 1
            <4>1. i \in 1..n
                BY <1>1, <3>2
            <4> DEFINE r == t.selectorsOf[f][i]
            <4>2. /\ r \in Selectors /\ r # s
                  /\ t.facetOf[r] = f /\ t.positionOf[r] = i - 1
                BY <1>5, <4>1
            <4>3. u.selectorsOf[f][i] = r
                BY <1>4, <4>1
            <4> HIDE DEF r
            <4> QED
                BY <1>3, <4>2, <4>3
        <3> QED
            BY <3>1, <3>2
    <2> QED
        BY <1>4, <2>1, <2>2 DEF ListsAgree
<1>7. AllFound(u)
    <2>1. ASSUME NEW r \in Selectors, u.facetOf[r] # NoFacet
          PROVE  /\ u.positionOf[r] + 1 \in 1..Len(u.selectorsOf[u.facetOf[r]])
                 /\ u.selectorsOf[u.facetOf[r]][u.positionOf[r] + 1] = r
        <3>1. CASE r = s
            <4>1. u.positionOf[r] + 1 = n + 1 /\ n + 1 \in 1..(n + 1) /\ u.facetOf[r] = f
                BY <1>1, <1>3, <3>1
            <4> QED
                BY <1>4, <3>1, <4>1
        <3>2. CASE r # s
            <4>1. /\ t.positionOf[r] + 1 \in 1..Len(t.selectorsOf[t.facetOf[r]])
                  /\ t.selectorsOf[t.facetOf[r]][t.positionOf[r] + 1] = r
                BY <1>3, <2>1, <3>2 DEF TableInv, AllFound
            <4>2. t.facetOf[r] \in Facets /\ t.positionOf[r] \in Nat
                BY <1>1, <1>3, <2>1, <3>2, TableFields
            <4>3. CASE t.facetOf[r] = f
                <5> DEFINE j == t.positionOf[r] + 1
                <5>1. j \in 1..n /\ t.selectorsOf[f][j] = r
                    BY <4>1, <4>3
                <5>2. u.positionOf[r] + 1 = j /\ u.facetOf[r] = f
                    BY <1>3, <3>2, <4>3
                <5> HIDE DEF j
                <5>3. j \in 1..(n + 1) /\ u.selectorsOf[f][j] = r
                    BY <1>1, <1>4, <5>1
                <5> QED
                    BY <1>4, <5>2, <5>3
            <4>4. CASE t.facetOf[r] # f
                <5>1. u.facetOf[r] = t.facetOf[r] /\ u.positionOf[r] = t.positionOf[r]
                    BY <1>3, <3>2
                <5>2. u.selectorsOf[t.facetOf[r]] = t.selectorsOf[t.facetOf[r]]
                    BY <1>3, <4>2, <4>4
                <5> QED
                    BY <4>1, <5>1, <5>2
            <4> QED
                BY <4>3, <4>4
        <3> QED
            BY <3>1, <3>2
    <2> QED
        BY <2>1 DEF AllFound
<1>8. AddressesAgree(u)
    BY <1>2 DEF TableInv, AddressesAgree
<1>9. AllListed(u, {f})
    <2>1. ASSUME NEW g \in Facets, Len(u.selectorsOf[g]) # 0 \/ g = f
          PROVE  Len(t.selectorsOf[g]) # 0 \/ g \in {f}
        BY <1>3, <2>1
    <2> QED
        BY <1>2, <2>1 DEF TableInv, AllListed
<1>10. NoneIdle(u, {f})
    <2>1. ASSUME NEW i \in 1..Len(t.facetAddresses), t.facetAddresses[i] # f
          PROVE  Len(u.selectorsOf[t.facetAddresses[i]]) # 0
        <3>1. Len(t.selectorsOf[t.facetAddresses[i]]) # 0 /\ t.facetAddresses[i] \in Facets
            BY <1>1, <2>1, TableFields DEF TableInv, NoneIdle
        <3> QED
            BY <1>3, <2>1, <3>1
    <2> QED
        BY <1>2, <2>1 DEF NoneIdle
<1>11. TableInv(u, {f})
    BY <1>2, <1>6, <1>7, <1>8, <1>9, <1>10 DEF TableInv
<1> QED
    BY <1>2, <1>4, <1>11 DEF Leads, LedTo, u

LEMMA UnroutedInv ==
    ASSUME NEW t, NEW open, NEW s \in Selectors, TableInv(t, open), t.facetOf[s] # NoFacet,
           NEW f, f = t.facetOf[s]
    PROVE  LET u == Unrouted(t, f, s)
           IN /\ f \in Facets
              /\ TableInv(u, open \cup {f})
              /\ LedTo(t, u, s, NoFacet)
              /\ Len(t.selectorsOf[f]) \in Nat \ {0}
              /\ Len(u.selectorsOf[f]) = Len(t.selectorsOf[f]) - 1
              /\ OthersKept(t, u, f)
<1> DEFINE list == t.selectorsOf[f]
           n == Len(list)
           k == t.positionOf[s] + 1
           last == list[n]
           u == Unrouted(t, f, s)
<1>1. t \in Table
    BY DEF TableInv
<1>2. f \in Facets /\ t.positionOf[s] \in Nat
    BY <1>1, TableFields
<1>3. /\ n \in Nat /\ k \in 1..n /\ list[k] = s /\ n \in 1..n
      /\ list \in Seq(Selectors) /\ last \in Selectors
    <2>1. k \in 1..n /\ list[k] = s
        BY DEF TableInv, AllFound
    <2>2. n \in Nat /\ list \in Seq(Selectors) /\ \A i \in 1..n : list[i] \in Selectors
        BY <1>1, <1>2, TableFields
    <2> QED
        BY <2>1, <2>2, SMTT(30)
<1>4. \A g \in Facets : \A i \in 1..Len(t.selectorsOf[g]) :
          /\ t.selectorsOf[g][i] \in Selectors
          /\ t.facetOf[t.selectorsOf[g][i]] = g /\ t.positionOf[t.selectorsOf[g][i]] = i - 1
    <2>1. ASSUME NEW g \in Facets, NEW i \in 1..Len(t.selectorsOf[g])
          PROVE  t.facetOf[t.selectorsOf[g][i]] = g /\ t.positionOf[t.selectorsOf[g][i]] = i - 1
        BY DEF TableInv, ListsAgree
    <2> QED
        BY <1>1, <2>1, TableFields
<1>5. /\ u \in Table
      /\ \A r \in Selectors :
            /\ u.facetOf[r] = IF r = s THEN NoFacet ELSE t.facetOf[r]
            /\ u.positionOf[r] = IF r = s THEN 0 ELSE IF r = last THEN t.positionOf[s] ELSE t.positionOf[r]
      /\ \A g \in Facets : u.selectorsOf[g] =
             IF g = f THEN SwapAndPop(list, k) ELSE t.selectorsOf[g]
      /\ u.facetPosition = t.facetPosition
      /\ u.facetAddresses = t.facetAddresses
    <2>1. f \in Facets /\ t.positionOf[s] + 1 \in 1..Len(t.selectorsOf[f])
        BY <1>2, <1>3
    <2> QED
        BY <1>1, <2>1, UnroutedFields
<1> HIDE DEF u
<1>6. /\ Len(u.selectorsOf[f]) = n - 1
      /\ \A i \in 1..(n - 1) : u.selectorsOf[f][i] = IF i = k THEN last ELSE list[i]
    <2>1. u.selectorsOf[f] = SwapAndPop(list, k)
        BY <1>1, <1>2, <1>5, TableFields
    <2>2. list \in Seq(Selectors) /\ k \in 1..Len(list) /\ n = Len(list) /\ last = list[Len(list)]
        BY <1>3
    <2> HIDE DEF list, n, k, last
    <2> QED
        <3>1. /\ Len(SwapAndPop(list, k)) = Len(list) - 1
              /\ \A j \in 1..(Len(list) - 1) :
                    SwapAndPop(list, k)[j] = IF j = k THEN list[Len(list)] ELSE list[j]
            BY <2>2, SwapAndPopFacts
        <3> QED
            BY <2>1, <2>2, <3>1
<1> HIDE DEF list, n, k, last
<1>7. /\ \A g \in Facets : g # f => u.selectorsOf[g] = t.selectorsOf[g]
      /\ \A r \in Selectors : r # s => u.facetOf[r] = t.facetOf[r]
      /\ u.facetOf[s] = NoFacet
      /\ \A r \in Selectors : r # s => u.positionOf[r] = IF r = last THEN k - 1 ELSE t.positionOf[r]
    <2>1. k - 1 = t.positionOf[s]
        BY <1>2 DEF k
    <2> QED
        BY <1>1, <1>2, <1>3, <1>5, <2>1, TableFields
<1>8. /\ t.facetOf[last] = f /\ t.positionOf[last] = n - 1
      /\ t.facetOf[s] = f /\ t.positionOf[s] = k - 1
      /\ last = s => k = n
    <2>1. t.facetOf[last] = f /\ t.positionOf[last] = n - 1
        BY <1>2, <1>3, <1>4 DEF last, n, list
    <2>2. t.facetOf[s] = f /\ t.positionOf[s] = k - 1
        BY <1>2 DEF k
    <2> QED
        BY <1>2, <1>3, <2>1, <2>2
<1>9. ListsAgree(u)
    <2>1. ASSUME NEW g \in Facets, g # f, NEW i \in 1..Len(u.selectorsOf[g])
          PROVE  u.facetOf[u.selectorsOf[g][i]] = g /\ u.positionOf[u.selectorsOf[g][i]] = i - 1
        <3> DEFINE r == t.selectorsOf[g][i]
        <3>1. u.selectorsOf[g][i] = r /\ r \in Selectors /\ t.facetOf[r] = g /\ t.positionOf[r] = i - 1
            BY <1>4, <1>7, <2>1
        <3>2. r # s /\ r # last
            BY <1>8, <2>1, <3>1
        <3> QED
            BY <1>7, <3>1, <3>2
    <2>2. ASSUME NEW i \in 1..(n - 1)
          PROVE  u.facetOf[u.selectorsOf[f][i]] = f /\ u.positionOf[u.selectorsOf[f][i]] = i - 1
        <3>1. CASE i = k
            <4>1. last # s
                BY <1>3, <1>8, <2>2, <3>1
            <4> QED
                BY <1>3, <1>6, <1>7, <1>8, <3>1, <4>1
        <3>2. CASE i # k
            <4> DEFINE r == list[i]
            <4>1. u.selectorsOf[f][i] = r
                BY <1>6, <3>2
            <4>2. i \in 1..n
                BY <1>3
            <4>3. r \in Selectors /\ t.facetOf[r] = f /\ t.positionOf[r] = i - 1
                BY <1>2, <1>4, <4>2 DEF list, n
            <4>4. r # s /\ r # last
                BY <1>3, <1>8, <3>2, <4>2, <4>3
            <4> QED
                BY <1>7, <4>1, <4>3, <4>4
        <3> QED
            BY <3>1, <3>2
    <2> QED
        BY <1>6, <2>1, <2>2 DEF ListsAgree
<1>10. AllFound(u)
    <2>1. ASSUME NEW r \in Selectors, u.facetOf[r] # NoFacet
          PROVE  /\ u.positionOf[r] + 1 \in 1..Len(u.selectorsOf[u.facetOf[r]])
                 /\ u.selectorsOf[u.facetOf[r]][u.positionOf[r] + 1] = r
        <3> DEFINE g == t.facetOf[r]
                   j == t.positionOf[r] + 1
        <3>1. r # s
            BY <1>7, <2>1
        <3>2. u.facetOf[r] = g /\ g \in Facets /\ t.positionOf[r] \in Nat
            BY <1>1, <1>7, <2>1, <3>1, TableFields
        <3>3. j \in 1..Len(t.selectorsOf[g]) /\ t.selectorsOf[g][j] = r
            BY <2>1, <3>2 DEF TableInv, AllFound
        <3>4. CASE g # f
            <4>1. r # last
                BY <1>8, <3>4
            <4>2. u.positionOf[r] = t.positionOf[r]
                BY <1>7, <3>1, <4>1
            <4>3. u.selectorsOf[g] = t.selectorsOf[g]
                BY <1>7, <3>2, <3>4
            <4> HIDE DEF g
            <4> QED
                BY <3>2, <3>3, <4>2, <4>3
        <3>5. CASE g = f /\ r = last
            <4>1. u.positionOf[r] = k - 1
                BY <1>7, <3>1, <3>5
            <4>2. k # n
                BY <1>3, <3>1, <3>5 DEF last, n
            <4> QED
                BY <1>3, <1>6, <3>2, <3>5, <4>1, <4>2
        <3>6. CASE g = f /\ r # last
            <4>1. u.positionOf[r] + 1 = j
                BY <1>7, <3>1, <3>2, <3>6
            <4>2. j \in 1..n /\ list[j] = r
                BY <3>3, <3>6 DEF list, n
            <4>3. j # n /\ j # k
                BY <1>3, <3>1, <3>6, <4>2 DEF last
            <4> HIDE DEF j
            <4>4. j \in 1..(n - 1) /\ u.selectorsOf[f][j] = r
                BY <1>3, <1>6, <4>2, <4>3
            <4> QED
                BY <1>6, <3>2, <3>6, <4>1, <4>4
        <3> QED
            BY <3>4, <3>5, <3>6
    <2> QED
        BY <2>1 DEF AllFound
<1>11. AddressesAgree(u)
    BY <1>5 DEF TableInv, AddressesAgree
<1>12. AllListed(u, open \cup {f})
    <2>1. ASSUME NEW g \in Facets, Len(u.selectorsOf[g]) # 0 \/ g \in open \cup {f}
          PROVE  Len(t.selectorsOf[g]) # 0 \/ g \in open
        <3>1. Len(t.selectorsOf[f]) # 0
            BY <1>3 DEF n, list
        <3> QED
            BY <1>7, <2>1, <3>1
    <2> QED
        BY <1>5, <2>1 DEF TableInv, AllListed
<1>13. NoneIdle(u, open \cup {f})
    <2>1. ASSUME NEW i \in 1..Len(t.facetAddresses), t.facetAddresses[i] \notin open \cup {f}
          PROVE  Len(u.selectorsOf[t.facetAddresses[i]]) # 0
        <3>1. Len(t.selectorsOf[t.facetAddresses[i]]) # 0 /\ t.facetAddresses[i] \in Facets
            BY <1>1, <2>1, TableFields DEF TableInv, NoneIdle
        <3> QED
            BY <1>7, <2>1, <3>1
    <2> QED
        BY <1>5, <2>1 DEF NoneIdle
<1>14. TableInv(u, open \cup {f})
    BY <1>5, <1>9, <1>10, <1>11, <1>12, <1>13 DEF TableInv
<1>15. n \in Nat \ {0}
    BY <1>3
<1> QED
    BY <1>2, <1>5, <1>6, <1>7, <1>14, <1>15 DEF LedTo, OthersKept, u, n, list

LEMMA FacetDroppedInv ==
    ASSUME NEW t, NEW open, NEW f \in Facets, f \notin open, TableInv(t, open \cup {f}),
           Len(t.selectorsOf[f]) = 0
    PROVE  LET u == FacetDropped(t, f) IN
           /\ TableInv(u, open)
           /\ u.facetOf = t.facetOf /\ u.selectorsOf = t.selectorsOf
<1> DEFINE list == t.facetAddresses
           n == Len(list)
           k == t.facetPosition[f] + 1
           moved == list[n]
           u == FacetDropped(t, f)
<1>1. t \in Table
    BY DEF TableInv
<1>2. t.facetPosition[f] \in Nat /\ n \in Nat /\ \A i \in 1..n : list[i] \in Facets
    BY <1>1, TableFields
<1>3. k \in 1..n /\ list[k] = f
    BY DEF TableInv, AllListed
<1>4. n \in 1..n /\ moved \in Facets
    BY <1>2, <1>3
<1>5. /\ u \in Table
      /\ u.facetOf = t.facetOf /\ u.positionOf = t.positionOf
      /\ u.selectorsOf = t.selectorsOf
      /\ \A g \in Facets : u.facetPosition[g] =
             IF g = f THEN 0 ELSE IF g = moved THEN t.facetPosition[f] ELSE t.facetPosition[g]
      /\ u.facetAddresses = SwapAndPop(list, k)
    BY <1>1, <1>3, FacetDroppedFields
<1> HIDE DEF u
<1>6. /\ Len(u.facetAddresses) = n - 1
      /\ \A i \in 1..(n - 1) : u.facetAddresses[i] = IF i = k THEN moved ELSE list[i]
    <2>1. list \in Seq(Facets)
        BY <1>1, TableFields
    <2>2. k \in 1..Len(list) /\ n = Len(list) /\ moved = list[Len(list)]
        BY <1>3
    <2> HIDE DEF list, n, k, moved
    <2> QED
        <3>1. /\ Len(SwapAndPop(list, k)) = Len(list) - 1
              /\ \A j \in 1..(Len(list) - 1) :
                    SwapAndPop(list, k)[j] = IF j = k THEN list[Len(list)] ELSE list[j]
            BY <2>1, <2>2, SwapAndPopFacts
        <3> QED
            BY <1>5, <2>2, <3>1
<1>7. \A i \in 1..n : t.facetPosition[list[i]] = i - 1
    BY DEF TableInv, AddressesAgree
<1>8. \A g \in Facets : g # f =>
          u.facetPosition[g] = IF g = moved THEN k - 1 ELSE t.facetPosition[g]
    <2>1. k - 1 = t.facetPosition[f]
        BY <1>2
    <2> HIDE DEF moved
    <2> QED
        BY <1>1, <1>4, <1>5, <2>1, TableFields
<1> HIDE DEF list, n, k, moved
<1>9. t.facetPosition[moved] = n - 1 /\ t.facetPosition[f] = k - 1
    BY <1>3, <1>4, <1>7 DEF moved
<1>10. AddressesAgree(u)
    <2>1. ASSUME NEW i \in 1..(n - 1) PROVE u.facetPosition[u.facetAddresses[i]] = i - 1
        <3>1. i \in 1..n /\ i # n
            BY <1>2
        <3>2. CASE i = k
            <4>1. moved # f
                BY <1>3, <1>4, <1>9, <3>1, <3>2
            <4> QED
                BY <1>4, <1>6, <1>8, <3>2, <4>1
        <3>3. CASE i # k
            <4>1. list[i] # f /\ list[i] # moved /\ list[i] \in Facets
                BY <1>2, <1>3, <1>4, <1>7, <1>9, <3>1, <3>3
            <4> QED
                BY <1>6, <1>7, <1>8, <3>1, <3>3, <4>1
        <3> QED
            BY <3>2, <3>3
    <2> QED
        BY <1>6, <2>1 DEF AddressesAgree
<1>11. AllListed(u, open)
    <2>1. ASSUME NEW g \in Facets, Len(u.selectorsOf[g]) # 0 \/ g \in open
          PROVE  /\ u.facetPosition[g] + 1 \in 1..(n - 1)
                 /\ u.facetAddresses[u.facetPosition[g] + 1] = g
        <3> DEFINE j == t.facetPosition[g] + 1
        <3>1. g # f
            BY <1>5, <2>1
        <3>2. j \in 1..n /\ list[j] = g
            BY <1>5, <2>1 DEF TableInv, AllListed, n, list
        <3>3. t.facetPosition[g] \in Nat
            BY <1>1, TableFields
        <3>4. CASE g = moved
            <4>1. k # n
                BY <1>3, <3>1, <3>4 DEF moved
            <4> QED
                BY <1>2, <1>3, <1>6, <1>8, <3>1, <3>4, <4>1
        <3>5. CASE g # moved
            <4>1. j # n /\ j # k
                BY <1>3, <3>1, <3>2, <3>5 DEF moved
            <4>2. u.facetPosition[g] + 1 = j
                BY <1>8, <3>1, <3>5
            <4> QED
                BY <1>2, <1>6, <3>2, <4>1, <4>2
        <3> QED
            BY <3>4, <3>5
    <2> QED
        BY <1>6, <2>1 DEF AllListed
<1>12. NoneIdle(u, open)
    <2>1. ASSUME NEW i \in 1..n, list[i] # f
          PROVE  Len(t.selectorsOf[list[i]]) # 0 \/ list[i] \in open
        BY <2>1 DEF TableInv, NoneIdle, n, list
    <2>2. ASSUME NEW i \in 1..(n - 1)
          PROVE  \E j \in 1..n : u.facetAddresses[i] = list[j] /\ list[j] # f
        <3>1. i \in 1..n /\ i # n
            BY <1>2
        <3>2. CASE i = k
            <4>1. list[n] # f
                BY <1>3, <1>4, <1>9, <3>1, <3>2 DEF moved
            <4> QED
                BY <1>4, <1>6, <3>2, <4>1 DEF moved
        <3>3. CASE i # k
            <4>1. list[i] # f
                BY <1>3, <1>7, <3>1, <3>3
            <4> QED
                BY <1>6, <3>1, <3>3, <4>1
        <3> QED
            BY <3>2, <3>3
    <2> QED
        BY <1>5, <1>6, <2>1, <2>2 DEF NoneIdle
<1>13. ListsAgree(u) /\ AllFound(u)
    BY <1>5 DEF TableInv, ListsAgree, AllFound
<1>14. TableInv(u, open)
    BY <1>5, <1>10, <1>11, <1>12, <1>13 DEF TableInv
<1> QED
    BY <1>5, <1>14 DEF u

LEMMA RemoveFunctionInv ==
    ASSUME NEW t, NEW open, NEW s \in Selectors, TableInv(t, open),
           NEW f, f = t.facetOf[s], f # NoFacet, f \notin open
    PROVE  LET u == RemoveFunction(t, f, s) IN
           /\ TableInv(u, open)
           /\ LedTo(t, u, s, NoFacet)
           /\ OthersKept(t, u, f)
<1> DEFINE v == Unrouted(t, f, s)
           u == RemoveFunction(t, f, s)
<1>1. /\ f \in Facets
      /\ TableInv(v, open \cup {f})
      /\ LedTo(t, v, s, NoFacet)
      /\ Len(t.selectorsOf[f]) \in Nat \ {0}
      /\ Len(v.selectorsOf[f]) = Len(t.selectorsOf[f]) - 1
      /\ OthersKept(t, v, f)
    <2> HIDE DEF u
    <2>1. t.facetOf[s] # NoFacet
        OBVIOUS
    <2> QED
        BY <2>1, UnroutedInv
<1>2. u = IF Len(t.selectorsOf[f]) = 1 THEN FacetDropped(v, f) ELSE v
    BY RemoveFunctionIs
<1> HIDE DEF v, u
<1>3. CASE Len(t.selectorsOf[f]) = 1
    <2>1. f \notin open /\ Len(v.selectorsOf[f]) = 0
        BY <1>1, <1>3
    <2>2. /\ TableInv(FacetDropped(v, f), open)
          /\ FacetDropped(v, f).facetOf = v.facetOf
          /\ FacetDropped(v, f).selectorsOf = v.selectorsOf
        BY <1>1, <2>1, FacetDroppedInv
    <2> QED
        BY <1>1, <1>2, <1>3, <2>2 DEF LedTo, OthersKept, u
<1>4. CASE Len(t.selectorsOf[f]) # 1
    <2>1. Len(v.selectorsOf[f]) # 0
        BY <1>1, <1>4
    <2>2. TableInv(v, open)
        BY <1>1, <2>1, Closed
    <2> QED
        BY <1>1, <1>2, <1>4, <2>2 DEF LedTo, OthersKept, u
<1> QED
    BY <1>3, <1>4

-----------------------------------------------------------------------------
(* A cut as a run over its selectors.  k says what it does: how, to which    *)
(* facet, from which table and count, with which list of selectors.          *)

StepOf(k, c, s) ==
    IF k.how = "add" THEN AddSelector(c, s, k.facet)
    ELSE IF k.how = "replace" THEN ReplaceSelector(c, s, k.facet)
    ELSE RemoveSelector(c, s)

Unrolled(g, k, s) ==
    IF s = {} THEN k.from ELSE StepOf(k, g[s \ {Max(s)}], k.list[Max(s)])

IsRun(g, k, S) == g = [s \in SUBSET S |-> Unrolled(g, k, s)]

Run(k, S) == CHOOSE g : IsRun(g, k, S)

LEMMA MaxIn ==
    ASSUME NEW s, IsFiniteSet(s), s # {}, \A x \in s : x \in Int
    PROVE  Max(s) \in s
<1> DEFINE from(x) == {y \in s : y >= x}
           C == {from(x) : x \in s}
<1>1. C \in SUBSET (SUBSET s) /\ C # {}
    OBVIOUS
<1>2. PICK top \in C : \A t \in C : t \subseteq top => t = top
    <2> HIDE DEF C
    <2> QED
        BY <1>1, SmallestSet
<1>3. PICK x \in s : top = from(x)
    OBVIOUS
<1>4. ASSUME NEW y \in s PROVE x >= y
    <2> SUFFICES ASSUME ~(x >= y) PROVE FALSE
        OBVIOUS
    <2>1. x \in from(x) /\ x \notin from(y)
        OBVIOUS
    <2>2. \A z \in from(y) : z \in from(x)
        OBVIOUS
    <2>3. from(y) \in C
        OBVIOUS
    <2> HIDE DEF from
    <2> QED
        BY <1>2, <1>3, <2>1, <2>2, <2>3
<1> QED
    BY <1>4 DEF Max

\* The sets a fold can take its elements from by their maximum.
Ranked(S) ==
    /\ IsFiniteSet(S)
    /\ \A s \in SUBSET S : s # {} => Max(s) \in s

LEMMA IntervalRanked == ASSUME NEW n \in Nat PROVE Ranked(1..n)
<1>1. IsFiniteSet(1..n)
    BY FS_Interval
<1>2. ASSUME NEW s \in SUBSET (1..n), s # {}
      PROVE  Max(s) \in s
    <2>1. IsFiniteSet(s)
        BY <1>1, FS_Subset
    <2>2. \A x \in s : x \in Int
        OBVIOUS
    <2> QED
        BY <1>2, <2>1, <2>2, MaxIn
<1> QED
    BY <1>1, <1>2 DEF Ranked

LEMMA MaxOfPrefix ==
    ASSUME NEW i \in Nat \ {0}
    PROVE  Max(1..i) = i /\ (1..i) \ {i} = 1..(i - 1) /\ 1..i # {}
<1>1. i \in 1..i /\ \A y \in 1..i : i >= y
    OBVIOUS
<1>2. Max(1..i) \in 1..i /\ \A y \in 1..i : Max(1..i) >= y
    BY <1>1 DEF Max
<1>3. Max(1..i) = i
    BY <1>1, <1>2
<1> QED
    BY <1>1, <1>3

LEMMA RunUnique ==
    ASSUME NEW k, NEW S, Ranked(S), NEW T, NEW g, NEW h,
           IsRun(g, k, S), IsRun(h, k, T), NEW s \in SUBSET (S \cap T)
    PROVE  g[s] = h[s]
<1> DEFINE Bad == {u \in SUBSET (S \cap T) : g[u] # h[u]}
<1> SUFFICES ASSUME Bad # {} PROVE FALSE
    OBVIOUS
<1>1. PICK u \in Bad : \A v \in Bad : v \subseteq u => v = u
    <2>1. Bad \in SUBSET (SUBSET S) /\ Bad # {}
        OBVIOUS
    <2>2. IsFiniteSet(S)
        BY DEF Ranked
    <2> HIDE DEF Bad
    <2> QED
        BY <2>1, <2>2, SmallestSet
<1>2. g[u] = Unrolled(g, k, u) /\ h[u] = Unrolled(h, k, u)
    BY DEF IsRun
<1>3. CASE u = {}
    BY <1>2, <1>3 DEF Unrolled
<1>4. CASE u # {}
    <2> DEFINE v == u \ {Max(u)}
    <2>1. v \subseteq u /\ v # u /\ v \in SUBSET (S \cap T)
        BY <1>4 DEF Ranked
    <2>2. g[v] = h[v]
        BY <1>1, <2>1
    <2> QED
        BY <1>2, <1>4, <2>2 DEF Unrolled
<1> QED
    BY <1>3, <1>4

LEMMA RunExists ==
    ASSUME NEW k, NEW S, Ranked(S)
    PROVE  IsRun(Run(k, S), k, S)
<1> DEFINE Bad == {s \in SUBSET S : ~ \E g : IsRun(g, k, s)}
<1> SUFFICES ASSUME Bad # {} PROVE FALSE
    BY DEF Run
<1>1. PICK s \in Bad : \A t \in Bad : t \subseteq s => t = s
    <2>1. Bad \in SUBSET (SUBSET S) /\ Bad # {}
        OBVIOUS
    <2>2. IsFiniteSet(S)
        BY DEF Ranked
    <2> HIDE DEF Bad
    <2> QED
        BY <2>1, <2>2, SmallestSet
<1>2. ASSUME NEW t \in SUBSET s, t # s
      PROVE  IsRun(Run(k, t), k, t)
    BY <1>1, <1>2 DEF Run
<1>3. ASSUME NEW t \in SUBSET s, t # s, NEW u \in SUBSET t
      PROVE  Run(k, t)[u] = Run(k, u)[u]
    <2>1. IsRun(Run(k, t), k, t) /\ IsRun(Run(k, u), k, u)
        BY <1>2, <1>3
    <2>2. Ranked(t)
        BY FS_Subset DEF Ranked
    <2>3. u \in SUBSET (t \cap u)
        OBVIOUS
    <2> QED
        BY <2>1, <2>2, <2>3, RunUnique
<1> DEFINE g == [t \in SUBSET s |->
                    IF t = s THEN Unrolled([u \in SUBSET s |-> Run(k, u)[u]], k, s)
                    ELSE Run(k, t)[t]]
<1>4. ASSUME NEW t \in SUBSET s PROVE g[t] = Unrolled(g, k, t)
    <2>1. t # {} => t \ {Max(t)} \in SUBSET s /\ t \ {Max(t)} # s /\ t \ {Max(t)} \in SUBSET t
        BY DEF Ranked
    <2>2. t # {} => g[t \ {Max(t)}] = Run(k, t \ {Max(t)})[t \ {Max(t)}]
        BY <2>1
    <2>3. CASE t = s
        BY <2>1, <2>2, <2>3 DEF Unrolled
    <2>4. CASE t # s
        <3>1. Run(k, t)[t] = Unrolled(Run(k, t), k, t)
            BY <1>2, <2>4 DEF IsRun
        <3>2. t # {} => Run(k, t)[t \ {Max(t)}] = Run(k, t \ {Max(t)})[t \ {Max(t)}]
            BY <1>3, <2>1, <2>4
        <3>3. g[t] = Run(k, t)[t]
            BY <2>4
        <3> QED
            BY <2>2, <3>1, <3>2, <3>3 DEF Unrolled
    <2> QED
        BY <2>3, <2>4
<1>5. IsRun(g, k, s)
    <2> HIDE DEF g
    <2>1. g = [t \in SUBSET s |-> g[t]]
        BY DEF g
    <2> QED
        BY <1>4, <2>1 DEF IsRun
<1> QED
    BY <1>1, <1>5

\* The run reaches each prefix of the list by one step from the one before.
LEMMA RunSteps ==
    ASSUME NEW k, NEW n \in Nat, NEW g, IsRun(g, k, 1..n)
    PROVE  /\ g[1..0] = k.from
           /\ \A i \in 1..n : g[1..i] = StepOf(k, g[1..(i - 1)], k.list[i])
<1>1. g[1..0] = k.from
    BY DEF IsRun, Unrolled
<1>2. ASSUME NEW i \in 1..n
      PROVE  g[1..i] = StepOf(k, g[1..(i - 1)], k.list[i])
    <2>1. Max(1..i) = i /\ (1..i) \ {i} = 1..(i - 1) /\ 1..i # {}
        <3>1. i \in Nat \ {0}
            OBVIOUS
        <3> QED
            BY <3>1, MaxOfPrefix
    <2>2. g[1..i] = Unrolled(g, k, 1..i)
        BY DEF IsRun
    <2> QED
        BY <2>1, <2>2 DEF Unrolled
<1> QED
    BY <1>1, <1>2

-----------------------------------------------------------------------------
(* The three kinds of cuts are such runs *)

AddCut(t, f, list) == [how |-> "add", facet |-> f, from |-> WithFacet(t, f), list |-> list]
ReplaceCut(t, f, list) == [how |-> "replace", facet |-> f, from |-> WithFacet(t, f), list |-> list]
RemoveCut(t, list) ==
    [how |-> "remove", facet |-> NoFacet, from |-> Progress(t, 0, TRUE), list |-> list]

LEMMA AddIsRun ==
    ASSUME NEW t, NEW f, NEW list \in Seq(Selectors)
    PROVE  \E g : /\ IsRun(g, AddCut(t, f, list), 1..Len(list))
                  /\ AddFunctions(t, f, list) = g[1..Len(list)]
<1> DEFINE k == AddCut(t, f, list)
           n == Len(list)
           Fold1(g) == g = [s \in SUBSET (DOMAIN list) |->
                             IF s = {} THEN WithFacet(t, f)
                             ELSE AddSelector(g[s \ {Max(s)}], list[Max(s)], f)]
           g0 == CHOOSE g : Fold1(g)
<1>1. AddFunctions(t, f, list) = g0[DOMAIN list]
    BY DEF AddFunctions, FoldLeft, MapThenFoldSet
<1>2. n \in Nat /\ DOMAIN list = 1..n
    OBVIOUS
<1>3. ASSUME NEW g PROVE Fold1(g) <=> IsRun(g, k, 1..n)
    BY <1>2 DEF IsRun, Unrolled, StepOf, AddCut
<1>4. \E g : Fold1(g)
    <2>1. IsRun(Run(k, 1..n), k, 1..n)
        BY <1>2, IntervalRanked, RunExists
    <2> HIDE DEF Fold1
    <2> QED
        BY <1>3, <2>1
<1>5. Fold1(g0)
    <2> HIDE DEF Fold1
    <2> QED
        BY <1>4
<1> QED
    BY <1>1, <1>2, <1>3, <1>5

LEMMA ReplaceIsRun ==
    ASSUME NEW t, NEW f, NEW list \in Seq(Selectors)
    PROVE  \E g : /\ IsRun(g, ReplaceCut(t, f, list), 1..Len(list))
                  /\ ReplaceFunctions(t, f, list) = g[1..Len(list)]
<1> DEFINE k == ReplaceCut(t, f, list)
           n == Len(list)
           Fold1(g) == g = [s \in SUBSET (DOMAIN list) |->
                             IF s = {} THEN WithFacet(t, f)
                             ELSE ReplaceSelector(g[s \ {Max(s)}], list[Max(s)], f)]
           g0 == CHOOSE g : Fold1(g)
<1>1. ReplaceFunctions(t, f, list) = g0[DOMAIN list]
    BY DEF ReplaceFunctions, FoldLeft, MapThenFoldSet
<1>2. n \in Nat /\ DOMAIN list = 1..n
    OBVIOUS
<1>3. ASSUME NEW g PROVE Fold1(g) <=> IsRun(g, k, 1..n)
    BY <1>2 DEF IsRun, Unrolled, StepOf, ReplaceCut
<1>4. \E g : Fold1(g)
    <2>1. IsRun(Run(k, 1..n), k, 1..n)
        BY <1>2, IntervalRanked, RunExists
    <2> HIDE DEF Fold1
    <2> QED
        BY <1>3, <2>1
<1>5. Fold1(g0)
    <2> HIDE DEF Fold1
    <2> QED
        BY <1>4
<1> QED
    BY <1>1, <1>2, <1>3, <1>5

LEMMA RemoveIsRun ==
    ASSUME NEW t, NEW list \in Seq(Selectors)
    PROVE  \E g : /\ IsRun(g, RemoveCut(t, list), 1..Len(list))
                  /\ RemoveFunctions(t, list) = g[1..Len(list)]
<1> DEFINE k == RemoveCut(t, list)
           n == Len(list)
           Fold1(g) == g = [s \in SUBSET (DOMAIN list) |->
                             IF s = {} THEN Progress(t, 0, TRUE)
                             ELSE RemoveSelector(g[s \ {Max(s)}], list[Max(s)])]
           g0 == CHOOSE g : Fold1(g)
<1>1. RemoveFunctions(t, list) = g0[DOMAIN list]
    BY DEF RemoveFunctions, FoldLeft, MapThenFoldSet
<1>2. n \in Nat /\ DOMAIN list = 1..n
    OBVIOUS
<1>3. ASSUME NEW g PROVE Fold1(g) <=> IsRun(g, k, 1..n)
    BY <1>2 DEF IsRun, Unrolled, StepOf, RemoveCut
<1>4. \E g : Fold1(g)
    <2>1. IsRun(Run(k, 1..n), k, 1..n)
        BY <1>2, IntervalRanked, RunExists
    <2> HIDE DEF Fold1
    <2> QED
        BY <1>3, <2>1
<1>5. Fold1(g0)
    <2> HIDE DEF Fold1
    <2> QED
        BY <1>4
<1> QED
    BY <1>1, <1>2, <1>3, <1>5

-----------------------------------------------------------------------------
(* What a cut has done when it comes to a selector                           *)

\* Which selectors a cut may name, by the facet they lead to before it.
MayName(k, f) ==
    IF k.how = "add" THEN f = NoFacet
    ELSE IF k.how = "replace" THEN f # NoFacet /\ f # k.facet
    ELSE f # NoFacet

\* The first i selectors of the list lead to the facet of the cut now, could be
\* named, and no other selector was touched.
RoutesDone(k, t, u, i) ==
    /\ \A s \in Selectors : u.facetOf[s] =
           IF \E j \in 1..i : k.list[j] = s THEN k.facet ELSE t.facetOf[s]
    /\ \A j \in 1..i : MayName(k, t.facetOf[k.list[j]])

\* c is what a cut of table t holds after i selectors, unless one was refused.
SoFar(k, t, i, c) ==
    c.ok =>
        /\ TableInv(c.table, {k.facet})
        /\ k.how # "remove" =>
              /\ c.next = Len(c.table.selectorsOf[k.facet])
              /\ i # 0 => c.next # 0
        /\ RoutesDone(k, t, c.table, i)

IsCut(k, t) ==
    /\ t \in Table
    /\ k.list \in Seq(Selectors)
    /\ \/ k.how \in {"add", "replace"} /\ k.facet \in Facets
       \/ k.how = "remove" /\ k.facet = NoFacet

LEMMA ProgressFields ==
    ASSUME NEW t, NEW n, NEW b
    PROVE  /\ Progress(t, n, b).table = t
           /\ Progress(t, n, b).next = n
           /\ Progress(t, n, b).ok = b
    BY DEF Progress

LEMMA OneMoreRoute ==
    ASSUME NEW k, NEW t, NEW u, NEW v, NEW i \in Nat \ {0},
           RoutesDone(k, t, u, i - 1), NEW s \in Selectors, s = k.list[i],
           MayName(k, u.facetOf[s]), ~MayName(k, k.facet),
           LedTo(u, v, s, k.facet)
    PROVE  RoutesDone(k, t, v, i)
<1>1. \A j : j \in 1..i <=> (j = i \/ j \in 1..(i - 1))
    OBVIOUS
<1>2. \A j \in 1..(i - 1) : k.list[j] # s
    BY DEF RoutesDone
<1>3. u.facetOf[s] = t.facetOf[s]
    BY <1>2 DEF RoutesDone
<1>4. \A j \in 1..i : MayName(k, t.facetOf[k.list[j]])
    BY <1>1, <1>3 DEF RoutesDone
<1>5. ASSUME NEW r \in Selectors
      PROVE  v.facetOf[r] = IF \E j \in 1..i : k.list[j] = r THEN k.facet ELSE t.facetOf[r]
    <2>1. CASE r = s
        <3>1. \E j \in 1..i : k.list[j] = r
            BY <1>1, <2>1
        <3> QED
            BY <2>1, <3>1 DEF LedTo
    <2>2. CASE r # s
        <3>1. (\E j \in 1..i : k.list[j] = r) <=> \E j \in 1..(i - 1) : k.list[j] = r
            BY <1>1, <2>2
        <3>2. v.facetOf[r] = u.facetOf[r]
            BY <2>2 DEF LedTo
        <3> QED
            BY <3>1, <3>2 DEF RoutesDone
    <2> QED
        BY <2>1, <2>2
<1> QED
    BY <1>4, <1>5 DEF RoutesDone

LEMMA AddStep ==
    ASSUME NEW k, NEW t, IsCut(k, t), k.how = "add", NEW i \in 1..Len(k.list), NEW c,
           SoFar(k, t, i - 1, c)
    PROVE  SoFar(k, t, i, StepOf(k, c, k.list[i]))
<1> DEFINE f == k.facet
           s == k.list[i]
           n == Len(c.table.selectorsOf[f])
           u == AddFunction(c.table, s, c.next, f)
           d == StepOf(k, c, s)
<1>1. d = AddSelector(c, s, f)
    BY DEF StepOf
<1>2. d.table = u /\ d.next = c.next + 1 /\ d.ok = (c.ok /\ c.table.facetOf[s] = NoFacet)
    BY <1>1, ProgressFields DEF AddSelector
<1>3. f \in Facets /\ s \in Selectors /\ i \in Nat \ {0}
    BY DEF IsCut
<1> SUFFICES ASSUME d.ok
             PROVE  /\ TableInv(u, {f})
                    /\ d.next = Len(u.selectorsOf[f]) /\ d.next # 0
                    /\ RoutesDone(k, t, u, i)
    BY <1>2, Zenon DEF SoFar
<1>4. c.ok /\ c.table.facetOf[s] = NoFacet
    BY <1>2
<1>5. TableInv(c.table, {f}) /\ c.next = n /\ RoutesDone(k, t, c.table, i - 1)
    BY <1>4 DEF SoFar
<1>6. TableInv(u, {f}) /\ LedTo(c.table, u, s, f) /\ Len(u.selectorsOf[f]) = n + 1
    <2> DEFINE w == c.table
    <2>1. w.facetOf[s] = NoFacet /\ TableInv(w, {f}) /\ c.next = Len(w.selectorsOf[f])
        BY <1>4, <1>5
    <2>2. u = AddFunction(w, s, c.next, f)
        OBVIOUS
    <2> HIDE DEF w, s, f, u, d
    <2>3. Leads(w, u, s, f, c.next)
        BY <1>3, <2>1, <2>2, AddFunctionInv
    <2> QED
        BY <1>5, <2>3 DEF Leads, w
<1>7. n \in Nat
    BY <1>3, <1>5, TableFields DEF TableInv
<1>8. RoutesDone(k, t, u, i)
    <2>1. MayName(k, c.table.facetOf[s]) /\ ~MayName(k, f)
        BY <1>3, <1>4, DiamondAssumption DEF MayName
    <2> HIDE DEF u, d
    <2> QED
        BY <1>3, <1>5, <1>6, <2>1, OneMoreRoute
<1> QED
    BY <1>2, <1>5, <1>6, <1>7, <1>8

\* Taking a selector from one facet and giving it to another.
LEMMA ReplaceInv ==
    ASSUME NEW t, NEW f \in Facets, NEW s \in Selectors, TableInv(t, {f}),
           NEW old, old = t.facetOf[s], old # NoFacet, old # f,
           NEW n, n = Len(t.selectorsOf[f])
    PROVE  Leads(t, AddFunction(RemoveFunction(t, old, s), s, n, f), s, f, n)
<1> DEFINE u == RemoveFunction(t, old, s)
           v == AddFunction(u, s, n, f)
<1>1. TableInv(u, {f}) /\ LedTo(t, u, s, NoFacet) /\ OthersKept(t, u, old)
    BY RemoveFunctionInv
<1> HIDE DEF u
<1>2. u.facetOf[s] = NoFacet /\ n = Len(u.selectorsOf[f])
    BY <1>1 DEF LedTo, OthersKept
<1>3. Leads(u, v, s, f, n)
    BY <1>1, <1>2, AddFunctionInv
<1> HIDE DEF v
<1>4. LedTo(t, v, s, f)
    BY <1>1, <1>3 DEF Leads, LedTo
<1> QED
    BY <1>3, <1>4 DEF Leads, u, v

LEMMA ReplaceStep ==
    ASSUME NEW k, NEW t, IsCut(k, t), k.how = "replace", NEW i \in 1..Len(k.list), NEW c,
           SoFar(k, t, i - 1, c)
    PROVE  SoFar(k, t, i, StepOf(k, c, k.list[i]))
<1> DEFINE f == k.facet
           s == k.list[i]
           w == c.table
           n == c.next
           old == w.facetOf[s]
           v == AddFunction(RemoveFunction(w, old, s), s, n, f)
           d == StepOf(k, c, s)
           allowed == c.ok /\ old # f /\ Removable(old)
<1>1. d = IF allowed THEN Progress(v, n + 1, TRUE) ELSE Progress(w, n, FALSE)
    BY DEF StepOf, ReplaceSelector
<1>2. f \in Facets /\ s \in Selectors /\ i \in Nat \ {0}
    BY DEF IsCut
<1> HIDE DEF d
<1>3. CASE ~allowed
    <2>1. d = Progress(w, n, FALSE)
        BY <1>1, <1>3
    <2>2. ~d.ok
        BY <2>1 DEF Progress
    <2> QED
        BY <2>2 DEF SoFar, d
<1>4. CASE allowed
    <2>1. d = Progress(v, n + 1, TRUE)
        BY <1>1, <1>4
    <2>2. d.table = v /\ d.next = n + 1
        <3> HIDE DEF v, n
        <3> QED
            BY <2>1 DEF Progress
    <2>3. old # NoFacet /\ old # f
        BY <1>4 DEF Removable
    <2>4. TableInv(w, {f}) /\ n = Len(w.selectorsOf[f]) /\ RoutesDone(k, t, w, i - 1)
        BY <1>4 DEF SoFar
    <2>5. n \in Nat
        BY <1>2, <2>4, TableFields DEF TableInv
    <2>6. MayName(k, old) /\ ~MayName(k, f)
        BY <2>3 DEF MayName
    <2>7. old = w.facetOf[s]
        OBVIOUS
    <2> HIDE DEF old, n, w, s, f
    <2>8. Leads(w, v, s, f, n)
        BY <1>2, <2>3, <2>4, <2>7, ReplaceInv
    <2> HIDE DEF v
    <2>9. RoutesDone(k, t, v, i)
        BY <1>2, <2>4, <2>6, <2>7, <2>8, OneMoreRoute DEF Leads, f, s
    <2>10. n + 1 # 0
        BY <2>5
    <2> QED
        BY <2>2, <2>8, <2>9, <2>10 DEF Leads, SoFar, d, f, s
<1> QED
    BY <1>3, <1>4

LEMMA RemoveStep ==
    ASSUME NEW k, NEW t, IsCut(k, t), k.how = "remove", NEW i \in 1..Len(k.list), NEW c,
           SoFar(k, t, i - 1, c)
    PROVE  SoFar(k, t, i, StepOf(k, c, k.list[i]))
<1> DEFINE s == k.list[i]
           w == c.table
           old == w.facetOf[s]
           u == RemoveFunction(w, old, s)
           d == StepOf(k, c, s)
           allowed == c.ok /\ Removable(old)
<1>1. d = IF allowed THEN Progress(u, 0, TRUE) ELSE Progress(w, 0, FALSE)
    BY DEF StepOf, RemoveSelector
<1>2. k.facet = NoFacet /\ s \in Selectors /\ i \in Nat \ {0}
    BY DEF IsCut
<1> HIDE DEF d
<1>3. CASE ~allowed
    <2>1. d = Progress(w, 0, FALSE)
        BY <1>1, <1>3
    <2>2. ~d.ok
        BY <2>1 DEF Progress
    <2> QED
        BY <2>2 DEF SoFar, d
<1>4. CASE allowed
    <2>1. d = Progress(u, 0, TRUE)
        BY <1>1, <1>4
    <2>2. d.table = u
        <3> HIDE DEF u
        <3> QED
            BY <2>1 DEF Progress
    <2>3. old # NoFacet
        BY <1>4 DEF Removable
    <2>4. TableInv(w, {NoFacet}) /\ RoutesDone(k, t, w, i - 1)
        BY <1>2, <1>4 DEF SoFar
    <2>5. MayName(k, old) /\ ~MayName(k, NoFacet)
        BY <2>3 DEF MayName
    <2>6. old = w.facetOf[s] /\ old \notin {NoFacet}
        BY <2>3
    <2> HIDE DEF old, w, s
    <2>7. TableInv(u, {NoFacet}) /\ LedTo(w, u, s, NoFacet)
        BY <1>2, <2>3, <2>4, <2>6, RemoveFunctionInv
    <2> HIDE DEF u
    <2>8. RoutesDone(k, t, u, i)
        BY <1>2, <2>4, <2>5, <2>6, <2>7, OneMoreRoute DEF s
    <2> QED
        BY <1>2, <2>2, <2>7, <2>8 DEF SoFar, d, s
<1> QED
    BY <1>3, <1>4

\* The run of a cut that starts well is well all along.
LEMMA RunSoFar ==
    ASSUME NEW k, NEW t, IsCut(k, t), NEW g, IsRun(g, k, 1..Len(k.list)),
           SoFar(k, t, 0, k.from)
    PROVE  SoFar(k, t, Len(k.list), g[1..Len(k.list)])
<1> DEFINE n == Len(k.list)
           Good(i) == SoFar(k, t, i, g[1..i])
           C == {1..i : i \in {j \in 0..n : ~Good(j)}}
<1>1. n \in Nat /\ k.list \in Seq(Selectors)
    BY DEF IsCut
<1>2. Good(0)
    BY <1>1, RunSteps
<1>3. ASSUME NEW i \in 1..n, Good(i - 1) PROVE Good(i)
    <2>1. g[1..i] = StepOf(k, g[1..(i - 1)], k.list[i])
        BY <1>1, RunSteps
    <2>2. k.how \in {"add", "replace", "remove"}
        BY DEF IsCut
    <2> QED
        BY <1>3, <2>1, <2>2, AddStep, ReplaceStep, RemoveStep
<1> HIDE DEF Good
<1> SUFFICES ASSUME ~Good(n) PROVE FALSE
    BY DEF Good
<1>4. C \in SUBSET (SUBSET (1..n)) /\ C # {}
    BY <1>1
<1>5. PICK first \in C : \A p \in C : p \subseteq first => p = first
    <2> DEFINE all == 1..n
    <2>1. IsFiniteSet(all)
        BY <1>1, FS_Interval
    <2>2. C \in SUBSET (SUBSET all) /\ C # {}
        BY <1>4
    <2> HIDE DEF C, all, n
    <2> QED
        BY ONLY <2>1, <2>2, SmallestSet
<1>6. PICK i \in 0..n : first = 1..i /\ ~Good(i)
    OBVIOUS
<1>7. i \in 1..n
    BY <1>1, <1>2, <1>6
<1>8. ~Good(i - 1)
    BY <1>3, <1>6, <1>7
<1>9. 1..(i - 1) \in C
    BY <1>7, <1>8
<1>10. 1..(i - 1) \subseteq 1..i /\ i \in 1..i /\ i \notin 1..(i - 1)
    BY <1>7
<1> QED
    BY <1>5, <1>6, <1>9, <1>10

-----------------------------------------------------------------------------
(* Whole cuts *)

LEMMA StartsWell ==
    ASSUME NEW t, TableInv(t, {}), NEW k, IsCut(k, t), k.how # "remove",
           k.from = WithFacet(t, k.facet)
    PROVE  SoFar(k, t, 0, k.from)
<1> DEFINE f == k.facet
           u == IF t.selectorsOf[f] = <<>> THEN AddFacet(t, f) ELSE t
           n == Len(t.selectorsOf[f])
<1>1. k.from = Progress(u, n, TRUE)
    BY DEF WithFacet
<1>2. k.from.table = u /\ k.from.next = n
    <2> HIDE DEF u, n
    <2> QED
        BY <1>1 DEF Progress
<1>3. f \in Facets /\ t \in Table
    BY DEF IsCut
<1>4. TableInv(u, {f}) /\ u.facetOf = t.facetOf /\ u.selectorsOf = t.selectorsOf
    <2>1. CASE t.selectorsOf[f] = <<>>
        <3>1. u = AddFacet(t, f) /\ n = 0
            BY <2>1
        <3> HIDE DEF f, u
        <3>2. TableInv(u, {f})
            BY <1>3, <3>1, AddFacetInv
        <3>3. u.facetOf = t.facetOf /\ u.selectorsOf = t.selectorsOf
            BY <1>3, <3>1, AddFacetFields
        <3> QED
            BY <3>2, <3>3
    <2>2. CASE t.selectorsOf[f] # <<>>
        <3>1. u = t
            BY <2>2
        <3>2. n # 0
            <4>1. t.selectorsOf[f] \in Seq(Selectors)
                BY <1>3, TableFields
            <4> HIDE DEF f
            <4> QED
                BY <2>2, <4>1
        <3> HIDE DEF f, u
        <3> QED
            BY <1>3, <3>1, <3>2, Opened
    <2> QED
        BY <2>1, <2>2
<1>5. RoutesDone(k, t, u, 0)
    BY <1>4 DEF RoutesDone
<1> HIDE DEF u
<1> QED
    BY <1>2, <1>4, <1>5 DEF SoFar

LEMMA RemoveStartsWell ==
    ASSUME NEW t, TableInv(t, {}), NEW k, IsCut(k, t), k.how = "remove",
           k.from = Progress(t, 0, TRUE)
    PROVE  SoFar(k, t, 0, k.from)
<1>1. k.from.table = t
    BY DEF Progress
<1>2. TableInv(t, {NoFacet})
    BY DiamondAssumption DEF TableInv, AllListed, NoneIdle
<1>3. RoutesDone(k, t, t, 0)
    BY DEF RoutesDone
<1> QED
    BY <1>1, <1>2, <1>3 DEF SoFar, IsCut

LEMMA EndsWell ==
    ASSUME NEW t, NEW k, IsCut(k, t), k.list # <<>>, NEW c,
           SoFar(k, t, Len(k.list), c), c.ok
    PROVE  TableInv(c.table, {}) /\ RoutesDone(k, t, c.table, Len(k.list))
<1> DEFINE u == c.table
           f == k.facet
<1>1. TableInv(u, {f}) /\ RoutesDone(k, t, u, Len(k.list))
    BY DEF SoFar
<1>2. CASE k.how = "remove"
    <2>1. TableInv(u, {NoFacet})
        BY <1>1, <1>2 DEF IsCut
    <2>2. u \in Table /\ \A i \in 1..Len(u.facetAddresses) : u.facetAddresses[i] # NoFacet
        BY <2>1, TableFields, DiamondAssumption DEF TableInv
    <2>3. NoneIdle(u, {})
        BY <2>1, <2>2 DEF TableInv, NoneIdle
    <2>4. AllListed(u, {})
        BY <2>1 DEF TableInv, AllListed
    <2> QED
        BY <1>1, <2>1, <2>3, <2>4 DEF TableInv
<1>3. CASE k.how # "remove"
    <2>1. Len(k.list) # 0
        BY DEF IsCut
    <2>2. Len(u.selectorsOf[f]) # 0 /\ f \in Facets
        BY <1>3, <2>1 DEF SoFar, IsCut
    <2>3. TableInv(u, {} \cup {f})
        BY <1>1
    <2> HIDE DEF u, f
    <2>4. TableInv(u, {})
        BY <2>2, <2>3, Closed
    <2> QED
        BY <1>1, <2>4 DEF u
<1> QED
    BY <1>2, <1>3

\* What a cut that is not refused leaves.
LEMMA CutKeeps ==
    ASSUME NEW t, TableInv(t, {}), NEW list \in Seq(Selectors), list # <<>>
    PROVE  /\ \A f \in Facets :
                 LET c == AddFunctions(t, f, list) IN
                 c.ok => TableInv(c.table, {}) /\ RoutesDone(AddCut(t, f, list), t, c.table, Len(list))
           /\ \A f \in Facets :
                 LET c == ReplaceFunctions(t, f, list) IN
                 c.ok => TableInv(c.table, {}) /\ RoutesDone(ReplaceCut(t, f, list), t, c.table, Len(list))
           /\ LET c == RemoveFunctions(t, list) IN
              c.ok => TableInv(c.table, {}) /\ RoutesDone(RemoveCut(t, list), t, c.table, Len(list))
<1>1. t \in Table
    BY DEF TableInv
<1>2. ASSUME NEW f \in Facets, AddFunctions(t, f, list).ok
      PROVE  LET c == AddFunctions(t, f, list) IN
             TableInv(c.table, {}) /\ RoutesDone(AddCut(t, f, list), t, c.table, Len(list))
    <2> DEFINE k == AddCut(t, f, list)
    <2>1. k.how = "add" /\ k.facet = f /\ k.from = WithFacet(t, f) /\ k.list = list
        BY DEF AddCut
    <2>2. PICK g : IsRun(g, k, 1..Len(list)) /\ AddFunctions(t, f, list) = g[1..Len(list)]
        BY AddIsRun
    <2> HIDE DEF k
    <2>3. IsCut(k, t)
        BY <1>1, <2>1 DEF IsCut
    <2>4. SoFar(k, t, 0, k.from)
        BY <2>1, <2>3, StartsWell
    <2>5. SoFar(k, t, Len(list), AddFunctions(t, f, list))
        BY <2>1, <2>2, <2>3, <2>4, RunSoFar
    <2> DEFINE c == AddFunctions(t, f, list)
    <2>6. c.ok /\ SoFar(k, t, Len(k.list), c) /\ k.list # <<>>
        BY <1>2, <2>1, <2>5
    <2> HIDE DEF c
    <2>7. TableInv(c.table, {}) /\ RoutesDone(k, t, c.table, Len(k.list))
        BY <2>3, <2>6, EndsWell
    <2> QED
        BY <2>1, <2>7 DEF k, c
<1>3. ASSUME NEW f \in Facets, ReplaceFunctions(t, f, list).ok
      PROVE  LET c == ReplaceFunctions(t, f, list) IN
             TableInv(c.table, {}) /\ RoutesDone(ReplaceCut(t, f, list), t, c.table, Len(list))
    <2> DEFINE k == ReplaceCut(t, f, list)
    <2>1. k.how = "replace" /\ k.facet = f /\ k.from = WithFacet(t, f) /\ k.list = list
        BY DEF ReplaceCut
    <2>2. PICK g : IsRun(g, k, 1..Len(list)) /\ ReplaceFunctions(t, f, list) = g[1..Len(list)]
        BY ReplaceIsRun
    <2> HIDE DEF k
    <2>3. IsCut(k, t)
        BY <1>1, <2>1 DEF IsCut
    <2>4. SoFar(k, t, 0, k.from)
        BY <2>1, <2>3, StartsWell
    <2>5. SoFar(k, t, Len(list), ReplaceFunctions(t, f, list))
        BY <2>1, <2>2, <2>3, <2>4, RunSoFar
    <2> DEFINE c == ReplaceFunctions(t, f, list)
    <2>6. c.ok /\ SoFar(k, t, Len(k.list), c) /\ k.list # <<>>
        BY <1>3, <2>1, <2>5
    <2> HIDE DEF c
    <2>7. TableInv(c.table, {}) /\ RoutesDone(k, t, c.table, Len(k.list))
        BY <2>3, <2>6, EndsWell
    <2> QED
        BY <2>1, <2>7 DEF k, c
<1>4. ASSUME RemoveFunctions(t, list).ok
      PROVE  LET c == RemoveFunctions(t, list) IN
             TableInv(c.table, {}) /\ RoutesDone(RemoveCut(t, list), t, c.table, Len(list))
    <2> DEFINE k == RemoveCut(t, list)
    <2>1. k.how = "remove" /\ k.facet = NoFacet /\ k.from = Progress(t, 0, TRUE) /\ k.list = list
        BY DEF RemoveCut
    <2>2. PICK g : IsRun(g, k, 1..Len(list)) /\ RemoveFunctions(t, list) = g[1..Len(list)]
        BY RemoveIsRun
    <2> HIDE DEF k
    <2>3. IsCut(k, t)
        BY <1>1, <2>1 DEF IsCut
    <2>4. SoFar(k, t, 0, k.from)
        BY <2>1, <2>3, RemoveStartsWell
    <2>5. SoFar(k, t, Len(list), RemoveFunctions(t, list))
        BY <2>1, <2>2, <2>3, <2>4, RunSoFar
    <2> DEFINE c == RemoveFunctions(t, list)
    <2>6. c.ok /\ SoFar(k, t, Len(k.list), c) /\ k.list # <<>>
        BY <1>4, <2>1, <2>5
    <2> HIDE DEF c
    <2>7. TableInv(c.table, {}) /\ RoutesDone(k, t, c.table, Len(k.list))
        BY <2>3, <2>6, EndsWell
    <2> QED
        BY <2>1, <2>7 DEF k, c
<1> QED
    BY <1>2, <1>3, <1>4, Zenon

LEMMA EmptyTableInv == TableInv(EmptyTable, {})
<1>1. EmptyTable \in Table
    BY DEF EmptyTable, Table
<1>2. /\ \A f \in Facets : Len(EmptyTable.selectorsOf[f]) = 0
      /\ Len(EmptyTable.facetAddresses) = 0
      /\ \A s \in Selectors : EmptyTable.facetOf[s] = NoFacet
    BY DEF EmptyTable
<1> QED
    BY <1>1, <1>2 DEF TableInv, ListsAgree, AllFound, AddressesAgree, AllListed, NoneIdle

LEMMA InitTable == Init => TableInv(table, {})
<1> SUFFICES ASSUME Init PROVE TableInv(table, {})
    OBVIOUS
<1> DEFINE list == <<CutSelector>>
           c == AddFunctions(EmptyTable, CutFacet, list)
           k == AddCut(EmptyTable, CutFacet, list)
<1>1. list \in Seq(Selectors) /\ list # <<>> /\ Len(list) = 1 /\ list[1] = CutSelector
    BY DiamondAssumption
<1>2. CutFacet \in Facets /\ CutSelector \in Selectors
    BY DiamondAssumption
<1>3. table = c.table
    BY DEF Init
<1>4. c.ok
    <2>1. PICK g : IsRun(g, k, 1..Len(list)) /\ c = g[1..Len(list)]
        BY <1>1, AddIsRun
    <2>2. k.from = WithFacet(EmptyTable, CutFacet) /\ k.list = list /\ k.how = "add" /\ k.facet = CutFacet
        BY DEF AddCut
    <2> HIDE DEF k, c
    <2>3. IsCut(k, EmptyTable)
        BY <1>1, <1>2, <2>2, EmptyTableInv DEF IsCut, TableInv
    <2>4. SoFar(k, EmptyTable, 0, k.from)
        BY <2>2, <2>3, EmptyTableInv, StartsWell
    <2>5. k.from.ok
        BY <2>2 DEF WithFacet, Progress
    <2>6. k.from.table.facetOf[CutSelector] = NoFacet
        <3>1. k.from.table.facetOf[CutSelector] = EmptyTable.facetOf[CutSelector]
            BY <1>2, <2>4, <2>5 DEF SoFar, RoutesDone
        <3> QED
            BY <1>2, <3>1 DEF EmptyTable
    <2>7. g[1..1] = StepOf(k, g[1..0], k.list[1]) /\ g[1..0] = k.from
        <3>1. IsRun(g, k, 1..1) /\ 1 \in Nat
            BY <1>1, <2>1
        <3>2. /\ g[1..0] = k.from
              /\ \A i \in 1..1 : g[1..i] = StepOf(k, g[1..(i - 1)], k.list[i])
            BY <3>1, RunSteps, Zenon
        <3>3. 1 \in 1..1 /\ 1 - 1 = 0
            OBVIOUS
        <3> QED
            BY <3>2, <3>3
    <2>8. c = AddSelector(k.from, CutSelector, CutFacet)
        BY <1>1, <2>1, <2>2, <2>7 DEF StepOf
    <2> QED
        BY <2>5, <2>6, <2>8 DEF AddSelector, Progress
<1> HIDE DEF list, c
<1>5. TableInv(c.table, {})
    BY <1>1, <1>2, <1>4, EmptyTableInv, CutKeeps DEF c
<1> QED
    BY <1>3, <1>5

-----------------------------------------------------------------------------
(* Every call *)

LEMMA CutsAreLists ==
    ASSUME NEW list \in Cuts
    PROVE  list \in Seq(Selectors) /\ list # <<>>
BY DEF Cuts, BoundedSeq, SeqOf

\* A cut leaves a consistent table, in which the selectors it names lead to a facet.
Recut(k) == TableInv(table', {}) /\ RoutesDone(k, table, table', Len(k.list))

LEMMA AddRecuts ==
    ASSUME TableInv(table, {}), NEW f \in Facets, NEW list \in Cuts, DiamondCutAdd(f, list)
    PROVE  Recut(AddCut(table, f, list))
<1> DEFINE c == AddFunctions(table, f, list)
<1>1. c.ok /\ table' = c.table
    BY DEF DiamondCutAdd, Cut
<1>2. TableInv(c.table, {}) /\ RoutesDone(AddCut(table, f, list), table, c.table, Len(list))
    BY <1>1, CutsAreLists, CutKeeps
<1>3. AddCut(table, f, list).list = list
    BY DEF AddCut
<1> HIDE DEF c
<1> QED
    BY <1>1, <1>2, <1>3 DEF Recut

LEMMA ReplaceRecuts ==
    ASSUME TableInv(table, {}), NEW f \in Facets, NEW list \in Cuts, DiamondCutReplace(f, list)
    PROVE  Recut(ReplaceCut(table, f, list))
<1> DEFINE c == ReplaceFunctions(table, f, list)
<1>1. c.ok /\ table' = c.table
    BY DEF DiamondCutReplace, Cut
<1>2. TableInv(c.table, {}) /\ RoutesDone(ReplaceCut(table, f, list), table, c.table, Len(list))
    BY <1>1, CutsAreLists, CutKeeps
<1>3. ReplaceCut(table, f, list).list = list
    BY DEF ReplaceCut
<1> HIDE DEF c
<1> QED
    BY <1>1, <1>2, <1>3 DEF Recut

LEMMA RemoveRecuts ==
    ASSUME TableInv(table, {}), NEW list \in Cuts, DiamondCutRemove(list)
    PROVE  Recut(RemoveCut(table, list))
<1> DEFINE c == RemoveFunctions(table, list)
<1>1. c.ok /\ table' = c.table
    BY DEF DiamondCutRemove, Cut
<1>2. TableInv(c.table, {}) /\ RoutesDone(RemoveCut(table, list), table, c.table, Len(list))
    BY <1>1, CutsAreLists, CutKeeps
<1>3. RemoveCut(table, list).list = list
    BY DEF RemoveCut
<1> HIDE DEF c
<1> QED
    BY <1>1, <1>2, <1>3 DEF Recut

\* A call of the plugin registry, or a stutter, leaves the table alone.
LEMMA Calls ==
    ASSUME [Next]_vars
    PROVE  \/ \E f \in Facets, list \in Cuts : DiamondCutAdd(f, list) \/ DiamondCutReplace(f, list)
           \/ \E list \in Cuts : DiamondCutRemove(list)
           \/ table' = table
<1>1. ASSUME NEW p \in Plugins, NEW active \in BOOLEAN,
             \/ RegisterGlobalPlugin(p) \/ RemoveGlobalPlugin(p)
             \/ SetGlobalPluginStatus(p, active)
      PROVE  table' = table
    BY <1>1 DEF RegisterGlobalPlugin, RemoveGlobalPlugin, SetGlobalPluginStatus
<1>2. UNCHANGED vars => table' = table
    BY DEF vars
<1> QED
    BY <1>1, <1>2, Zenon DEF Next

Consistent == TableInv(table, {})

LEMMA NextConsistent == Consistent /\ [Next]_vars => Consistent'
<1> SUFFICES ASSUME TableInv(table, {}), [Next]_vars PROVE TableInv(table', {})
    BY DEF Consistent
<1>1. table' = table => TableInv(table', {})
    OBVIOUS
<1> QED
    BY <1>1, AddRecuts, ReplaceRecuts, RemoveRecuts, Calls, Zenon DEF Recut

LEMMA InitConsistent == Init => Consistent
BY InitTable DEF Consistent

\* The selector table and the plugin registry keep their types through cuts of
\* any length, and the registry its limit.
THEOREM TypeCorrect == Spec => []TypeOK
<1>1. Consistent /\ IInv => TypeOK
    <2> SUFFICES ASSUME Consistent, IInv PROVE TypeOK
        OBVIOUS
    <2>1. table \in Table
        BY DEF Consistent, TableInv
    <2>2. Len(plugins) \in Nat
        BY ListAndIndex
    <2> QED
        BY <2>1, <2>2, DiamondAssumption DEF IInv, Infos, TypeOK
<1> QED
    BY <1>1, InitInv, NextInv, InitConsistent, NextConsistent, PTL DEF Spec

\* After any cuts, of any lists of selectors, every entry of a list leads to its
\* facet and carries its own position: swapping in the last one repairs it.
THEOREM PositionsAlwaysAgree == Spec => []PositionsAgree
<1>1. Consistent => PositionsAgree
    <2> SUFFICES ASSUME Consistent PROVE PositionsAgree
        OBVIOUS
    <2>1. table \in Table /\ ListsAgree(table) /\ AddressesAgree(table)
        BY DEF Consistent, TableInv
    <2>2. /\ DOMAIN table.facetAddresses = 1..Len(table.facetAddresses)
          /\ \A f \in Facets : DOMAIN table.selectorsOf[f] = 1..Len(table.selectorsOf[f])
        BY <2>1, TableFields
    <2> QED
        BY <2>1, <2>2 DEF PositionsAgree, ListsAgree, AddressesAgree
<1> QED
    BY <1>1, InitConsistent, NextConsistent, PTL DEF Spec

-----------------------------------------------------------------------------
(* A plain table of routes *)

\* What the loupe answers of a table.
Listed(t) ==
    [f \in Facets |-> IF f \in Range(t.facetAddresses) THEN Range(t.selectorsOf[f]) ELSE {}]

LEMMA LoupeShows ==
    ASSUME NEW t, TableInv(t, {})
    PROVE  Listed(t) = Routes!Shown(t.facetOf)
<1>1. t \in Table /\ ListsAgree(t) /\ AllFound(t) /\ AllListed(t, {})
    BY DEF TableInv
<1>2. ASSUME NEW f \in Facets
      PROVE  Listed(t)[f] = {s \in Selectors : t.facetOf[s] = f}
    <2>1. /\ t.selectorsOf[f] \in Seq(Selectors) /\ Len(t.selectorsOf[f]) \in Nat
          /\ \A i \in 1..Len(t.selectorsOf[f]) : t.selectorsOf[f][i] \in Selectors
          /\ Range(t.selectorsOf[f]) = {t.selectorsOf[f][i] : i \in 1..Len(t.selectorsOf[f])}
        BY <1>1, TableFields DEF Range
    <2>2. Range(t.selectorsOf[f]) = {s \in Selectors : t.facetOf[s] = f}
        <3>1. ASSUME NEW s \in Selectors, t.facetOf[s] = f
              PROVE  s \in Range(t.selectorsOf[f])
            BY <1>1, <2>1, <3>1, DiamondAssumption DEF AllFound
        <3>2. ASSUME NEW s \in Range(t.selectorsOf[f])
              PROVE  s \in Selectors /\ t.facetOf[s] = f
            BY <1>1, <2>1, <3>2 DEF ListsAgree
        <3> QED
            BY <3>1, <3>2
    <2>3. CASE Len(t.selectorsOf[f]) # 0
        <3>1. t.facetAddresses \in Seq(Facets) /\ \E i \in 1..Len(t.facetAddresses) : t.facetAddresses[i] = f
            BY <1>1, <2>3, TableFields DEF AllListed
        <3>2. f \in Range(t.facetAddresses)
            BY <3>1 DEF Range
        <3> QED
            BY <2>2, <3>2 DEF Listed
    <2>4. CASE Len(t.selectorsOf[f]) = 0
        <3>1. Range(t.selectorsOf[f]) = {}
            BY <2>1, <2>4
        <3> QED
            BY <2>2, <3>1 DEF Listed
    <2> QED
        BY <2>1, <2>3, <2>4
<1>3. Listed(t) = [f \in Facets |-> Listed(t)[f]]
    BY DEF Listed
<1> QED
    BY <1>2, <1>3 DEF Routes!Shown

\* A cut that is done is a step of that table.
Named(list) == {list[j] : j \in 1..Len(list)}

Routed(r, q, names, f) == q = [s \in Selectors |-> IF s \in names THEN f ELSE r[s]]

LEMMA NamedTogether ==
    ASSUME NEW k, NEW t \in Table, NEW u \in Table, NEW list \in Seq(Selectors), list # <<>>,
           k.list = list, RoutesDone(k, t, u, Len(list))
    PROVE  /\ Named(list) \in (SUBSET Selectors) \ {{}}
           /\ \A s \in Named(list) : MayName(k, t.facetOf[s])
           /\ Routed(t.facetOf, u.facetOf, Named(list), k.facet)
<1>1. Len(list) \in Nat \ {0} /\ \A j \in 1..Len(list) : list[j] \in Selectors
    OBVIOUS
<1>2. Named(list) \in (SUBSET Selectors) \ {{}}
    <2>1. list[1] \in Named(list)
        BY <1>1 DEF Named
    <2>2. Named(list) \subseteq Selectors
        BY <1>1 DEF Named
    <2>3. Named(list) # {}
        BY <2>1
    <2>4. Named(list) \in SUBSET Selectors
        BY <2>2
    <2> QED
        BY <2>3, <2>4
<1>3. \A s \in Named(list) : MayName(k, t.facetOf[s])
    BY DEF Named, RoutesDone
<1>4. \A s \in Selectors : u.facetOf[s] = IF s \in Named(list) THEN k.facet ELSE t.facetOf[s]
    BY DEF Named, RoutesDone
<1>5. u.facetOf \in [Selectors -> Facets \cup {NoFacet}]
    BY TableFields
<1> QED
    BY <1>2, <1>3, <1>4, <1>5 DEF Routed

LEMMA Leading ==
    ASSUME NEW k, NEW list \in Seq(Selectors), list # <<>>, k.list = list,
           TableInv(table, {}), Recut(k)
    PROVE  /\ Routes!Lead(Named(list), k.facet)
           /\ Named(list) \in (SUBSET Selectors) \ {{}}
           /\ \A s \in Named(list) : MayName(k, table.facetOf[s])
<1>1. table \in Table /\ table' \in Table
    BY DEF Recut, TableInv
<1>2. /\ Named(list) \in (SUBSET Selectors) \ {{}}
      /\ \A s \in Named(list) : MayName(k, table.facetOf[s])
      /\ Routed(table.facetOf, table'.facetOf, Named(list), k.facet)
    BY <1>1, NamedTogether DEF Recut
<1>3. Listed(table') = Routes!Shown(table'.facetOf)
    BY LoupeShows DEF Recut
<1> QED
    BY <1>2, <1>3 DEF Routes!Lead, Listed, Routed

LEMMA StepIsRouting ==
    ASSUME TableInv(table, {}), [Next]_vars
    PROVE  Routes!Next \/ table' = table
<1>1. ASSUME NEW f \in Facets, NEW list \in Cuts, DiamondCutAdd(f, list)
      PROVE  Routes!Add(f)
    <2> DEFINE k == AddCut(table, f, list)
    <2>1. k.list = list /\ k.facet = f /\ k.how = "add"
        BY DEF AddCut
    <2>2. Recut(k)
        BY <1>1, AddRecuts
    <2> HIDE DEF k
    <2>3. /\ Routes!Lead(Named(list), f)
          /\ Named(list) \in (SUBSET Selectors) \ {{}}
          /\ \A s \in Named(list) : MayName(k, table.facetOf[s])
        BY <2>1, <2>2, CutsAreLists, Leading
    <2>4. Named(list) \in (SUBSET Routes!Free) \ {{}}
        BY <2>1, <2>3 DEF MayName, Routes!Free
    <2> QED
        BY <2>3, <2>4 DEF Routes!Add
<1>2. ASSUME NEW f \in Facets, NEW list \in Cuts, DiamondCutReplace(f, list)
      PROVE  Routes!Replace(f)
    <2> DEFINE k == ReplaceCut(table, f, list)
    <2>1. k.list = list /\ k.facet = f /\ k.how = "replace"
        BY DEF ReplaceCut
    <2>2. Recut(k)
        BY <1>2, ReplaceRecuts
    <2> HIDE DEF k
    <2>3. /\ Routes!Lead(Named(list), f)
          /\ Named(list) \in (SUBSET Selectors) \ {{}}
          /\ \A s \in Named(list) : MayName(k, table.facetOf[s])
        BY <2>1, <2>2, CutsAreLists, Leading
    <2>4. Named(list) \in (SUBSET {s \in Selectors \ Routes!Free : table.facetOf[s] # f}) \ {{}}
        BY <2>1, <2>3 DEF MayName, Routes!Free
    <2> QED
        BY <2>3, <2>4 DEF Routes!Replace
<1>3. ASSUME NEW list \in Cuts, DiamondCutRemove(list)
      PROVE  Routes!Remove
    <2> DEFINE k == RemoveCut(table, list)
    <2>1. k.list = list /\ k.facet = NoFacet /\ k.how = "remove"
        BY DEF RemoveCut
    <2>2. Recut(k)
        BY <1>3, RemoveRecuts
    <2> HIDE DEF k
    <2>3. /\ Routes!Lead(Named(list), NoFacet)
          /\ Named(list) \in (SUBSET Selectors) \ {{}}
          /\ \A s \in Named(list) : MayName(k, table.facetOf[s])
        BY <2>1, <2>2, CutsAreLists, Leading
    <2>4. Named(list) \in (SUBSET (Selectors \ Routes!Free)) \ {{}}
        BY <2>1, <2>3 DEF MayName, Routes!Free
    <2> QED
        BY <2>3, <2>4 DEF Routes!Remove
<1> QED
    BY <1>1, <1>2, <1>3, Calls, Zenon DEF Routes!Next

\* A cut of LibDiamond that is not refused, however long, leads exactly the
\* selectors it names to its facet, or to none, the ones it may name, and the
\* lists the loupe reads always show where selectors lead.
THEOREM CoreImplementsRouteTable == Spec => ImplementsRouteTable
<1>1. Init => Routes!Init
    <2> SUFFICES ASSUME Init PROVE Routes!Init
        OBVIOUS
    <2>1. TableInv(table, {})
        BY InitTable
    <2>2. table.facetOf \in [Selectors -> Facets \cup {NoFacet}]
        BY <2>1, TableFields DEF TableInv
    <2>3. Listed(table) = Routes!Shown(table.facetOf)
        BY <2>1, LoupeShows
    <2> QED
        BY <2>2, <2>3 DEF Routes!Init, Listed
<1>2. Consistent /\ [Next]_vars =>
          [Routes!Next]_<<table.facetOf,
              [f \in Facets |->
                 IF f \in Range(table.facetAddresses) THEN Range(table.selectorsOf[f]) ELSE {}]>>
    BY StepIsRouting DEF Consistent
<1> QED
    BY <1>1, <1>2, InitConsistent, NextConsistent, PTL DEF Spec, ImplementsRouteTable, Routes!Spec
=============================================================================
