----------------------------- MODULE RouteTable -----------------------------
(***************************************************************************)
(* What a diamond promises of its selectors: each leads to one facet or to *)
(* none, a cut changes exactly the selectors it names, and what the loupe  *)
(* shows of every facet are the selectors that lead to it.                 *)
(***************************************************************************)
CONSTANTS Selectors, Facets, NoFacet

VARIABLES
    route,  \* the facet each selector leads to
    loupe   \* the selectors that are shown of each facet

Shown(r) == [f \in Facets |-> {s \in Selectors : r[s] = f}]

Init ==
    /\ route \in [Selectors -> Facets \cup {NoFacet}]
    /\ loupe = Shown(route)

Lead(selectors, f) ==
    /\ route' = [s \in Selectors |-> IF s \in selectors THEN f ELSE route[s]]
    /\ loupe' = Shown(route')

Free == {s \in Selectors : route[s] = NoFacet}

Add(f) == \E selectors \in (SUBSET Free) \ {{}} : Lead(selectors, f)

Replace(f) ==
    \E selectors \in (SUBSET {s \in Selectors \ Free : route[s] # f}) \ {{}} : Lead(selectors, f)

Remove == \E selectors \in (SUBSET (Selectors \ Free)) \ {{}} : Lead(selectors, NoFacet)

Next == Remove \/ \E f \in Facets : Add(f) \/ Replace(f)

Spec == Init /\ [][Next]_<<route, loupe>>
=============================================================================
