SPECIFICATION Spec
CONSTANTS
    cut = cut
    mint = mint
    pause = pause
    burn = burn
    cutFacet = cutFacet
    supplyFacet = supplyFacet
    tokenFacet = tokenFacet
    self = self
    nobody = nobody
    market = market
    amm = amm
    vote = vote
    Selectors = {cut, mint, burn, pause}
    CutSelector = cut
    Facets = {cutFacet, supplyFacet, tokenFacet, self}
    CutFacet = cutFacet
    Self = self
    NoFacet = nobody
    MaxPerCut = 2
    Plugins = {market, amm, vote}
    MAX_GLOBAL_PLUGINS = 2
SYMMETRY Symmetry
INVARIANTS
    TypeOK
    PositionsAgree
    PluginIndexAgrees
PROPERTIES
    StatusIsKept
    ImplementsRouteTable
