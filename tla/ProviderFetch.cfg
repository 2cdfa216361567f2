SPECIFICATION Spec
CONSTANTS
  Limit = 2
  Window = 3
  MaxPage = 4
  Attempts = 2
  Together = 2
  Listed = {1, 2, 3}
  Unlisted = 4
  Stocks <- TheStocks
  Shops <- TheShops
  MaxExpand = 6
  Late <- TheLate
  MaxLies = 1
  MaxBreaks = 1
  MaxMoves = 1
INVARIANTS ShortIsKnown DisjointSlices OnePrincipal
PROPERTY FetchEnds
CHECK_DEADLOCK FALSE
