SPECIFICATION Spec
CONSTANTS
  half = half
  gift = gift
  key = key
  mug = mug
  NoUser = NoUser
  NoCode = NoCode
  NoGoods = NoGoods
  Users = {alice}
  Funds = 5
  Goods = {key}
  InfiniteGoods = {}
  ApiGoods = {}
  Units = 2
  Prices = {5}
  SalePercent = 30
  Promos = {half}
  Terms <- TermsHalf
  CartMaxItems = 1
  CartMaxQty = 2
  StartCarts <- Empty
  Slots = {first, second}
  MaxEdits = 1
SYMMETRY Symmetric
INVARIANTS
  LedgerBalances
  LinesHaveGoods
