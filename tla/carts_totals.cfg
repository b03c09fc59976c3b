SPECIFICATION Spec
CONSTANTS
  half = half
  gift = gift
  key = key
  mug = mug
  NoUser = NoUser
  NoCode = NoCode
  NoGoods = NoGoods
  Users = {alice}
  Funds = 6
  Goods = {key, mug}
  InfiniteGoods = {key, mug}
  ApiGoods = {}
  Units = 0
  Prices = {4, 7}
  SalePercent = 50
  Promos = {half, gift}
  Terms <- TermsFixed
  CartMaxItems = 2
  CartMaxQty = 1
  StartCarts <- Various
  Slots = {}
  MaxEdits = 1
INVARIANTS
  OneLinePerUse
  TotalsAgree
PROPERTIES
  AgreedWhileKept
