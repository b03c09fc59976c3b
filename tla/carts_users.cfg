SPECIFICATION Spec
CONSTANTS
  half = half
  gift = gift
  key = key
  mug = mug
  NoUser = NoUser
  NoCode = NoCode
  NoGoods = NoGoods
  Users = {alice, bob}
  Funds = 5
  Goods = {key}
  InfiniteGoods = {}
  ApiGoods = {}
  Units = 2
  Prices = {7}
  SalePercent = 50
  Promos = {half, gift}
  Terms <- TermsGift
  CartMaxItems = 1
  CartMaxQty = 1
  StartCarts <- Full
  Slots = {}
  MaxEdits = 1
SYMMETRY Symmetric
INVARIANTS
  TypeOK
  PromoLimits
  UnitsSoldOnce
