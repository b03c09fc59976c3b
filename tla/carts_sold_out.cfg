SPECIFICATION Spec
CONSTANTS
  half = half
  gift = gift
  key = key
  mug = mug
  NoUser = NoUser
  NoCode = NoCode
  NoGoods = NoGoods
  Users = {alice, bob}
  Funds = 30
  Goods = {key, mug}
  InfiniteGoods = {}
  ApiGoods = {}
  Units = 1
  Prices = {7}
  SalePercent = 50
  Promos = {}
  Terms <- TermsHalf
  CartMaxItems = 2
  CartMaxQty = 1
  StartCarts <- Empty
  Slots = {first}
  MaxEdits = 1
INVARIANTS
  UnchangedCartSells
