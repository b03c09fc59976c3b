SPECIFICATION Spec
CONSTANTS
  alice = alice
  bob = bob
  key = key
  stars = stars
  NoUser = NoUser
  NoProvider = NoProvider
  Users = {alice, bob}
  Referrer <- MCReferrer
  ReferralPercent = 50
  Funds <- MCFunds
  Totals = {10}
  StockGoods = {key}
  InfiniteGoods = {}
  ApiGoods = {stars}
  GiftGoods = {stars}
  Units = 1
  Providers = {1}
  MaxOrders = 2
  MaxRetries = 2
  BatchSize = 1
  MaxExt = 2
  MaxCrashes = 1
INVARIANTS
  TypeOK
  Settled
  BooksBalance
  SentOnce
PROPERTIES
  KeepsTheBook
  PlacedNoMore
