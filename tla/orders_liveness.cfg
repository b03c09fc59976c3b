SPECIFICATION FairSpec
CONSTANTS
  alice = alice
  bob = bob
  key = key
  stars = stars
  NoUser = NoUser
  NoProvider = NoProvider
  Users = {alice, bob}
  Referrer <- MCReferrer
  ReferralPercent = 0
  Funds <- MCFunds
  Totals = {10}
  StockGoods = {key}
  InfiniteGoods = {}
  ApiGoods = {stars}
  GiftGoods = {stars}
  Units = 0
  Providers = {1}
  MaxOrders = 2
  MaxRetries = 2
  BatchSize = 1
  MaxExt = 1
  MaxCrashes = 1
PROPERTIES
  ApiOrdersSettle
