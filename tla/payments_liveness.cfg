SPECIFICATION FairSpec
CONSTANTS
  first = first
  second = second
  NoUser = NoUser
  NoInvoice = NoInvoice
  Users = {alice, bob}
  Amounts = {100, 250}
  Crypto = {inv}
  Stars = {charge}
  Platega = {}
  Gateways = {"cryptopay", "stars"}
  Slots = {first}
  MaxCrashes = 1
  FsmExpires = TRUE
PROPERTIES
  CreditsOnce
  CryptoPaidIsCredited
