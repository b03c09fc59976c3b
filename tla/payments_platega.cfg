SPECIFICATION FairSpec
CONSTANTS
  first = first
  second = second
  NoUser = NoUser
  NoInvoice = NoInvoice
  Users = {alice}
  Amounts = {100}
  Crypto = {}
  Stars = {}
  Platega = {txn}
  Gateways = {"platega"}
  Slots = {first}
  MaxCrashes = 0
  FsmExpires = TRUE
PROPERTIES
  PlategaPaidIsCredited
