SPECIFICATION Spec
CONSTANTS
  first = first
  second = second
  NoUser = NoUser
  NoInvoice = NoInvoice
  Users = {alice}
  Amounts = {100, 250}
  Crypto = {inv}
  Stars = {}
  Platega = {txn}
  Gateways = {"cryptopay", "platega"}
  Slots = {first, second}
  MaxCrashes = 1
  FsmExpires = TRUE
SYMMETRY SlotSymmetry
INVARIANTS
  TypeOK
  CreditedAsPaid
