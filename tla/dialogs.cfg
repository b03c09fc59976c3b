SPECIFICATION DialogsSpec
CONSTANTS
  u1 = u1
  u2 = u2
  o1 = o1
  o2 = o2
  i1 = i1
  i2 = i2
  i3 = i3
  People = {owner, alice, bob}
  Owner = owner
  Manager = alice
  Bits = {5, 6}
  AdminsManage = 5
  RoleIds = {1, 2, 3, 4}
  Names = {nUser, nSuper, nOwner, nCustom}
  UserName = nUser
  SuperName = nSuper
  LegacyName = nOwner
  CustomName = nCustom
  MaxWork = 3
  Unregistered = Unregistered
  NoRoleId = NoRoleId
  NoRow = NoRow
  NoDialog = NoDialog
  NoTask = NoTask
  Customers = {u1, u2}
  TicketIds = {1, 2}
  ShopOrders = {o1, o2}
  OrderOwner <- OwnerOf
  Sessions = {s1, s2}
  MaxDeskSteps = 4
  NoTicket = NoTicket
  NoSession = NoSession
  NoOrder = NoOrder
  Shelf <- ShelfOfThree
  Found <- FoundTwo
  GiftItems = {i2}
  Recipients = {r}
  PerPage = 2
  Presses = {p1}
  MaxTaps = 6
  NoItem = NoItem
  NoOne = NoOne
  NoPurchase = NoPurchase
  Tables = {t1, t2}
  MaxRows = 3
  PageSize = 2
  CountTtl = 2
  NoCount = NoCount
  Editors = {ea, eb}
  Ids = {1, 2}
  PositionNames = {n1, n2}
  CategoryIds = {1}
  CategoryNames = {c1, c2}
  MaxDialogs = 3
  MaxBuys = 1
  NoPosition = NoPosition
  NoName = NoName
  NoEdit = NoEdit
  NoBuy = NoBuy
CHECK_DEADLOCK FALSE
INVARIANTS
  DialogsTypeOK
  NoEscalation
  RolesStand
  TicketQueueIsTrue
  BrowsingButtonsWork
  SessionIsHonest
  PagesSettle
  HistoryFollowsName
PROPERTIES
  RowsOpenTheirItem
