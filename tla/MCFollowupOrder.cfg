SPECIFICATION FairSpec
CONSTANTS
  m1 = m1  m2 = m2  m3 = m3  m4 = m4
  chatA = chatA  chatB = chatB  nowhere = nowhere
  Messages = {m1, m2, m3}
  RouteOf <- MCRouteOf
  Unroutable = nowhere
  Modes = {"collect", "followup"}
  Policy = "new"
  Cap = 2
  MayClear = FALSE
  MaxQueues = 3
INVARIANT TypeOK
INVARIANT HandledInOrder
PROPERTY OwedMessagesHandled
