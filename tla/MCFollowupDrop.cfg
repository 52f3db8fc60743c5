SPECIFICATION Spec
CONSTANTS
  m1 = m1  m2 = m2  m3 = m3  m4 = m4
  chatA = chatA  chatB = chatB  nowhere = nowhere
  Messages = {m1, m2, m3, m4}
  RouteOf <- MCRouteOf
  Unroutable = nowhere
  Modes = {"collect", "followup"}
  Policy = "summarize"
  Cap = 2
  MayClear = TRUE
  MaxQueues = 2
INVARIANT HandledOnce
PROPERTY ClearedStaysCleared
