\* Connections of one address, endpoints that come and go, and a reload.
SPECIFICATION Spec
CONSTANTS
  Paths = {"a", "b"}
  NoPath = "none"
  Dests = {"h1", "h2"}
  StickyDests = {"h1"}
  Conns = {c1}
  IpOf <- OneIp
  Layouts <- MCLayouts
  InitLayout <- Both
  MaxTables = 2
  MaxStamp = 2
  MaxFlips = 1
  MaxDrops = 1
INVARIANTS CountsExact AcceptingSlotFound
PROPERTIES MarksKept HealthSettles
CHECK_DEADLOCK FALSE
