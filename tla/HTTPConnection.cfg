CONSTANTS
  RouteMethods = {get}
  RequestMethods = {get, post}
  AnyMethod = any
  Texts = {a, empty}
  Empty = empty
  MaxDepth = 2
  MaxRoutes = 3
  None = None
  MaxRequestsPerConnection = 2
SPECIFICATION FairSpec
INVARIANTS WireInv RoutesByPriority CloseIsAnnounced
PROPERTY ConnectionEnds
CHECK_DEADLOCK FALSE
