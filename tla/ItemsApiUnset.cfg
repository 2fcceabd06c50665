CONSTANTS
  Unset = Unset
  DefaultStatus = Unset
  MaxMiddleware = 2
  MaxRequests = 3
  MaxId = 3
  Asked <- SomeRequests
SPECIFICATION Spec
INVARIANTS
  MiddlewareDecides
\* All requests are used up and the server has come to rest.
CHECK_DEADLOCK FALSE
