CONSTANTS
  Unset = Unset
  DefaultStatus = 200
  MaxMiddleware = 2
  MaxRequests = 3
  MaxId = 3
  Asked <- SomeRequests
SPECIFICATION FairSpec
INVARIANTS
  MiddlewareDecides
  AnswersExact
PROPERTIES
  EveryRequestAnswered
\* All requests are used up and the server has come to rest.
CHECK_DEADLOCK FALSE
