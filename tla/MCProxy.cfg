CONSTANTS
  Request = {q1, q2}
  ClientHeaders <- SomeHeaders
  Configs <- SomeConfigs
  none = none
  malformed = malformed
SPECIFICATION FairSpec
INVARIANTS
  ForwardedToEndpoint
  SignatureHolds
PROPERTIES
  CloseEndsProxy
CHECK_DEADLOCK FALSE
