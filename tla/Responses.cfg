CONSTANTS
  Methods = {"GET", "HEAD"}
  Responses <- AnyResponse
  Policies <- SomePolicies
  NoPolicy = NoPolicy
  Origins = {"here", "NoOrigin"}
  NoOrigin = "NoOrigin"
  MaxRequests = 2
SPECIFICATION Spec
INVARIANTS
  TypeOK
  ResponsesDelimited
  CloseIsAnnounced
