SPECIFICATION Spec
CONSTANTS
  Kinds = {"call", "foreign"}
  Sizes <- ShortOnly
  Chunk = 2
  MaxRequest = 6
  Window = 1
  MaxRequests = 2
INVARIANT FollowUpIntact
