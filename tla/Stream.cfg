SPECIFICATION FairSpec
CONSTANTS
  Kinds = {"call", "foreign", "junk"}
  Sizes <- AnyLength
  Chunk = 3
  MaxRequest = 4
  Window = 1
  MaxRequests = 3
INVARIANTS TypeOK NothingLeftWaiting BufferBounded OversizeOnlyNearLimit
  CleanMeansAnswered
PROPERTIES ImplementsPipeline EveryRequestAnswered
