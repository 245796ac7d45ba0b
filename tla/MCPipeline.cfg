\* Ten plans of two to five operators over channels of one batch.
CONSTANTS
  Plans <- MCPlans
  ChannelCapacity = 1
  MemoryLimit = 8
SPECIFICATION Spec
INVARIANTS ResultExact PromptCancellation MemoryReturned
PROPERTIES EverythingEnds
