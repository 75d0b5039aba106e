SPECIFICATION Spec
CONSTANTS
  W = 8
  INDEX_BITS = 2
INVARIANTS
  TaggedPointersRoundTrip
