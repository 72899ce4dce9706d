SPECIFICATION Spec
CONSTANTS
  Kid = {k1, k2, k3}
  TTL = 3
INVARIANTS
  JwksTypeOK
  PublishedKeyIsKnown
  RetiredKeyIsForgotten
