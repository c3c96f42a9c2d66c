SPECIFICATION Spec
CONSTANTS
  Requests = {r1, r2, r3, r4}
  Kinds <- OrderedKinds
INVARIANT NoCircularWait
