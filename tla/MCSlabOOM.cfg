SPECIFICATION Spec
CONSTANTS
  CPUs = {c1}
  Chunks = {s1, s2, s3}
  BlockOrders = {6, 7}
  Total <- MCTotal
  NULL = NULL
INVARIANT OOMMeansFull
