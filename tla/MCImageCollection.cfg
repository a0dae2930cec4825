CONSTANTS
  Tags <- MCTags
  Digests = {d1, d2}
  Nodes = {n1}
  Limits <- MCLimits
  MaxListed = 3
  MaxAdded = 1
  NoDigest = NoDigest
  Policies <- MCPolicies
  Now = 15
SPECIFICATION ManagerSpec
SYMMETRY DigestSymmetry
INVARIANTS
  CollectionConsistent
  PruneExact
  SelectionsExact
PROPERTY StepsExact
CHECK_DEADLOCK FALSE
