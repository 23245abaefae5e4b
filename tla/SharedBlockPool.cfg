SPECIFICATION Spec
CONSTANTS
  MaxPages = 3
  Hashes = {k1, k2}
  NoHash = NoHash
  Handles = {h1, h2, h3, h4}
INVARIANTS
  FreeListExact
  RefsCountHolders
  HashTableExact
PROPERTY
  ImplementsPageLease
