SPECIFICATION FairSpec
CONSTANTS
  Nodes = {n1, n2, n3}
  NULL = NULL
  k1 = k1
  k2 = k2
  k3 = k3
  Keys <- MCKeys
  Values = {v1, v2}
  LongKeys = {k1, k3}
  HashSize = 2
  HtHash <- MCHtHash
INVARIANTS
  TypeOK
  Linked
  EveryEntryListed
PROPERTIES
  ImplementsEntryTable
  CallsEndUnlessSpinning
