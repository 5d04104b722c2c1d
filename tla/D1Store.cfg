\* Document 1 is permanent, document 2 may be deleted and created again.
SPECIFICATION FairSpec
CONSTANTS
  Paths = {1, 2}
  Data = {a, b}
  NoData = NoData
  Txns = {t1, t2}
  Permanent = {1}
  MaxConflicts = 2
  MaxTries = 3
  MaxVersion = 2
INVARIANT PermanentReadsCurrent
PROPERTY ImplementsDocumentStore
PROPERTY CallEnds
