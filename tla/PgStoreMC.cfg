\* Two documents, three callers with any sets of paths, who keep coming back.
SPECIFICATION FairSpec
CONSTANTS
  Paths = {1, 2}
  Data = {a}
  NoData = NoData
  Txns = {t1, t2, t3}
  NoTxn = NoTxn
  MaxTries = 2
INVARIANT SomeoneCanMove
PROPERTY ImplementsDocumentStore
PROPERTY CallEnds
