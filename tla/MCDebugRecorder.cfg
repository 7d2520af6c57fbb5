CONSTANTS
  bulk1 = bulk1
  single = single
  w1 = w1
  w2 = w2
  Nil = Nil
  Request = {bulk1, single}
  Worker = {w1, w2}
  Bulk = {bulk1}
  CallType = {"get_account", "get_multiple_accounts"}
  Key = {"groups", "reasons"}
  MaxCalls = 1
SPECIFICATION Spec
INVARIANTS
  SnapshotConsistent
  ItemCoversOwnCalls
  ReportComplete
  FreshReport
PROPERTY EveryoneReads
