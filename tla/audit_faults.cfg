SPECIFICATION Spec
CONSTANTS
  q1 = q1
  q2 = q2
  q3 = q3
  q4 = q4
  acme = acme
  globex = globex
  Unbound = Unbound
  None = None
  ViewLimit = 1
  Request <- MCRequest
  Customer <- MCCustomer
  Scope <- MCScope
  RecordId <- MCRecordId
  Backend = "postgres"
  Faults = {"db_error", "lost_ack", "crash", "tamper"}
  MaxTampers = 1
INVARIANTS TypeOK BrokenOnlyByLostAck AckedOnce TamperEvident ShowsOwnRecords
