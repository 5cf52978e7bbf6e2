SPECIFICATION Spec
CONSTANTS
  q1 = q1
  q2 = q2
  acme = acme
  globex = globex
  broken = broken
  phone = phone
  person = person
  NoCustomer = NoCustomer
  Request <- MCRequest
  Customer <- MCCustomer
  BadPlan <- MCBadPlan
  Entity <- MCEntity
  Input <- MCInput
  Finds <- MCFinds
  Setting <- MCSetting
INVARIANTS FailureModesAsTabulated
