---------------------------- MODULE MCAuditChain ----------------------------
\* A small instance of AuditChain: four calls of record(), three of two tenants
\* and one made outside a tenant scope.
EXTENDS AuditView

CONSTANTS q1, q2, q3, q4, acme, globex

MCRequest == {q1, q2, q3, q4}
MCCustomer == {acme, globex}
MCScope == [q \in MCRequest |-> CASE q = q1 -> acme
                                  [] q = q2 -> globex
                                  [] q = q3 -> acme
                                  [] q = q4 -> Unbound]
MCRecordId == 1 .. 3
=============================================================================
