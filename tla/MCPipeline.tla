----------------------------- MODULE MCPipeline -----------------------------
\* A small instance of Pipeline: two requests, of two tenants in strict mode,
\* of a tenant and a stranger in audit-only mode, and of a tenant and a customer
\* with a broken record in fallback mode; one entity per regular detector.
EXTENDS Pipeline

CONSTANTS q1, q2, acme, globex, broken, phone, person

MCRequest == {q1, q2}
MCCustomer == {acme, globex, broken}
MCBadPlan == {broken}
MCEntity == {phone, person}
MCGiven(m, other) == [mode |-> m,
                      caller |-> [q \in MCRequest |-> IF q = q1 THEN acme ELSE other]]
MCSetting == {MCGiven("strict", globex), MCGiven("audit_only", NoCustomer),
              MCGiven("fallback", broken)}
MCFinds == [d \in Detector |-> CASE d = "structural" -> {phone}
                                 [] d = "ner" -> {person}
                                 [] d = "contextual" -> {person}]
MCInput == {[messages |-> {phone, person}, fields |-> {phone}]}
=============================================================================
