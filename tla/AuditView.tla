----------------------------- MODULE AuditView -----------------------------
(***************************************************************************)
(* The dashboard's pages over the audit log (dashboard/routes.py: activity *)
(* and audit_view): a customer's records, newest first, up to a limit.     *)
(***************************************************************************)
EXTENDS AuditChain, Lists, SequencesExt

CONSTANT ViewLimit       \* 50 records of activity, 200 of the audit page

ASSUME ViewLimitAssumption == ViewLimit \in Nat \ {0}

\* backend.all(): every tenant's rows, oldest first.
_audit_records == InOrder(table, {p \in table \X table : Before(p[1], p[2])})

OfCustomer(records, c) == At(records, {i \in DOMAIN records : records[i].customer_id = c})

\* records[-ViewLimit:][::-1]
Newest(records) ==
  Reverse(SubSeq(records, IF Len(records) > ViewLimit THEN Len(records) - ViewLimit + 1 ELSE 1,
                 Len(records)))

\* Mutant: the limit is applied before the customer's records are selected.
LimitFirst(c) == OfCustomer(Newest(_audit_records), c)

audit_view(c) == Newest(OfCustomer(_audit_records, c))

\* What a customer sees: the record of each of its calls that returned, unless
\* as many newer records of its own as the page holds hide it.  Other tenants'
\* records are neither shown nor push any out, and no failure, restart or late
\* answer in between loses one.
ShowsOwnRecords ==
  tampers = 0 =>
    \A c \in Customer :
      LET shown == ToSet(audit_view(c))
          own   == {r \in table : r.customer_id = c}
      IN  /\ shown \subseteq own
          /\ \A q \in Request : step[q] = "ok" /\ Scope[q] = c =>
               \/ \E r \in shown : r.request_id = q
               \/ /\ Cardinality(shown) = ViewLimit
                  /\ \A r \in shown : \A s \in own : s.request_id = q => Before(s, r)
=============================================================================
