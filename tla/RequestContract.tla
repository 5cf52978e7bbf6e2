--------------------------- MODULE RequestContract ---------------------------
(***************************************************************************)
(* What the gateway promises of one chat request, without saying how: the  *)
(* originals it replaced are kept in memory exactly while the sanitised    *)
(* request is away at the upstream provider, and an answer is given to the *)
(* caller only after the request was entered in the audit log.             *)
(***************************************************************************)
CONSTANT Request

VARIABLES st,       \* st[q]: received, forwarded, answered or failed
          held,     \* the requests whose originals are in memory
          logged    \* the requests entered in the audit log

vars == <<st, held, logged>>

Init == /\ st = [q \in Request |-> "received"]
        /\ held = {}
        /\ logged = {}

\* The request ends before anything was sent: refused, or a detector failed.
Refuse(q) == /\ st[q] = "received"
             /\ st' = [st EXCEPT ![q] = "failed"]
             /\ UNCHANGED <<held, logged>>

Forward(q) == /\ st[q] = "received"
              /\ st' = [st EXCEPT ![q] = "forwarded"]
              /\ held' = held \cup {q}
              /\ UNCHANGED logged

Answer(q) == /\ st[q] = "forwarded"
             /\ st' = [st EXCEPT ![q] = "answered"]
             /\ held' = held \ {q}
             /\ logged' = logged \cup {q}

\* The request ends without an answer; its audit record may have been written.
Fail(q) == /\ st[q] = "forwarded"
           /\ st' = [st EXCEPT ![q] = "failed"]
           /\ held' = held \ {q}
           /\ logged' \in {logged, logged \cup {q}}

Next == \E q \in Request : Refuse(q) \/ Forward(q) \/ Answer(q) \/ Fail(q)

Spec == Init /\ [][Next]_vars
=============================================================================
