----------------------------- MODULE AuditChain -----------------------------
(***************************************************************************)
(* The audit log: AuditWriter.record and verify_chain (audit/writer.py)    *)
(* over the two backends, InMemoryAuditBackend and PostgresAuditBackend.   *)
(*                                                                         *)
(* record() runs on the gateway's event-loop thread without an await: it   *)
(* blocks that thread on the answers of a dedicated database loop, so one  *)
(* call at a time holds the thread (variable loop), but the calls it makes *)
(* to PostgreSQL are steps of another machine and may fail between them.   *)
(*                                                                         *)
(* Abstractions.  A digest is the value it is taken of (sha256 and HMAC    *)
(* have no collisions and only the writer can sign).  The body of a record *)
(* keeps the fields the chain tells apart; occurred_at, event_type, nonce  *)
(* and ciphertext go with record_id, which is unique as a uuid4 is.        *)
(* created_at is the row's DEFAULT now() in PostgreSQL and its list        *)
(* position in memory: both are what the rows are read back in order of.   *)
(***************************************************************************)
EXTENDS Naturals, FiniteSets

CONSTANTS Request,       \* the calls of record(), each made once
          Customer,      \* tenants
          Scope,         \* Scope[q]: the customer bound in q's context, or Unbound
          Unbound,       \* no customer is bound
          RecordId,      \* uuid4 values, compared as text by ORDER BY
          Backend,       \* "memory" or "postgres"
          Faults,        \* what may go wrong, a subset of FaultKinds
          MaxTampers,    \* bound: rows inserted, altered or deleted behind the writer
          None           \* no request, no cached hash

FaultKinds == {"db_error",     \* a statement fails and has no effect
               "lost_ack",     \* an INSERT commits, its answer does not arrive
               "crash",        \* the gateway process dies, or stops, and is restarted
               "tamper"}       \* a row is inserted, altered or deleted in the database

ASSUME ConstantsAssumption ==
  /\ RecordId \subseteq Nat
  /\ Scope \in [Request -> Customer \cup {Unbound}]
  /\ Unbound \notin Customer
  /\ None \notin Request
  /\ Backend \in {"memory", "postgres"}
  /\ Faults \subseteq FaultKinds
  /\ MaxTampers \in Nat

VARIABLES table,      \* the rows of audit_log (or of the in-memory list)
          cached,     \* _cached_latest of the running process
          loop,       \* the request whose record() holds the event-loop thread
          step,       \* step[q]: how far record() has got for q
          body,       \* body[q]: the record body built for q
          prev,       \* prev[q]: the prev_hash q's record will carry
          clock,      \* the database clock: later than every created_at
          written,    \* history: every row the writer committed
          astray,     \* history: the times at which the writer takes another row
                      \* than the last it committed for the head of the chain
          tampers     \* number of tampering steps so far

vars == <<table, cached, loop, step, body, prev, clock, written, astray, tampers>>

Body == [record_id: RecordId, customer_id: Customer, request_id: Request]

\* sha256 of the canonical body: prev_hash is not part of it.
Sha256(b) == <<b.record_id, b.customer_id, b.request_id>>
Digest == RecordId \X Customer \X Request
GENESIS_HASH == <<>>
ChainHash == Digest \cup {GENESIS_HASH}

\* HMAC under the tamper-evidence key: only the writer computes it.
Hmac(content_hash, prev_hash) == <<content_hash, prev_hash>>

Row == [record_id: RecordId, customer_id: Customer, request_id: Request,
        content_hash: Digest, prev_hash: ChainHash,
        hmac_signature: Digest \X ChainHash, created_at: Nat]

Steps == {"pending", "built", "linked", "committed", "ok", "raised", "lost"}

\* Python's None is neither a record nor a digest.
ASSUME NoneAssumption == None \notin Body \cup ChainHash

-----------------------------------------------------------------------------
\* ORDER BY created_at, record_id
Before(r, s) == \/ r.created_at < s.created_at
                \/ r.created_at = s.created_at /\ r.record_id < s.record_id

Latest(rows, r) == r \in rows /\ \A s \in rows : s = r \/ Before(s, r)

\* content_hash of the last row, or GENESIS_HASH of an empty log.
LatestHash(rows) ==
  IF rows = {} THEN GENESIS_HASH
  ELSE (CHOOSE r \in rows : Latest(rows, r)).content_hash

\* verify_chain reads the rows in order and checks, of each one, the link to
\* the row read just before it, the digest of its body and its signature.
Adjacent(rows, p, r) == /\ p \in rows
                        /\ Before(p, r)
                        /\ ~ \E s \in rows : Before(p, s) /\ Before(s, r)

LinkOk(rows, r) == \/ /\ r.prev_hash = GENESIS_HASH
                      /\ ~ \E s \in rows : Before(s, r)
                   \/ \E p \in rows : /\ Adjacent(rows, p, r)
                                      /\ r.prev_hash = p.content_hash

\* (Mutant first: the signature is not compared.)
verify_chain_unsigned(rows) ==
  \A r \in rows : LinkOk(rows, r) /\ r.content_hash = Sha256(r)

verify_chain(rows) ==
  \A r \in rows : /\ LinkOk(rows, r)
                  /\ r.content_hash = Sha256(r)
                  /\ r.hmac_signature = Hmac(r.content_hash, r.prev_hash)

-----------------------------------------------------------------------------
Init == /\ table = {}
        /\ cached = None
        /\ loop = None
        /\ step = [q \in Request |-> "pending"]
        /\ body = [q \in Request |-> None]
        /\ prev = [q \in Request |-> None]
        /\ clock = 0
        /\ written = {}
        /\ astray = {}
        /\ tampers = 0

\* A uuid4 is one that no record has, nor any row someone else made up.
UsedIds == {b.record_id : b \in table \cup {body[q] : q \in {p \in Request : body[p] # None}}}

\* record() ends, by returning or by raising, and frees the thread.
Leave(q, outcome) == /\ step' = [step EXCEPT ![q] = outcome]
                     /\ loop' = None

\* Mutant: require_customer is not called.
BeginUnscoped(q) ==
  /\ loop = None /\ step[q] = "pending"
  /\ \E id \in RecordId \ UsedIds :
       body' = [body EXCEPT ![q] = [record_id |-> id, customer_id |-> Scope[q],
                                    request_id |-> q]]
  /\ step' = [step EXCEPT ![q] = "built"]
  /\ loop' = q
  /\ UNCHANGED <<table, cached, prev, clock, written, astray, tampers>>

\* The pipeline calls record(): require_customer, then the body and its digest.
Begin(q) ==
  /\ loop = None /\ step[q] = "pending" /\ Scope[q] # Unbound
  /\ \E id \in RecordId \ UsedIds :
       body' = [body EXCEPT ![q] = [record_id |-> id, customer_id |-> Scope[q],
                                    request_id |-> q]]
  /\ step' = [step EXCEPT ![q] = "built"]
  /\ loop' = q
  /\ UNCHANGED <<table, cached, prev, clock, written, astray, tampers>>

\* MissingTenantScopeError: nothing is written for a call outside a scope.
NoScope(q) ==
  /\ loop = None /\ step[q] = "pending" /\ Scope[q] = Unbound
  /\ Leave(q, "raised")
  /\ UNCHANGED <<table, cached, body, prev, clock, written, astray, tampers>>

\* latest_hash(): memory reads its list; postgres answers from the cache, and
\* fills the cache by a SELECT when it is empty.
ReadLatest(q) ==
  /\ loop = q /\ step[q] = "built"
  /\ LET cachedHit == Backend = "postgres" /\ cached # None
         hash      == IF cachedHit THEN cached ELSE LatestHash(table)
     IN  /\ prev' = [prev EXCEPT ![q] = hash]
         /\ cached' = IF Backend = "postgres" THEN hash ELSE cached
         /\ astray' = IF cachedHit \/ hash = LatestHash(written) THEN astray
                      ELSE astray \cup {clock}
  /\ step' = [step EXCEPT ![q] = "linked"]
  /\ UNCHANGED <<table, loop, body, clock, written, tampers>>

\* The SELECT of an empty cache fails: record() raises before any INSERT.
ReadLatestFails(q) ==
  /\ "db_error" \in Faults /\ Backend = "postgres"
  /\ loop = q /\ step[q] = "built" /\ cached = None
  /\ Leave(q, "raised")
  /\ UNCHANGED <<table, cached, body, prev, clock, written, astray, tampers>>

\* The row that record() appends, as the database stamps it.
RowOf(q, now) ==
  [record_id      |-> body[q].record_id,
   customer_id    |-> body[q].customer_id,
   request_id     |-> body[q].request_id,
   content_hash   |-> Sha256(body[q]),
   prev_hash      |-> prev[q],
   hmac_signature |-> Hmac(Sha256(body[q]), prev[q]),
   created_at     |-> now]

\* The INSERT commits.  Two INSERTs are a round trip apart, so created_at grows
\* strictly (the database clock is not set back).
Commit(q) ==
  /\ loop = q /\ step[q] = "linked"
  /\ table' = table \cup {RowOf(q, clock)}
  /\ written' = written \cup {RowOf(q, clock)}
  /\ clock' = clock + 1
  /\ step' = [step EXCEPT ![q] = "committed"]
  /\ UNCHANGED <<cached, loop, body, prev, astray, tampers>>

\* Mutants: the cache is assigned whether the INSERT succeeded or not; the
\* failure is swallowed and record() returns.
InsertFailsCached(q) ==
  /\ "db_error" \in Faults /\ Backend = "postgres"
  /\ loop = q /\ step[q] = "linked"
  /\ cached' = Sha256(body[q])
  /\ Leave(q, "raised")
  /\ UNCHANGED <<table, body, prev, clock, written, astray, tampers>>

InsertFailsOpen(q) ==
  /\ "db_error" \in Faults /\ Backend = "postgres"
  /\ loop = q /\ step[q] = "linked"
  /\ Leave(q, "ok")
  /\ UNCHANGED <<table, cached, body, prev, clock, written, astray, tampers>>

\* The INSERT fails without effect: future.result() raises, record() with it.
InsertFails(q) ==
  /\ "db_error" \in Faults /\ Backend = "postgres"
  /\ loop = q /\ step[q] = "linked"
  /\ Leave(q, "raised")
  /\ UNCHANGED <<table, cached, body, prev, clock, written, astray, tampers>>

\* append() learns of the commit, updates the cache and record() returns.
Ack(q) ==
  /\ loop = q /\ step[q] = "committed"
  /\ cached' = IF Backend = "postgres" THEN Sha256(body[q]) ELSE cached
  /\ Leave(q, "ok")
  /\ UNCHANGED <<table, body, prev, clock, written, astray, tampers>>

\* The connection breaks after the commit: future.result() raises, and the
\* assignment of _cached_latest behind it is not reached.
LostAck(q) ==
  /\ "lost_ack" \in Faults /\ Backend = "postgres"
  /\ loop = q /\ step[q] = "committed"
  /\ Leave(q, "raised")
  /\ astray' = astray \cup {clock}
  /\ UNCHANGED <<table, cached, body, prev, clock, written, tampers>>

\* The process stops, inside record() or between two calls, and is restarted: a
\* call in progress is lost, the cache is empty, and an in-memory log starts
\* again from nothing.
Crash ==
  /\ "crash" \in Faults
  /\ step' = [q \in Request |-> IF q = loop THEN "lost" ELSE step[q]]
  /\ loop' = None
  /\ cached' = None
  /\ astray' = astray \ {clock}
  /\ IF Backend = "memory" THEN table' = {} /\ written' = {}
                           ELSE UNCHANGED <<table, written>>
  /\ UNCHANGED <<body, prev, clock, tampers>>

\* What someone with access to the table, not to the keys, makes of a row: one
\* column is written over, and the digest is recomputed or not.  A signature is
\* one the writer made, for no other is ever accepted, and the uuid4 of a record
\* that is not in the table yet cannot be guessed.
Unguessed == {body[q].record_id : q \in {p \in Request : step[p] \in {"built", "linked"}}}

Edited(r) ==
       {[r EXCEPT !.created_at = t] : t \in 0 .. clock}
  \cup {[r EXCEPT !.record_id = id] : id \in RecordId \ Unguessed}
  \cup {[r EXCEPT !.customer_id = c] : c \in Customer}
  \cup {[r EXCEPT !.request_id = q] : q \in Request}
  \cup {[r EXCEPT !.prev_hash = h] : h \in {w.content_hash : w \in written} \cup {GENESIS_HASH}}
  \cup {[r EXCEPT !.hmac_signature = g] : g \in {w.hmac_signature : w \in written}}

Altered(r) == Edited(r) \cup {[s EXCEPT !.content_hash = Sha256(s)] : s \in Edited(r)}

\* Rows are deleted, altered, and inserted: put back, copied or made up from rows
\* that are or were in the table.  record_id is the primary key.
Tamper ==
  /\ "tamper" \in Faults /\ Backend = "postgres" /\ tampers < MaxTampers
  /\ \/ \E r \in table : table' = table \ {r}
     \/ \E r \in table : \E s \in Altered(r) :
          /\ \A x \in table \ {r} : x.record_id # s.record_id
          /\ table' = (table \ {r}) \cup {s}
     \/ \E w \in written : \E s \in Altered(w) :
          /\ \A x \in table : x.record_id # s.record_id
          /\ table' = table \cup {s}
  /\ tampers' = tampers + 1
  /\ UNCHANGED <<cached, loop, step, body, prev, clock, written, astray>>

\* Every call of record() has ended.
Done == /\ loop = None
        /\ \A q \in Request : step[q] \in {"ok", "raised", "lost"}
        /\ UNCHANGED vars

RecordStep(q) == \/ Begin(q) \/ NoScope(q)
                 \/ ReadLatest(q) \/ ReadLatestFails(q)
                 \/ Commit(q) \/ InsertFails(q)
                 \/ Ack(q) \/ LostAck(q)

Next == (\E q \in Request : RecordStep(q)) \/ Crash \/ Tamper \/ Done

Spec == Init /\ [][Next]_vars

-----------------------------------------------------------------------------
\* Type correctness of the log, of the cache and of the calls in progress.
TypeOK ==
  /\ table \subseteq Row /\ written \subseteq Row
  /\ cached \in ChainHash \cup {None}
  /\ loop \in Request \cup {None}
  /\ step \in [Request -> Steps]
  /\ body \in [Request -> Body \cup {None}]
  /\ prev \in [Request -> ChainHash \cup {None}]
  /\ clock \in Nat /\ astray \subseteq Nat /\ tampers \in 0 .. MaxTampers

\* verify_chain accepts the log in every state: an AuditChainBroken is never
\* raised by the gateway's own behaviour (audit/postgres_backend.py: "the chain
\* ordering correct").
ChainVerifies == verify_chain(table)

\* The calls of record() that raised although their row is in the log.
Unacknowledged == {q \in Request : step[q] = "raised" /\ \E r \in table : r.request_id = q}

\* Failed statements and restarts never break the chain, not even between the
\* commit of a row and its acknowledgement: verify_chain accepts a log nobody
\* tampered with as long as no call raised whose row was committed all the same.
BrokenOnlyByLostAck == tampers = 0 /\ Unacknowledged = {} => verify_chain(table)

\* Audit writes block: record() returns to the pipeline only for a request
\* that has its row, and no request ever has two (a retry, a restart or a
\* late commit never duplicates one), but by tampering.
AckedOnce ==
  tampers = 0 =>
    \A q \in Request :
      LET rows == {r \in table : r.request_id = q}
      IN  /\ step[q] = "ok" => rows # {}
          /\ \A r, s \in rows : r = s

\* Tamper evidence: a log verify_chain accepts is made of rows the writer
\* committed, none altered in anything but its time, and lacks none that was
\* committed before one of them and is not cut off from it by a record the
\* writer linked to another row than its last.  It does so after a restart over a
\* log whose end was changed while it was down or before, and after a lost
\* acknowledgement.  The code anchors no chain head: rows cut off at the end are
\* not noticed, and a restart over such a log makes that final.
TamperEvident ==
  verify_chain(table) =>
    /\ \A r \in table : \E w \in written :
         r.content_hash = w.content_hash /\ r.prev_hash = w.prev_hash
           /\ Sha256(r) = Sha256(w)
    /\ \A r \in table, v, w \in written :
         /\ r.content_hash = v.content_hash
         /\ w.created_at < v.created_at
         /\ \A m \in astray : m <= w.created_at \/ v.created_at < m
         => \E s \in table : s.content_hash = w.content_hash /\ Before(s, r)
=============================================================================
