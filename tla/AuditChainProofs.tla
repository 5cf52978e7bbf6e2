-------------------------- MODULE AuditChainProofs --------------------------
(***************************************************************************)
(* What holds of the audit log for every set of requests, tenants and      *)
(* record ids, and any number of rows.                                     *)
(***************************************************************************)
EXTENDS AuditView, ListProofs

Busy == {"built", "linked", "committed"}

\* One record() at a time is in progress, and it holds the thread; what it has
\* computed so far is well formed.
CallInv ==
  /\ \A q \in Request : step[q] \in Busy <=> loop = q
  /\ \A q \in Request : step[q] \in Busy => body[q] \in Body /\ body[q].request_id = q
  /\ \A q \in Request : step[q] \in {"linked", "committed"} => prev[q] \in ChainHash

\* No two calls share a record id.
FreshInv == \A p, q \in Request :
  body[p] \in Body /\ body[q] \in Body /\ body[p].record_id = body[q].record_id => p = q

\* The rows are finitely many, and each has a record id of its own.
IdInv(rows) ==
  /\ IsFiniteSet(rows)
  /\ \A r, s \in rows : r.record_id = s.record_id => r = s

\* The record id of a committed row was made for a call that got as far as
\* inserting it; no row, whoever put it in the table, has that of a call that has
\* not.
MadeInv ==
  /\ \A w \in written : \E q \in Request :
       /\ body[q] \in Body /\ body[q].record_id = w.record_id
       /\ step[q] \notin {"pending", "built", "linked"}
  /\ \A r \in table : \A q \in Request :
       step[q] \in {"built", "linked"} => body[q].record_id # r.record_id

\* created_at tells the rows apart, and the clock is past them all.
OrderInv(rows) ==
  /\ \A r \in rows : r.created_at < clock
  /\ \A r, s \in rows : r.created_at = s.created_at => r = s

\* Who knows the hash of the last row, and when: the cache does except between
\* a commit and its acknowledgement, the call that is about to insert does,
\* and a committed call is itself the last row.
HeadInv(rows) ==
  /\ (Backend = "postgres" /\ cached # None
        /\ \A q \in Request : step[q] # "committed") => cached = LatestHash(rows)
  /\ \A q \in Request : step[q] = "linked" => prev[q] = LatestHash(rows)
  /\ \A q \in Request : step[q] = "committed" => LatestHash(rows) = Sha256(body[q])

\* A committed call has its row.
CommittedInv(rows) ==
  \A q \in Request : step[q] = "committed" => \E r \in rows : r.request_id = q

\* A call that has not committed has no row; one that returned has its row.
RowsInv ==
  /\ \A r \in table : step[r.request_id] \notin {"pending", "built", "linked"}
  /\ \A q \in Request : step[q] \in {"committed", "ok"} =>
       \E r \in table : r.request_id = q
  /\ \A r, s \in table : r.request_id = s.request_id => r = s

-----------------------------------------------------------------------------
\* The digest and the row that record() computes from a body are well formed.
LEMMA RowType ==
  ASSUME NEW q \in Request, NEW now \in Nat,
         body[q] \in Body, prev[q] \in ChainHash
  PROVE  RowOf(q, now) \in Row /\ Sha256(body[q]) \in Digest
BY DEF RowOf, Row, Body, Sha256, Digest, Hmac

\* Reading order is a strict order of the rows.
LEMMA BeforeStrict ==
  ASSUME NEW r \in Row, NEW s \in Row, NEW t \in Row
  PROVE  /\ ~ Before(r, r)
         /\ Before(r, s) => ~ Before(s, r)
         /\ Before(r, s) /\ Before(s, t) => Before(r, t)
         /\ r.record_id # s.record_id => Before(r, s) \/ Before(s, r)
<1>1. \A x \in {r, s, t} : x.created_at \in Nat /\ x.record_id \in Nat
  BY ConstantsAssumption DEF Row
<1> QED BY <1>1 DEF Before

\* However the rows were stamped, moved or deleted, a log that is not empty has
\* a last row.
LEMMA LatestExists ==
  ASSUME NEW rows \in SUBSET Row, IdInv(rows), rows # {}
  PROVE  \E r \in rows : Latest(rows, r)
<1> DEFINE R == {p \in Row \X Row : Before(p[1], p[2])}
<1>1. \A r, s \in rows : <<r, s>> \in R <=> Before(r, s)
  OBVIOUS
<1>2. ASSUME NEW r \in rows, NEW s \in rows, r # s PROVE <<r, s>> \in R \/ <<s, r>> \in R
  <2>1. r \in Row /\ s \in Row /\ r.record_id # s.record_id
    BY <1>2 DEF IdInv
  <2> QED BY <1>1, <2>1, BeforeStrict
<1>3. \A r, s, t \in rows : <<r, s>> \in R /\ <<s, t>> \in R => <<r, t>> \in R
  BY <1>1, BeforeStrict
<1> HIDE DEF R
<1>4. TotalOrder(rows, R) /\ IsFiniteSet(rows)
  BY <1>2, <1>3 DEF TotalOrder, IdInv
<1>5. PICK r : Greatest(rows, R, r)
  BY <1>4, FiniteGreatest
<1> QED BY <1>1, <1>5 DEF Greatest, Latest

\* Reading the latest hash of a log gives a hash.
LEMMA LatestHashType ==
  ASSUME NEW rows \in SUBSET Row, IdInv(rows)
  PROVE  LatestHash(rows) \in ChainHash
<1>1. CASE rows = {}
  BY <1>1 DEF LatestHash, ChainHash
<1>2. CASE rows # {}
  BY <1>2, LatestExists DEF LatestHash, Latest, ChainHash, Row
<1> QED BY <1>1, <1>2

\* The latest hash of a log with a known last row is that row's.
LEMMA LatestHashIs ==
  ASSUME NEW rows \in SUBSET Row, NEW r \in rows, Latest(rows, r)
  PROVE  LatestHash(rows) = r.content_hash
<1>1. ASSUME NEW s \in rows, Latest(rows, s) PROVE s = r
  <2>1. /\ r.created_at \in Nat /\ s.created_at \in Nat
        /\ r.record_id \in Nat /\ s.record_id \in Nat
    BY <1>1, ConstantsAssumption DEF Row
  <2>2. s = r \/ (Before(s, r) /\ Before(r, s))
    BY <1>1 DEF Latest
  <2> QED BY <2>1, <2>2 DEF Before
<1>2. (CHOOSE s \in rows : Latest(rows, s)) = r
  BY <1>1
<1> QED BY <1>2 DEF LatestHash

-----------------------------------------------------------------------------
TypeInv == TypeOK /\ CallInv /\ FreshInv /\ IdInv(table) /\ IdInv(written) /\ MadeInv

\* What someone makes of a row is of the row's type, has its record id or one
\* that no call is about to insert, and its signature or one the writer made.
LEMMA EditedType ==
  ASSUME TypeOK, NEW r \in Row, NEW s \in Edited(r)
  PROVE  /\ s \in Row
         /\ s.record_id = r.record_id \/ s.record_id \notin Unguessed
         /\ \/ s.hmac_signature = r.hmac_signature
            \/ \E w \in written : s.hmac_signature = w.hmac_signature
<1>0. clock \in Nat /\ written \subseteq Row
  BY DEF TypeOK
<1>1. CASE \E t \in 0 .. clock : s = [r EXCEPT !.created_at = t]
  BY <1>0, <1>1 DEF Row
<1>2. CASE \E id \in RecordId \ Unguessed : s = [r EXCEPT !.record_id = id]
  BY <1>0, <1>2 DEF Row
<1>3. CASE \E c \in Customer : s = [r EXCEPT !.customer_id = c]
  BY <1>0, <1>3 DEF Row
<1>4. CASE \E q \in Request : s = [r EXCEPT !.request_id = q]
  BY <1>0, <1>4 DEF Row
<1>5. CASE \E h \in {w.content_hash : w \in written} \cup {GENESIS_HASH} : s = [r EXCEPT !.prev_hash = h]
  <2>1. PICK h \in ChainHash : s = [r EXCEPT !.prev_hash = h]
    BY <1>0, <1>5 DEF Row, ChainHash
  <2> QED BY <2>1 DEF Row
<1>6. CASE \E g \in {w.hmac_signature : w \in written} : s = [r EXCEPT !.hmac_signature = g]
  <2>1. PICK w \in written : s = [r EXCEPT !.hmac_signature = w.hmac_signature]
    BY <1>6
  <2>2. w.hmac_signature \in Digest \X ChainHash
    BY <1>0 DEF Row
  <2> QED BY <2>1, <2>2 DEF Row
<1> QED BY <1>1, <1>2, <1>3, <1>4, <1>5, <1>6 DEF Edited

LEMMA AlteredType ==
  ASSUME TypeOK, NEW r \in Row, NEW s \in Altered(r)
  PROVE  /\ s \in Row
         /\ s.record_id = r.record_id \/ s.record_id \notin Unguessed
         /\ \/ s.hmac_signature = r.hmac_signature
            \/ \E w \in written : s.hmac_signature = w.hmac_signature
<1>1. CASE s \in Edited(r)
  BY <1>1, EditedType
<1>2. ASSUME NEW e \in Edited(r), s = [e EXCEPT !.content_hash = Sha256(e)]
      PROVE  s \in Row /\ s.record_id = e.record_id /\ s.hmac_signature = e.hmac_signature
  <2>1. e \in Row
    BY EditedType
  <2>2. Sha256(e) \in Digest
    BY <2>1 DEF Row, Sha256, Digest
  <2> QED BY <1>2, <2>1, <2>2 DEF Row
<1> QED BY <1>1, <1>2, EditedType DEF Altered

\* The record id of a row in the table, and of any row there was, is not that of
\* a call that is about to insert.
LEMMA IdsOut ==
  ASSUME CallInv, FreshInv, MadeInv, NEW r \in table \cup written
  PROVE  r.record_id \notin Unguessed
<1> SUFFICES ASSUME NEW q \in Request, step[q] \in {"built", "linked"},
                    body[q].record_id = r.record_id
             PROVE  FALSE
  BY DEF Unguessed
<1>1. body[q] \in Body
  BY DEF CallInv, Busy
<1>2. r \in written
  BY DEF MadeInv
<1>3. PICK p \in Request : /\ body[p] \in Body /\ body[p].record_id = r.record_id
                           /\ step[p] \notin {"pending", "built", "linked"}
  BY <1>2 DEF MadeInv
<1> QED BY <1>1, <1>3 DEF FreshInv

\* Every step, tampering included, preserves the types, the bookkeeping of calls
\* and the uniqueness of record ids.
LEMMA TypeStep ==
  ASSUME TypeInv, [Next]_vars
  PROVE  TypeInv'
<1> USE DEF TypeInv
<1>1. ASSUME NEW q \in Request, Begin(q) PROVE TypeInv'
  <2> DEFINE new(id) == [record_id |-> id, customer_id |-> Scope[q], request_id |-> q]
  <2>0. PICK id \in RecordId \ UsedIds : body' = [body EXCEPT ![q] = new(id)]
    BY <1>1 DEF Begin
  <2>a. new(id) \in Body /\ new(id).request_id = q /\ new(id).record_id = id
    BY <1>1, ConstantsAssumption DEF Begin, Body
  <2> HIDE DEF new
  <2>1. TypeOK'
    BY <1>1, <2>0, <2>a DEF TypeOK, Begin, Steps
  <2>2. CallInv'
    BY <1>1, <2>0, <2>a, ConstantsAssumption DEF TypeOK, CallInv, Begin, Busy
  <2>b. \A p \in Request : body'[p] = IF p = q THEN new(id) ELSE body[p]
    BY <2>0 DEF TypeOK
  <2>3. FreshInv'
    <3>1. \A p \in Request : body[p] \in Body => body[p].record_id # id
      BY <2>0, NoneAssumption DEF UsedIds
    <3> QED BY <2>a, <2>b, <3>1 DEF FreshInv
  <2>4. IdInv(table)' /\ IdInv(written)'
    BY <1>1 DEF Begin, IdInv
  <2>5. MadeInv'
    <3>1. step' = [step EXCEPT ![q] = "built"] /\ step[q] = "pending" /\ table' = table /\ written' = written
      BY <1>1 DEF Begin
    <3>2. \A r \in table : r.record_id # id
      BY <2>0 DEF UsedIds
    <3>3. \A p \in Request : p # q => step'[p] = step[p] /\ body'[p] = body[p]
      BY <2>b, <3>1 DEF TypeOK
    <3>4. step'[q] = "built" /\ body'[q].record_id = id
      BY <2>a, <2>b, <3>1 DEF TypeOK
    <3>5. \A r \in table' : \A p \in Request :
            step'[p] \in {"built", "linked"} => body'[p].record_id # r.record_id
      BY <3>1, <3>2, <3>3, <3>4 DEF MadeInv
    <3>6. \A w \in written' : \E p \in Request :
            /\ body'[p] \in Body /\ body'[p].record_id = w.record_id
            /\ step'[p] \notin {"pending", "built", "linked"}
      BY <3>1, <3>3 DEF MadeInv
    <3> QED BY <3>5, <3>6 DEF MadeInv
  <2> QED BY <2>1, <2>2, <2>3, <2>4, <2>5
<1>2. ASSUME NEW q \in Request, ReadLatest(q) PROVE TypeInv'
  <2>1. /\ prev'[q] \in ChainHash /\ cached' \in ChainHash \cup {None}
        /\ prev' = [prev EXCEPT ![q] = prev'[q]] /\ astray' \subseteq Nat
    BY <1>2, LatestHashType DEF TypeOK, ReadLatest
  <2>2. TypeOK'
    BY <1>2, <2>1 DEF TypeOK, ReadLatest, Steps
  <2>3. CallInv'
    BY <1>2, <2>1 DEF TypeOK, CallInv, ReadLatest, Busy
  <2>4. FreshInv' /\ IdInv(table)' /\ IdInv(written)' /\ MadeInv'
    BY <1>2 DEF ReadLatest, TypeOK, FreshInv, IdInv, MadeInv
  <2> QED BY <2>2, <2>3, <2>4
<1>3. ASSUME NEW q \in Request, Commit(q) PROVE TypeInv'
  <2>0. PICK row : row = RowOf(q, clock)
    OBVIOUS
  <2>1. /\ table' = table \cup {row} /\ written' = written \cup {row}
        /\ clock' = clock + 1
    BY <1>3, <2>0 DEF Commit
  <2>2. row \in Row /\ row.created_at = clock
    BY <1>3, <2>0, RowType DEF TypeOK, CallInv, Commit, Busy, RowOf
  <2>3. TypeOK'
    BY <1>3, <2>1, <2>2 DEF TypeOK, Commit, Steps
  <2>4. CallInv'
    BY <1>3 DEF TypeOK, CallInv, Commit, Busy
  <2>5. FreshInv'
    BY <1>3 DEF Commit, FreshInv
  <2>6. /\ row.record_id = body[q].record_id /\ body[q] \in Body /\ body' = body
        /\ step[q] = "linked" /\ step' = [step EXCEPT ![q] = "committed"]
    BY <1>3, <2>0 DEF CallInv, Commit, Busy, RowOf
  <2>7. \A r \in table \cup written : r.record_id # row.record_id
    BY <2>6, IdsOut DEF Unguessed
  <2>8. ASSUME NEW rows \in {table, written} PROVE IdInv(rows \cup {row})'
    BY <2>7, <2>8, FS_AddElement DEF IdInv
  <2>9. MadeInv'
    <3>1. \A p \in Request : p # q => step'[p] = step[p] /\ step'[p] \notin {"built", "linked"}
      BY <1>3, <2>6 DEF CallInv, Commit, TypeOK, Busy
    <3>2. step'[q] = "committed"
      BY <2>6 DEF TypeOK
    <3>3. \A w \in written' : \E p \in Request :
            /\ body'[p] \in Body /\ body'[p].record_id = w.record_id
            /\ step'[p] \notin {"pending", "built", "linked"}
      BY <2>1, <2>6, <3>1, <3>2 DEF MadeInv
    <3> QED BY <3>1, <3>2, <3>3 DEF MadeInv
  <2> QED BY <2>1, <2>3, <2>4, <2>5, <2>8, <2>9 DEF IdInv
<1>4. ASSUME NEW q \in Request, Ack(q) PROVE TypeInv'
  <2>1. Sha256(body[q]) \in ChainHash
    BY <1>4, RowType, 0 \in Nat DEF CallInv, Ack, Busy, ChainHash
  <2>2. TypeOK'
    BY <1>4, <2>1, ConstantsAssumption DEF TypeOK, Ack, Leave, Steps
  <2>3. CallInv'
    BY <1>4, ConstantsAssumption DEF TypeOK, CallInv, Ack, Leave, Busy
  <2>4. FreshInv' /\ IdInv(table)' /\ IdInv(written)' /\ MadeInv'
    BY <1>4 DEF Ack, Leave, TypeOK, FreshInv, IdInv, MadeInv
  <2> QED BY <2>2, <2>3, <2>4
<1>5. ASSUME NEW q \in Request,
             NoScope(q) \/ ReadLatestFails(q) \/ InsertFails(q) \/ LostAck(q)
      PROVE TypeInv'
  <2>1. \/ loop = None /\ step[q] = "pending"
        \/ loop = q
    BY <1>5 DEF NoScope, ReadLatestFails, InsertFails, LostAck
  <2>2. /\ step' = [step EXCEPT ![q] = "raised"] /\ loop' = None
        /\ astray' \in {astray, astray \cup {clock}}
        /\ UNCHANGED <<table, cached, body, prev, clock, written, tampers>>
    BY <1>5 DEF NoScope, ReadLatestFails, InsertFails, LostAck, Leave
  <2>3. TypeOK'
    BY <2>2 DEF TypeOK, Steps
  <2>4. CallInv'
    BY <2>1, <2>2, ConstantsAssumption DEF TypeOK, CallInv, Busy
  <2>5. FreshInv' /\ IdInv(table)' /\ IdInv(written)' /\ MadeInv'
    BY <2>2 DEF TypeOK, FreshInv, IdInv, MadeInv
  <2> QED BY <2>3, <2>4, <2>5
<1>6. ASSUME Crash PROVE TypeInv'
  <2>0. /\ step' = [q \in Request |-> IF q = loop THEN "lost" ELSE step[q]]
        /\ loop' = None /\ cached' = None /\ astray' = astray \ {clock}
        /\ UNCHANGED <<body, prev, clock, tampers>>
    BY <1>6 DEF Crash
  <2>1. /\ table' = table \/ table' = {}
        /\ written' = written \/ written' = {}
    BY <1>6 DEF Crash
  <2>2. TypeOK'
    BY <2>0, <2>1 DEF TypeOK, Steps
  <2>3. \A q \in Request : step'[q] \notin Busy
    BY <2>0 DEF TypeOK, CallInv, Busy
  <2>4. CallInv'
    BY <2>0, <2>3, ConstantsAssumption DEF CallInv, Busy
  <2>5. FreshInv'
    BY <2>0 DEF FreshInv
  <2>6. IdInv(table)' /\ IdInv(written)'
    BY <2>1, FS_EmptySet DEF IdInv
  <2>7. MadeInv'
    <3>1. \A q \in Request : step[q] \notin {"pending", "built", "linked"} =>
            step'[q] \notin {"pending", "built", "linked"}
      BY <2>0
    <3> QED BY <2>0, <2>1, <2>3, <3>1 DEF MadeInv, Busy
  <2> QED BY <2>2, <2>4, <2>5, <2>6, <2>7
<1>7. ASSUME Tamper PROVE TypeInv'
  <2>1. /\ UNCHANGED <<cached, loop, step, body, prev, clock, written, astray>>
        /\ tampers' \in 0 .. MaxTampers
    BY <1>7, ConstantsAssumption DEF Tamper, TypeOK
  <2>2. PICK old \in SUBSET table, new \in SUBSET Row :
          /\ table' = old \cup new
          /\ \A s \in new : new = {s} /\ s.record_id \notin Unguessed
                             /\ \A x \in old : x.record_id # s.record_id
    <3>2. ASSUME NEW r \in table \cup written, NEW s \in Altered(r)
          PROVE  s \in Row /\ s.record_id \notin Unguessed
      BY AlteredType, IdsOut DEF TypeOK
    <3>3. \/ \E r \in table : table' = table \ {r}
          \/ \E r \in table : \E s \in Altered(r) :
               /\ \A x \in table \ {r} : x.record_id # s.record_id
               /\ table' = (table \ {r}) \cup {s}
          \/ \E w \in written : \E s \in Altered(w) :
               /\ \A x \in table : x.record_id # s.record_id
               /\ table' = table \cup {s}
      BY <1>7 DEF Tamper
    <3> DEFINE Shape(old, new) ==
          /\ table' = old \cup new
          /\ \A s \in new : new = {s} /\ s.record_id \notin Unguessed
                             /\ \A x \in old : x.record_id # s.record_id
    <3>4. ASSUME NEW r \in table, table' = table \ {r} PROVE Shape(table \ {r}, {})
      BY <3>4
    <3>5. ASSUME NEW r \in table, NEW s \in Altered(r), table' = (table \ {r}) \cup {s},
                 \A x \in table \ {r} : x.record_id # s.record_id
          PROVE  Shape(table \ {r}, {s}) /\ {s} \in SUBSET Row
      BY <3>2, <3>5
    <3>6. ASSUME NEW w \in written, NEW s \in Altered(w), table' = table \cup {s},
                 \A x \in table : x.record_id # s.record_id
          PROVE  Shape(table, {s}) /\ {s} \in SUBSET Row
      BY <3>2, <3>6
    <3> HIDE DEF Shape
    <3>7. \E old \in SUBSET table, new \in SUBSET Row : Shape(old, new)
      <4>1. {} \in SUBSET Row /\ table \in SUBSET table /\ \A r \in table : table \ {r} \in SUBSET table
        OBVIOUS
      <4> QED BY <3>3, <3>4, <3>5, <3>6, <4>1
    <3> QED BY <3>7 DEF Shape
  <2>3. table' \subseteq Row
    BY <2>2 DEF TypeOK
  <2>4. IdInv(table)'
    <3>1. IsFiniteSet(new)
      <4>1. CASE new = {}
        BY <4>1, FS_EmptySet
      <4>2. ASSUME NEW s \in new PROVE IsFiniteSet(new)
        <5>1. new = {s}
          BY <2>2
        <5> QED BY <5>1, FS_Singleton
      <4> QED BY <4>1, <4>2
    <3>2. IsFiniteSet(old) /\ \A x, y \in old : x.record_id = y.record_id => x = y
      BY FS_Subset DEF IdInv
    <3>3. IsFiniteSet(table')
      BY <2>2, <3>1, <3>2, FS_Union
    <3>4. \A x, y \in table' : x.record_id = y.record_id => x = y
      BY <2>2, <3>2
    <3> QED BY <3>3, <3>4 DEF IdInv
  <2>5. MadeInv'
    <3>1. \A x \in table' : x.record_id \notin Unguessed
      BY <2>2, IdsOut
    <3> QED BY <2>1, <3>1 DEF MadeInv, Unguessed
  <2>6. TypeOK' /\ CallInv' /\ FreshInv' /\ IdInv(written)'
    BY <2>1, <2>3 DEF TypeOK, CallInv, FreshInv, IdInv
  <2> QED BY <2>4, <2>5, <2>6
<1>8. CASE UNCHANGED vars
  BY <1>8 DEF vars, TypeOK, CallInv, FreshInv, IdInv, MadeInv
<1> QED
  BY <1>1, <1>2, <1>3, <1>4, <1>5, <1>6, <1>7, <1>8 DEF Next, RecordStep, Done

\* They hold initially.
LEMMA TypeInit == ASSUME Init PROVE TypeInv
<1>1. IdInv(table) /\ IdInv(written)
  BY FS_EmptySet DEF Init, IdInv
<1>2. FreshInv /\ MadeInv
  BY NoneAssumption DEF Init, FreshInv, MadeInv
<1> QED BY <1>1, <1>2, ConstantsAssumption DEF Init, TypeInv, TypeOK, CallInv, Steps, Busy

\* The log, the cache and the calls stay well typed whatever statements fail,
\* whenever the process restarts and whatever is done to the rows behind it.
THEOREM Typing == Spec => []TypeOK
<1>1. Spec => []TypeInv
  BY TypeInit, TypeStep, PTL DEF Spec
<1> QED BY <1>1, PTL DEF TypeInv

-----------------------------------------------------------------------------
\* How a step changes a set of rows that only the writer changes: the rows of an
\* untampered table, and the rows the writer ever committed.
LogStep(rows, more) ==
  \/ more = rows /\ \A q \in Request : ~Commit(q)
  \/ more = {} /\ Crash
  \/ \E q \in Request : Commit(q) /\ more = rows \cup {RowOf(q, clock)}

\* A step that is not one of Commit's, and what the two sets are after a step.
LEMMA LogSteps ==
  ASSUME TypeInv, [Next]_vars
  PROVE  LogStep(written, written') /\ (~Tamper => LogStep(table, table'))
<1>0. \A q \in Request : Commit(q) => written' # written /\ table' = table \cup {RowOf(q, clock)}
                                         /\ written' = written \cup {RowOf(q, clock)}
  <2> SUFFICES ASSUME NEW q \in Request, Commit(q) PROVE written' # written
    BY DEF Commit
  <2>1. body[q] \in Body /\ RowOf(q, clock).record_id = body[q].record_id
    BY DEF TypeInv, CallInv, Commit, Busy, RowOf
  <2>2. RowOf(q, clock) \notin written
    BY <2>1 DEF TypeInv, MadeInv, FreshInv, Commit
  <2> QED BY <2>2 DEF Commit
<1>1. ASSUME NEW q \in Request, Begin(q) \/ NoScope(q) \/ ReadLatest(q) \/ ReadLatestFails(q)
                                  \/ InsertFails(q) \/ Ack(q) \/ LostAck(q)
      PROVE  written' = written /\ table' = table
  BY <1>1 DEF Begin, NoScope, ReadLatest, ReadLatestFails, InsertFails, Ack, LostAck
<1>2. ASSUME Crash
      PROVE  (written' = written /\ table' = table) \/ (written' = {} /\ table' = {})
  BY <1>2 DEF Crash
<1>3. Tamper => written' = written
  BY DEF Tamper
<1>4. UNCHANGED vars => written' = written /\ table' = table
  BY DEF vars
<1>5. Done => UNCHANGED vars
  BY DEF Done
<1> QED BY <1>0, <1>1, <1>2, <1>3, <1>4, <1>5 DEF LogStep, Next, RecordStep

\* A restart leaves no call in progress.
LEMMA CrashIdle ==
  ASSUME TypeInv, Crash
  PROVE  /\ cached' = None /\ loop' = None
         /\ \A q \in Request : step'[q] \notin Busy
         /\ \A q \in Request : step[q] \notin Busy => step'[q] = step[q]
BY DEF TypeInv, TypeOK, CallInv, Crash, Busy

\* A row inserted at the current time is the last one.
LEMMA InsertOrder ==
  ASSUME clock \in Nat, NEW rows \in SUBSET Row, OrderInv(rows),
         NEW row \in Row, row.created_at = clock
  PROVE  /\ Latest(rows \cup {row}, row)
         /\ \A r \in rows : Before(r, row) /\ ~ Before(row, r)
BY DEF OrderInv, Latest, Before, Row

\* The row that a call inserts is the digest and the signature of its body, and
\* links to what latest_hash answered.
LEMMA CommittedRow ==
  ASSUME TypeInv, NEW q \in Request, Commit(q), NEW row, row = RowOf(q, clock)
  PROVE  /\ row \in Row /\ row.created_at = clock /\ row.request_id = q
         /\ row.content_hash = Sha256(body[q]) /\ row.content_hash = Sha256(row)
         /\ row.prev_hash = prev[q]
         /\ row.hmac_signature = Hmac(row.content_hash, row.prev_hash)
BY RowType DEF TypeInv, TypeOK, CallInv, Commit, Busy, RowOf, Sha256

\* The clock keeps telling rows apart.
LEMMA OrderStep ==
  ASSUME TypeInv, [Next]_vars, NEW rows \in SUBSET Row, OrderInv(rows),
         NEW more, LogStep(rows, more)
  PROVE  OrderInv(more)'
<1>1. ASSUME NEW q \in Request, Commit(q), more = rows \cup {RowOf(q, clock)}
      PROVE  OrderInv(more)'
  <2>1. PICK row : row = RowOf(q, clock)
    OBVIOUS
  <2>2. row \in Row /\ row.created_at = clock /\ clock \in Nat /\ clock' = clock + 1
    BY <1>1, <2>1, CommittedRow DEF TypeInv, TypeOK, Commit
  <2>3. \A r \in rows : r.created_at \in Nat
    BY DEF Row
  <2> QED BY <1>1, <2>1, <2>2, <2>3 DEF OrderInv
<1>2. ASSUME \A q \in Request : ~Commit(q) PROVE clock' = clock
  BY <1>2 DEF Next, RecordStep, Begin, NoScope, ReadLatest, ReadLatestFails, InsertFails,
              Ack, LostAck, Crash, Tamper, Done, vars
<1>3. CASE more = rows /\ \A q \in Request : ~Commit(q)
  BY <1>2, <1>3 DEF OrderInv
<1>4. CASE more = {}
  BY <1>4 DEF OrderInv
<1> QED BY <1>1, <1>3, <1>4 DEF LogStep

\* Appending, at the current time, a correctly signed row that links to the
\* last one keeps the chain verifiable.
LEMMA AppendVerifies ==
  ASSUME clock \in Nat, NEW rows \in SUBSET Row, IdInv(rows), OrderInv(rows), verify_chain(rows),
         NEW row \in Row, row.created_at = clock,
         row.prev_hash = LatestHash(rows),
         row.content_hash = Sha256(row),
         row.hmac_signature = Hmac(row.content_hash, row.prev_hash)
  PROVE  verify_chain(rows \cup {row})
<1> DEFINE more == rows \cup {row}
<1>0. /\ \A r \in rows : Before(r, row) /\ ~ Before(row, r)
      /\ ~ Before(row, row)
  BY InsertOrder, BeforeStrict
<1>1. LinkOk(more, row)
  <2>1. CASE rows = {}
    BY <2>1, <1>0 DEF LinkOk, LatestHash
  <2>2. CASE rows # {}
    <3>1. PICK last \in rows : Latest(rows, last)
      BY <2>2, LatestExists
    <3>2. row.prev_hash = last.content_hash
      BY <3>1, LatestHashIs
    <3>3. \A s \in rows : ~ Before(last, s)
      BY <3>1, BeforeStrict DEF Latest
    <3>4. Adjacent(more, last, row)
      BY <1>0, <3>3 DEF Adjacent
    <3> QED BY <3>2, <3>4 DEF LinkOk
  <2> QED BY <2>1, <2>2
<1>2. ASSUME NEW r \in rows PROVE LinkOk(more, r)
  <2>1. LinkOk(rows, r)
    BY DEF verify_chain
  <2> QED BY <1>0, <2>1 DEF LinkOk, Adjacent
<1> QED BY <1>1, <1>2 DEF verify_chain

\* Each step but the loss of an acknowledgement keeps the head of the chain
\* known, when latest_hash answers the head; a commit and a restart make it
\* known again.
LEMMA HeadStep ==
  ASSUME TypeInv, [Next]_vars, \A q \in Request : ~LostAck(q),
         NEW rows \in SUBSET Row, OrderInv(rows),
         HeadInv(rows) \/ Crash \/ \E q \in Request : Commit(q),
         NEW more, LogStep(rows, more),
         ~(Backend = "postgres" /\ cached # None) =>
            \A q \in Request : ReadLatest(q) => LatestHash(table) = LatestHash(rows)
  PROVE  HeadInv(more)'
<1>0. TypeOK /\ CallInv
  BY DEF TypeInv
<1>1. ASSUME NEW q \in Request, Commit(q), more = rows \cup {RowOf(q, clock)}
      PROVE  HeadInv(more)'
  <2>0. PICK row : row = RowOf(q, clock)
    OBVIOUS
  <2>1. more = rows \cup {row} /\ UNCHANGED <<cached, body, prev>>
        /\ step' = [step EXCEPT ![q] = "committed"]
    BY <1>1, <2>0 DEF Commit
  <2>2. /\ row \in Row /\ row.created_at = clock
        /\ row.content_hash = Sha256(body[q])
    BY <1>1, <2>0, CommittedRow
  <2>3. \A p \in Request : p # q => step[p] \notin Busy
    BY <1>0, <1>1 DEF Commit, CallInv
  <2>4. LatestHash(more) = row.content_hash
    BY <1>0, <2>1, <2>2, InsertOrder, LatestHashIs DEF TypeOK
  <2> QED BY <1>0, <2>1, <2>2, <2>3, <2>4 DEF HeadInv, TypeOK, Busy
<1>2. ASSUME Crash PROVE HeadInv(more)'
  BY <1>2, CrashIdle DEF HeadInv, Busy
<1>3. ASSUME more = rows, HeadInv(rows), ~Crash, \A q \in Request : ~Commit(q)
      PROVE  HeadInv(rows)'
  <2>1. ASSUME NEW q \in Request, Begin(q) PROVE HeadInv(rows)'
    <3>1. \A p \in Request : step'[p] \in {"linked", "committed"} =>
            step[p] = step'[p] /\ body'[p] = body[p]
      BY <1>0, <2>1 DEF Begin, TypeOK
    <3>2. \A p \in Request : step[p] = "committed" => step'[p] = "committed"
      BY <1>0, <2>1 DEF Begin, TypeOK
    <3>3. UNCHANGED <<cached, prev>>
      BY <2>1 DEF Begin
    <3> QED BY <1>3, <3>1, <3>2, <3>3 DEF HeadInv
  <2>2. ASSUME NEW q \in Request, ReadLatest(q) PROVE HeadInv(rows)'
    <3>1. \A p \in Request : step[p] # "committed" /\ (p # q => step[p] # "linked")
      BY <1>0, <2>2 DEF ReadLatest, CallInv, Busy
    <3>2. /\ prev'[q] = LatestHash(rows)
          /\ Backend = "postgres" => cached' = LatestHash(rows)
          /\ step' = [step EXCEPT ![q] = "linked"]
      BY <1>0, <1>3, <2>2, <3>1 DEF ReadLatest, HeadInv, TypeOK
    <3> QED BY <1>0, <3>1, <3>2 DEF HeadInv, TypeOK
  <2>3. ASSUME NEW q \in Request, Ack(q) PROVE HeadInv(rows)'
    <3>1. /\ Backend = "postgres" => cached' = LatestHash(rows)
          /\ step' = [step EXCEPT ![q] = "ok"] /\ UNCHANGED <<body, prev>>
      BY <1>3, <2>3 DEF Ack, Leave, HeadInv
    <3>2. \A p \in Request : p # q => step[p] \notin Busy
      BY <1>0, <2>3 DEF Ack, CallInv
    <3> QED BY <1>0, <3>1, <3>2 DEF HeadInv, TypeOK, Busy
  <2>4. ASSUME NEW q \in Request, NoScope(q) \/ ReadLatestFails(q) \/ InsertFails(q)
        PROVE  HeadInv(rows)'
    <3>1. /\ step' = [step EXCEPT ![q] = "raised"] /\ step[q] # "committed"
          /\ UNCHANGED <<cached, body, prev>>
      BY <2>4 DEF NoScope, ReadLatestFails, InsertFails, Leave
    <3> QED BY <1>0, <1>3, <3>1 DEF HeadInv, TypeOK
  <2>5. ASSUME Tamper \/ Done \/ UNCHANGED vars PROVE HeadInv(rows)'
    <3>1. UNCHANGED <<cached, step, body, prev>>
      BY <2>5 DEF Tamper, Done, vars
    <3> QED BY <1>3, <3>1 DEF HeadInv
  <2> QED BY <1>3, <2>1, <2>2, <2>3, <2>4, <2>5 DEF Next, RecordStep
<1>4. CASE more = rows /\ \A q \in Request : ~Commit(q)
  BY <1>2, <1>3, <1>4
<1> QED BY <1>1, <1>2, <1>4 DEF LogStep

\* The chain stays verifiable when the head is known.
LEMMA ChainStep ==
  ASSUME TypeInv, NEW rows \in SUBSET Row, IdInv(rows), OrderInv(rows), HeadInv(rows),
         verify_chain(rows), NEW more, LogStep(rows, more)
  PROVE  verify_chain(more)
<1>1. ASSUME NEW q \in Request, Commit(q), more = rows \cup {RowOf(q, clock)}
      PROVE  verify_chain(more)
  <2>1. PICK row : row = RowOf(q, clock)
    OBVIOUS
  <2>2. /\ row \in Row /\ row.created_at = clock /\ row.content_hash = Sha256(row)
        /\ row.prev_hash = prev[q]
        /\ row.hmac_signature = Hmac(row.content_hash, row.prev_hash)
    BY <1>1, <2>1, CommittedRow
  <2>3. prev[q] = LatestHash(rows) /\ clock \in Nat
    BY <1>1 DEF HeadInv, Commit, TypeInv, TypeOK
  <2>4. verify_chain(rows \cup {row})
    BY <2>2, <2>3, AppendVerifies
  <2> QED BY <1>1, <2>1, <2>4
<1>2. CASE more = {}
  BY <1>2 DEF verify_chain
<1> QED BY <1>1, <1>2 DEF LogStep

ChainInv == TypeInv /\ OrderInv(table) /\ HeadInv(table) /\ ChainVerifies

\* Without tampering and without lost acknowledgements the log keeps verifying.
LEMMA TableStep ==
  ASSUME ChainInv, [Next]_vars, ~Tamper, \A q \in Request : ~LostAck(q)
  PROVE  ChainInv'
<1>1. TypeInv /\ TypeInv' /\ table \subseteq Row /\ IdInv(table) /\ LogStep(table, table')
  BY TypeStep, LogSteps DEF ChainInv, TypeInv, TypeOK
<1>2. PICK rows, more : rows = table /\ more = table'
  OBVIOUS
<1>3. HeadInv(more)' /\ verify_chain(more) /\ OrderInv(more)'
  <2>1. rows \in SUBSET Row /\ IdInv(rows) /\ LogStep(rows, more) /\ verify_chain(rows)
    BY <1>1, <1>2 DEF ChainInv, ChainVerifies
  <2>2. OrderInv(rows) /\ HeadInv(rows) /\ LatestHash(table) = LatestHash(rows)
    BY <1>2 DEF ChainInv
  <2> QED BY <1>1, <2>1, <2>2, HeadStep, ChainStep, OrderStep
<1> QED BY <1>1, <1>2, <1>3 DEF ChainInv, ChainVerifies

\* The empty log verifies.
LEMMA ChainInit == ASSUME Init PROVE ChainInv
BY TypeInit DEF Init, ChainInv, OrderInv, HeadInv, ChainVerifies, verify_chain

\* Every acknowledgement arrives, and nobody but the writer changes the rows.
Reliable == "tamper" \notin Faults /\ "lost_ack" \notin Faults

\* The log verifies in every state, for any number of requests, record ids
\* and restarts, as long as acknowledgements arrive.
THEOREM ChainAlwaysVerifies == ASSUME Reliable PROVE Spec => []ChainVerifies
<1>1. ASSUME ChainInv, [Next]_vars PROVE ChainInv'
  BY <1>1, TableStep DEF Reliable, LostAck, Tamper
<1>2. Spec => []ChainInv
  BY ChainInit, <1>1, PTL DEF Spec
<1> QED BY <1>2, PTL DEF ChainInv

-----------------------------------------------------------------------------
LossInv ==
  /\ TypeInv
  /\ tampers = 0 => /\ OrderInv(table) /\ CommittedInv(table)
                    /\ Unacknowledged = {} => HeadInv(table) /\ ChainVerifies

\* A row set that only the writer changes holds the row of a committed call
\* until the call ends.
LEMMA CommittedStep ==
  ASSUME TypeInv, [Next]_vars, NEW rows, CommittedInv(rows), NEW more, LogStep(rows, more)
  PROVE  CommittedInv(more)'
<1>0. TypeOK /\ CallInv
  BY DEF TypeInv
<1>1. ASSUME NEW q \in Request, Commit(q), more = rows \cup {RowOf(q, clock)}
      PROVE  CommittedInv(more)'
  <2>1. PICK row : row = RowOf(q, clock)
    OBVIOUS
  <2>2. step' = [step EXCEPT ![q] = "committed"]
    BY <1>1 DEF Commit
  <2>3. row.request_id = q
    BY <1>1, <2>1, CommittedRow
  <2> QED BY <1>0, <1>1, <2>1, <2>2, <2>3 DEF CommittedInv, TypeOK
<1>2. ASSUME Crash PROVE CommittedInv(more)'
  BY <1>2, CrashIdle DEF CommittedInv, Busy
<1>3. ASSUME \A q \in Request : ~Commit(q), NEW q \in Request, step'[q] = "committed"
      PROVE  step[q] = "committed"
  BY <1>0, <1>3 DEF TypeOK, Next, RecordStep, Begin, NoScope, ReadLatest, ReadLatestFails,
                    InsertFails, Ack, LostAck, Crash, Leave, Tamper, Done, vars
<1>4. CASE more = rows /\ \A q \in Request : ~Commit(q)
  BY <1>3, <1>4 DEF CommittedInv
<1> QED BY <1>1, <1>2, <1>4 DEF LogStep

\* A call that ended stays as it ended.
LEMMA EndIsFinal ==
  ASSUME TypeInv, [Next]_vars, NEW p \in Request, step[p] \in {"ok", "raised", "lost"}
  PROVE  step'[p] = step[p]
<1>0. TypeOK /\ CallInv
  BY DEF TypeInv
<1>1. ASSUME NEW q \in Request, RecordStep(q) PROVE step'[p] = step[p]
  <2>1. p # q /\ \E s \in Steps : step' = [step EXCEPT ![q] = s]
    BY <1>0, <1>1 DEF RecordStep, Begin, NoScope, ReadLatest, ReadLatestFails, Commit,
              InsertFails, Ack, LostAck, Leave, CallInv, Busy, Steps
  <2> QED BY <1>0, <2>1 DEF TypeOK
<1>2. Crash => step'[p] = step[p]
  BY CrashIdle DEF Busy
<1> QED BY <1>1, <1>2 DEF Next, Tamper, Done, vars

\* Every step keeps the chain verifiable, or leaves a call that raised although
\* its row is in the log.
LEMMA LossStep ==
  ASSUME LossInv, [Next]_vars
  PROVE  LossInv'
<1>0. TypeInv /\ TypeInv' /\ TypeOK /\ CallInv /\ table \subseteq Row
  BY TypeStep DEF LossInv, TypeInv, TypeOK
<1> SUFFICES ASSUME tampers' = 0
             PROVE  /\ OrderInv(table)' /\ CommittedInv(table)'
                    /\ Unacknowledged' = {} => HeadInv(table)' /\ ChainVerifies'
  BY <1>0 DEF LossInv
<1>1. tampers = 0 /\ ~Tamper
  BY <1>0 DEF TypeOK, Next, RecordStep, Begin, NoScope, ReadLatest, ReadLatestFails, Commit,
              InsertFails, Ack, LostAck, Crash, Tamper, Done, vars
<1>2. LogStep(table, table')
  BY <1>0, <1>1, LogSteps
<1>3. OrderInv(table)' /\ CommittedInv(table)'
  <2>1. PICK rows, more : rows = table /\ more = table'
    OBVIOUS
  <2>2. rows \in SUBSET Row /\ OrderInv(rows) /\ CommittedInv(rows) /\ LogStep(rows, more)
    BY <1>0, <1>1, <1>2, <2>1 DEF LossInv
  <2>3. OrderInv(more)' /\ CommittedInv(more)'
    BY <1>0, <2>2, OrderStep, CommittedStep
  <2> QED BY <2>1, <2>3
<1>4. ASSUME NEW q \in Request, LostAck(q) PROVE Unacknowledged' # {}
  <2>1. /\ step[q] = "committed" /\ step'[q] = "raised"
        /\ table' = table
    BY <1>0, <1>4 DEF LostAck, Leave, TypeOK
  <2> QED BY <1>1, <2>1 DEF LossInv, CommittedInv, Unacknowledged
<1>5. CASE Unacknowledged = {} /\ \A q \in Request : ~LostAck(q)
  BY <1>0, <1>1, <1>3, <1>5, TableStep DEF LossInv, ChainInv
<1>6. ASSUME Unacknowledged # {}, Unacknowledged' = {} PROVE HeadInv(table)' /\ ChainVerifies'
  <2>1. PICK p \in Request, r \in table : step[p] = "raised" /\ r.request_id = p
    BY <1>6 DEF Unacknowledged
  <2>2. step'[p] = "raised"
    BY <1>0, <2>1, EndIsFinal
  <2>3. r \notin table'
    BY <1>6, <2>1, <2>2 DEF Unacknowledged
  <2>4. table' = {} /\ Crash
    BY <1>2, <2>3 DEF LogStep
  <2>5. cached' = None /\ \A x \in Request : step'[x] \notin Busy
    BY <1>0, <2>4, CrashIdle
  <2> QED BY <2>4, <2>5 DEF HeadInv, ChainVerifies, verify_chain, Busy
<1> QED BY <1>3, <1>4, <1>5, <1>6

\* Failed statements and restarts never break the chain: what breaks it, but for
\* tampering, is a record() that raised although its row was committed.
THEOREM BreaksOnlyByLostAck == Spec => []BrokenOnlyByLostAck
<1>1. Init => LossInv
  BY TypeInit, ChainInit DEF LossInv, ChainInv, CommittedInv, Init
<1>2. LossInv => BrokenOnlyByLostAck
  BY DEF LossInv, BrokenOnlyByLostAck, ChainVerifies
<1>3. Spec => []LossInv
  BY <1>1, LossStep, PTL DEF Spec
<1> QED BY <1>2, <1>3, PTL

-----------------------------------------------------------------------------
\* A restart keeps the log.
Durable == Backend = "postgres" \/ "crash" \notin Faults

DurableInv == TypeInv /\ (tampers = 0 => RowsInv)

\* Each step keeps rows and calls in correspondence.
LEMMA DurableStep ==
  ASSUME Durable, DurableInv, [Next]_vars
  PROVE  DurableInv'
<1>0. TypeInv /\ TypeInv' /\ TypeOK /\ TypeOK' /\ CallInv
  BY TypeStep DEF DurableInv, TypeInv
<1> SUFFICES ASSUME tampers' = 0 PROVE RowsInv'
  BY <1>0 DEF DurableInv
<1>a. RowsInv /\ ~Tamper
  BY <1>0 DEF DurableInv, TypeOK, Next, RecordStep, Begin, NoScope, ReadLatest, ReadLatestFails,
              Commit, InsertFails, Ack, LostAck, Crash, Tamper, Done, vars
<1>b. \A r \in table : r.request_id \in Request
  BY <1>0 DEF TypeOK, Row
<1>1. ASSUME NEW q \in Request, Commit(q) PROVE RowsInv'
  <2> DEFINE row == RowOf(q, clock)
  <2>1. table' = table \cup {row} /\ step' = [step EXCEPT ![q] = "committed"]
    BY <1>1 DEF Commit
  <2>2. row.request_id = q
    BY <1>0, <1>1, CommittedRow
  <2>3. \A r \in table : r.request_id # q
    BY <1>a, <1>1 DEF RowsInv, Commit
  <2> HIDE DEF row
  <2> QED BY <1>0, <1>a, <1>b, <2>1, <2>2, <2>3 DEF RowsInv, TypeOK
<1>2. ASSUME NEW q \in Request, Begin(q) \/ ReadLatest(q) PROVE RowsInv'
  <2>1. /\ step[q] \in {"pending", "built"} /\ table' = table
        /\ \E s \in {"built", "linked"} : step' = [step EXCEPT ![q] = s]
    BY <1>2 DEF Begin, ReadLatest
  <2> QED BY <1>0, <1>a, <1>b, <2>1 DEF RowsInv, TypeOK
<1>3. ASSUME NEW q \in Request, Ack(q) PROVE RowsInv'
  BY <1>0, <1>a, <1>b, <1>3 DEF RowsInv, Ack, Leave, TypeOK
<1>4. ASSUME NEW q \in Request,
             NoScope(q) \/ ReadLatestFails(q) \/ InsertFails(q) \/ LostAck(q)
      PROVE RowsInv'
  <2>1. table' = table /\ step' = [step EXCEPT ![q] = "raised"]
    BY <1>4 DEF NoScope, ReadLatestFails, InsertFails, LostAck, Leave
  <2> QED BY <1>0, <1>a, <1>b, <2>1 DEF RowsInv, TypeOK
<1>6. ASSUME Crash PROVE RowsInv'
  <2>1. table' = table /\ step' = [q \in Request |-> IF q = loop THEN "lost" ELSE step[q]]
    BY <1>6, ConstantsAssumption DEF Durable, Crash
  <2> QED BY <1>a, <1>b, <2>1 DEF RowsInv
<1>5. ASSUME UNCHANGED vars PROVE RowsInv'
  BY <1>a, <1>5 DEF vars, RowsInv
<1> QED BY <1>a, <1>1, <1>2, <1>3, <1>4, <1>5, <1>6 DEF Next, RecordStep, Done

\* Fail closed: record() returns only for a request whose row is in the log,
\* and no request has two, also when acknowledgements are lost.
THEOREM AckedHaveOneRow == ASSUME Durable PROVE Spec => []AckedOnce
<1>1. Init => DurableInv
  BY TypeInit DEF Init, DurableInv, RowsInv
<1>2. DurableInv => AckedOnce
  BY DEF DurableInv, RowsInv, AckedOnce
<1>3. Spec => []DurableInv
  BY <1>1, DurableStep, PTL DEF Spec
<1> QED BY <1>2, <1>3, PTL

-----------------------------------------------------------------------------
\* Every row the writer committed carries the digest of its body and a signature
\* of that and of its link; no row of the table has a signature of anyone else.
SealInv ==
  /\ \A w \in written : /\ w.content_hash = Sha256(w)
                        /\ w.hmac_signature = Hmac(w.content_hash, w.prev_hash)
  /\ \A r \in table : \E w \in written : r.hmac_signature = w.hmac_signature

\* The rows the writer committed before a time.
Earlier(n) == {w \in written : w.created_at < n}

\* The writer is astray at times it has been at, and every row it committed when
\* it was not links to the last one before.
LinkInv ==
  /\ \A m \in astray : m <= clock
  /\ \A v \in written : v.created_at \in astray \/ v.prev_hash = LatestHash(Earlier(v.created_at))

\* Unless it is astray now, the writer knows the last row it committed, whatever
\* is done to the table.
WriterInv ==
  /\ TypeInv /\ SealInv /\ OrderInv(written) /\ LinkInv
  /\ clock \notin astray => HeadInv(written)

\* Signatures are never made by anyone but the writer, and are kept or lost with
\* the row that carries them.
LEMMA SealStep ==
  ASSUME Backend = "postgres", TypeInv, SealInv, [Next]_vars
  PROVE  SealInv'
<1>0. TypeOK
  BY DEF TypeInv
<1>1. ASSUME NEW q \in Request, Commit(q) PROVE SealInv'
  <2>1. PICK row : row = RowOf(q, clock)
    OBVIOUS
  <2>2. table' = table \cup {row} /\ written' = written \cup {row}
    BY <1>1, <2>1 DEF Commit
  <2>3. row.content_hash = Sha256(row) /\ row.hmac_signature = Hmac(row.content_hash, row.prev_hash)
    BY <1>1, <2>1, CommittedRow
  <2> QED BY <2>2, <2>3 DEF SealInv
<1>2. ASSUME Tamper PROVE SealInv'
  <2>1. ASSUME NEW r \in table \cup written, NEW s \in Altered(r)
        PROVE  \E w \in written : s.hmac_signature = w.hmac_signature
    BY <1>0, AlteredType DEF TypeOK, SealInv
  <2>2. \A x \in table' : x \in table \/ \E r \in table \cup written : x \in Altered(r)
    BY <1>2 DEF Tamper
  <2>3. written' = written
    BY <1>2 DEF Tamper
  <2> QED BY <2>1, <2>2, <2>3 DEF SealInv
<1>3. ASSUME NEW q \in Request,
             \/ Begin(q) \/ NoScope(q) \/ ReadLatest(q) \/ ReadLatestFails(q)
             \/ InsertFails(q) \/ Ack(q) \/ LostAck(q)
      PROVE  table' = table /\ written' = written
  BY <1>3 DEF Begin, NoScope, ReadLatest, ReadLatestFails, InsertFails, Ack, LostAck
<1>4. UNCHANGED <<table, written>> => SealInv'
  BY DEF SealInv
<1>5. Crash \/ Done \/ UNCHANGED vars => UNCHANGED <<table, written>>
  BY DEF Crash, Done, vars
<1> QED BY <1>1, <1>2, <1>3, <1>4, <1>5 DEF Next, RecordStep

\* What a step does to the times at which the writer is astray.
LEMMA AstrayStep ==
  ASSUME Backend = "postgres", TypeInv, [Next]_vars
  PROVE  /\ astray' \subseteq astray \cup {clock} /\ astray \ {clock} \subseteq astray'
         /\ (\E q \in Request : Commit(q)) => astray' = astray /\ clock' = clock + 1
         /\ (\A q \in Request : ~Commit(q)) => clock' = clock
         /\ ~Crash => astray \subseteq astray'
         /\ \A q \in Request : LostAck(q) => clock \in astray'
         /\ \A q \in Request : ReadLatest(q) /\ cached = None
                                /\ LatestHash(table) # LatestHash(written) => clock \in astray'
<1>1. ASSUME NEW q \in Request, Begin(q) \/ NoScope(q) \/ ReadLatestFails(q) \/ InsertFails(q) \/ Ack(q)
      PROVE  astray' = astray /\ clock' = clock
  BY <1>1 DEF Begin, NoScope, ReadLatestFails, InsertFails, Ack
<1>2. ASSUME NEW q \in Request, ReadLatest(q)
      PROVE  /\ astray' = astray \/ astray' = astray \cup {clock}
             /\ clock' = clock
             /\ cached = None /\ LatestHash(table) # LatestHash(written) => clock \in astray'
  BY <1>2 DEF ReadLatest
<1>3. ASSUME NEW q \in Request, Commit(q) PROVE astray' = astray /\ clock' = clock + 1
  BY <1>3 DEF Commit
<1>4. ASSUME NEW q \in Request, LostAck(q) PROVE astray' = astray \cup {clock} /\ clock' = clock
  BY <1>4 DEF LostAck
<1>5. Crash => astray' = astray \ {clock} /\ clock' = clock
  BY DEF Crash
<1>6. Tamper \/ Done \/ UNCHANGED vars => astray' = astray /\ clock' = clock
  BY DEF Tamper, Done, vars
<1>7. \/ \E q \in Request : RecordStep(q)
      \/ Crash \/ Tamper \/ Done \/ UNCHANGED vars
  BY DEF Next
<1>8. ASSUME NEW q \in Request, RecordStep(q)
      PROVE  \/ Begin(q) \/ NoScope(q) \/ ReadLatestFails(q) \/ InsertFails(q) \/ Ack(q)
             \/ ReadLatest(q) \/ Commit(q) \/ LostAck(q)
  BY <1>8 DEF RecordStep
<1>9. /\ astray' \subseteq astray \cup {clock} /\ astray \ {clock} \subseteq astray'
      /\ ~Crash => astray \subseteq astray'
  BY <1>1, <1>2, <1>3, <1>4, <1>5, <1>6, <1>7, <1>8
<1>10. (\A q \in Request : ~Commit(q)) => clock' = clock
  BY <1>1, <1>2, <1>4, <1>5, <1>6, <1>7, <1>8
<1> QED BY <1>2, <1>3, <1>4, <1>9, <1>10

\* The rows before a time are those the writer then had.
LEMMA LinkStep ==
  ASSUME Backend = "postgres", WriterInv, [Next]_vars
  PROVE  LinkInv'
<1>0. /\ TypeInv /\ OrderInv(written) /\ LinkInv /\ clock \in Nat /\ astray \subseteq Nat
      /\ written \subseteq Row /\ \A w \in written : w.created_at \in Nat /\ w.created_at < clock
  BY DEF WriterInv, TypeInv, TypeOK, OrderInv, Row
<1>1. ASSUME NEW q \in Request, Commit(q) PROVE LinkInv'
  <2>1. PICK row : row = RowOf(q, clock)
    OBVIOUS
  <2>2. row.created_at = clock /\ row.prev_hash = prev[q] /\ written' = written \cup {row}
    BY <1>0, <1>1, <2>1, CommittedRow DEF Commit
  <2>3. astray' = astray /\ clock' = clock + 1
    BY <1>0, <1>1, AstrayStep
  <2>4. ASSUME NEW v \in written' PROVE Earlier(v.created_at)' = Earlier(v.created_at)
    BY <1>0, <2>2 DEF Earlier
  <2>5. Earlier(clock) = written
    BY <1>0 DEF Earlier
  <2>6. clock \in astray \/ row.prev_hash = LatestHash(Earlier(clock))
    BY <1>1, <2>2, <2>5 DEF WriterInv, HeadInv, Commit
  <2>7. \A v \in written' : v.created_at \in astray' \/ v.prev_hash = LatestHash(Earlier(v.created_at)')
    BY <1>0, <2>2, <2>3, <2>4, <2>6 DEF LinkInv
  <2>8. \A m \in astray' : m <= clock'
    BY <1>0, <2>3 DEF LinkInv
  <2> QED BY <2>7, <2>8 DEF LinkInv, LatestHash, Latest, Before
<1>2. ASSUME \A q \in Request : ~Commit(q) PROVE LinkInv'
  <2>1. written' = written
    <3>1. Crash => written' = written
      BY DEF Crash
    <3> QED BY <1>0, <1>2, <3>1, LogSteps DEF LogStep
  <2>2. /\ clock' = clock /\ astray' \subseteq astray \cup {clock}
        /\ astray \ {clock} \subseteq astray'
    BY <1>0, <1>2, AstrayStep
  <2>3. \A v \in written : v.created_at \in astray => v.created_at \in astray'
    BY <1>0, <2>2
  <2>4. \A v \in written' : v.created_at \in astray' \/ v.prev_hash = LatestHash(Earlier(v.created_at))
    BY <1>0, <2>1, <2>3 DEF LinkInv
  <2>5. \A n : Earlier(n)' = Earlier(n)
    BY <2>1 DEF Earlier
  <2>6. \A m \in astray' : m <= clock'
    BY <1>0, <2>2 DEF LinkInv
  <2> QED BY <2>4, <2>5, <2>6 DEF LinkInv, LatestHash, Latest, Before
<1> QED BY <1>1, <1>2

\* Every step keeps the writer's rows linked to one another but where it goes
\* astray.
LEMMA WriterStep ==
  ASSUME Backend = "postgres", WriterInv, [Next]_vars
  PROVE  WriterInv'
<1>0. /\ TypeInv /\ TypeInv' /\ SealInv /\ SealInv' /\ LinkInv /\ LinkInv'
      /\ written \subseteq Row /\ clock \in Nat
  BY TypeStep, SealStep, LinkStep DEF WriterInv, TypeInv, TypeOK
<1>1. PICK rows, more : rows = written /\ more = written'
  OBVIOUS
<1>2. rows \in SUBSET Row /\ OrderInv(rows) /\ LogStep(rows, more)
  BY <1>0, <1>1, LogSteps DEF WriterInv
<1>3. OrderInv(more)'
  BY <1>0, <1>2, OrderStep
<1>4. ASSUME clock' \notin astray' PROVE HeadInv(more)'
  <2>1. HeadInv(rows) \/ Crash \/ \E q \in Request : Commit(q)
    <3> SUFFICES ASSUME ~Crash, \A q \in Request : ~Commit(q) PROVE HeadInv(rows)
      OBVIOUS
    <3>1. clock \notin astray
      BY <1>0, <1>4, AstrayStep
    <3> QED BY <1>1, <3>1 DEF WriterInv
  <2>2. CASE \E q \in Request : Commit(q)
    <3>1. \A q \in Request : ~LostAck(q) /\ ~ReadLatest(q)
      BY <1>0, <2>2 DEF LostAck, ReadLatest, Commit, TypeInv, CallInv, Busy
    <3> QED BY <1>0, <1>2, <2>1, <3>1, HeadStep
  <2>3. CASE \A q \in Request : ~Commit(q)
    <3>1. clock \notin astray'
      BY <1>0, <1>4, <2>3, AstrayStep
    <3>2. /\ \A q \in Request : ~LostAck(q)
          /\ \A q \in Request : ReadLatest(q) /\ cached = None => LatestHash(table) = LatestHash(written)
      BY <1>0, <3>1, AstrayStep
    <3> QED BY <1>0, <1>1, <1>2, <2>1, <3>2, HeadStep
  <2> QED BY <2>2, <2>3
<1> QED BY <1>0, <1>1, <1>3, <1>4 DEF WriterInv

\* A row of a log that verifies carries the digest, the link and the body of a
\* row the writer committed, and of one only.
LEMMA RowsAreWritten ==
  ASSUME WriterInv, verify_chain(table), NEW r \in table
  PROVE  \E w \in written : /\ r.content_hash = w.content_hash /\ r.prev_hash = w.prev_hash
                            /\ Sha256(r) = Sha256(w)
                            /\ \A v \in written : v.content_hash = r.content_hash => v = w
<1>1. PICK w \in written : r.hmac_signature = w.hmac_signature
  BY DEF WriterInv, SealInv
<1>2. /\ Hmac(r.content_hash, r.prev_hash) = Hmac(w.content_hash, w.prev_hash)
      /\ r.content_hash = Sha256(r) /\ w.content_hash = Sha256(w)
  BY <1>1 DEF WriterInv, SealInv, verify_chain
<1>3. r.content_hash = w.content_hash /\ r.prev_hash = w.prev_hash
  BY <1>2 DEF Hmac
<1>4. ASSUME NEW v \in written, v.content_hash = r.content_hash PROVE v = w
  <2>1. Sha256(v) = Sha256(w)
    BY <1>2, <1>3, <1>4 DEF WriterInv, SealInv
  <2>2. v.record_id = w.record_id
    BY <2>1 DEF Sha256
  <2> QED BY <2>2 DEF WriterInv, TypeInv, IdInv
<1> QED BY <1>2, <1>3, <1>4

\* Nothing makes the writer go astray after w was committed and before v was.
Straight(w, v) == w.created_at < v.created_at
                    /\ \A m \in astray : m <= w.created_at \/ v.created_at < m

\* What the writer committed before a row that is in a log that verifies is in
\* that log before it, unless it went astray in between.
LEMMA NoneMissingBefore ==
  ASSUME WriterInv, verify_chain(table),
         NEW r \in table, NEW v \in written, r.content_hash = v.content_hash,
         NEW w \in written, Straight(w, v)
  PROVE  \E s \in table : s.content_hash = w.content_hash /\ Before(s, r)
<1> DEFINE Found(x, y) == \E s \in table : s.content_hash = y.content_hash /\ Before(s, x)
           Missing(x, y, z) == /\ x.content_hash = y.content_hash
                               /\ Straight(z, y) /\ ~ Found(x, z)
           T == {n \in Nat : \E x \in table, y, z \in written :
                   y.created_at = n /\ Missing(x, y, z)}
<1>0. /\ table \subseteq Row /\ written \subseteq Row /\ OrderInv(written)
      /\ IdInv(written) /\ LinkInv /\ SealInv /\ astray \subseteq Nat
      /\ \A x \in written : x.created_at \in Nat
  BY DEF WriterInv, TypeInv, TypeOK, Row
<1> SUFFICES ASSUME ~ Found(r, w) PROVE FALSE
  OBVIOUS
<1>1. v.created_at \in T
  BY <1>0
<1>2. PICK n \in T : \A m \in T : n <= m
  BY <1>1, NatLeast, T \subseteq Nat
<1>3. PICK x \in table, y \in written, z \in written : y.created_at = n /\ Missing(x, y, z)
  BY <1>2
<1>a. PICK E : E = Earlier(y.created_at)
  OBVIOUS
<1>b. E \in SUBSET Row /\ IdInv(E) /\ z \in E /\ E \subseteq written
  <2>1. E \subseteq written /\ z \in E
    BY <1>a, <1>3 DEF Earlier, Straight
  <2> QED BY <1>0, <2>1, FS_Subset DEF IdInv
<1>c. PICK u \in E : Latest(E, u)
  BY <1>b, LatestExists
<1>d. LatestHash(E) = u.content_hash
  BY <1>b, <1>c, LatestHashIs
<1>e. y.created_at \notin astray
  BY <1>0, <1>3 DEF Straight
<1>4. u \in written /\ y.prev_hash = u.content_hash /\ u.created_at < y.created_at
  BY <1>0, <1>a, <1>b, <1>d, <1>e DEF LinkInv, Earlier
<1>5. x.prev_hash = u.content_hash
  BY <1>3, <1>4, RowsAreWritten
<1>6. u.content_hash # GENESIS_HASH
  <2>1. u.content_hash = Sha256(u)
    BY <1>0, <1>4 DEF SealInv
  <2> HIDE DEF T
  <2> QED BY <2>1 DEF Sha256, GENESIS_HASH
<1>7. PICK p \in table : Adjacent(table, p, x) /\ p.content_hash = u.content_hash
  BY <1>5, <1>6 DEF verify_chain, LinkOk
<1>8. z # u
  BY <1>3, <1>7 DEF Adjacent
<1>9. Straight(z, u)
  <2>1. z.created_at # u.created_at
    BY <1>0, <1>4, <1>8 DEF OrderInv
  <2>2. Before(z, u)
    BY <1>b, <1>c, <1>8 DEF Latest
  <2>3. z.created_at < u.created_at
    BY <2>1, <2>2 DEF Before
  <2>4. \A m \in astray : m <= z.created_at \/ y.created_at < m
    BY <1>3 DEF Straight
  <2> QED BY <1>0, <1>4, <2>3, <2>4 DEF Straight
<1>10. ~ Found(p, z)
  BY <1>0, <1>3, <1>7, BeforeStrict DEF Adjacent
<1>11. u.created_at \in T
  BY <1>0, <1>4, <1>7, <1>9, <1>10
<1>13. n <= u.created_at
  BY <1>2, <1>11
<1>14. u.created_at \in Nat /\ n \in Nat
  BY <1>0, <1>2, <1>4
<1> QED BY <1>3, <1>4, <1>13, <1>14

\* Tamper evidence: with the log in PostgreSQL, any number of requests, restarts
\* and lost acknowledgements, and whatever rows are deleted, altered or put into
\* the table: a log that verify_chain accepts is made of rows the writer
\* committed, and lacks none committed before one of them unless the writer went
\* astray in between, that is, linked a record to another row than its last.
THEOREM TamperEvidence == ASSUME Backend = "postgres" PROVE Spec => []TamperEvident
<1>1. Init => WriterInv
  BY TypeInit DEF Init, WriterInv, SealInv, OrderInv, LinkInv, HeadInv
<1>2. ASSUME WriterInv PROVE TamperEvident
  <2>1. ASSUME verify_chain(table), NEW r \in table, NEW v \in written, NEW w \in written,
               r.content_hash = v.content_hash, Straight(w, v)
        PROVE  \E s \in table : s.content_hash = w.content_hash /\ Before(s, r)
    BY <1>2, <2>1, NoneMissingBefore
  <2> QED BY <1>2, <2>1, RowsAreWritten DEF TamperEvident, Straight
<1>3. Spec => []WriterInv
  BY <1>1, WriterStep, PTL DEF Spec
<1> QED BY <1>2, <1>3, PTL

-----------------------------------------------------------------------------
\* A record body, and an untampered row, is of the customer its call was made for.
OwnerInv ==
  /\ \A q \in Request : body[q] \in Body => body[q].customer_id = Scope[q]
  /\ tampers = 0 => \A r \in table : r.customer_id = Scope[r.request_id]

\* No step attributes a record to someone else.
LEMMA OwnerStep ==
  ASSUME TypeInv, OwnerInv, [Next]_vars
  PROVE  OwnerInv'
<1>0. TypeOK /\ CallInv
  BY DEF TypeInv
<1>1. ASSUME NEW q \in Request, Begin(q) PROVE OwnerInv'
  <2>1. PICK id \in RecordId :
          body' = [body EXCEPT ![q] = [record_id |-> id, customer_id |-> Scope[q], request_id |-> q]]
    BY <1>1 DEF Begin
  <2>2. \A p \in Request : p # q => body'[p] = body[p]
    BY <2>1, <1>0 DEF TypeOK
  <2>3. body'[q].customer_id = Scope[q]
    BY <2>1, <1>0 DEF TypeOK
  <2>4. table' = table /\ tampers' = tampers
    BY <1>1 DEF Begin
  <2> QED BY <2>2, <2>3, <2>4 DEF OwnerInv
<1>2. ASSUME NEW q \in Request, Commit(q) PROVE OwnerInv'
  <2>1. PICK row : row = RowOf(q, clock)
    OBVIOUS
  <2>2. table' = table \cup {row} /\ body' = body /\ tampers' = tampers
    BY <1>2, <2>1 DEF Commit
  <2>3. row.customer_id = body[q].customer_id /\ row.request_id = q /\ body[q] \in Body
    BY <1>0, <1>2, <2>1 DEF RowOf, CallInv, Commit, Busy
  <2> QED BY <2>2, <2>3 DEF OwnerInv
<1>3. ASSUME NEW q \in Request,
             \/ NoScope(q) \/ ReadLatest(q) \/ ReadLatestFails(q) \/ InsertFails(q)
             \/ Ack(q) \/ LostAck(q)
      PROVE  OwnerInv'
  <2>1. body' = body /\ tampers' = tampers /\ table' = table
    BY <1>3 DEF NoScope, ReadLatest, ReadLatestFails, InsertFails, Ack, LostAck
  <2> QED BY <2>1 DEF OwnerInv
<1>6. ASSUME Crash PROVE OwnerInv'
  <2>1. body' = body /\ tampers' = tampers /\ (table' = table \/ table' = {})
    BY <1>6 DEF Crash
  <2> QED BY <2>1 DEF OwnerInv
<1>4. ASSUME Tamper PROVE OwnerInv'
  <2>1. body' = body /\ tampers' # 0
    BY <1>0, <1>4 DEF Tamper, TypeOK
  <2> QED BY <2>1 DEF OwnerInv
<1>5. ASSUME Done \/ UNCHANGED vars PROVE OwnerInv'
  BY <1>5 DEF Done, vars, OwnerInv
<1> QED BY <1>1, <1>2, <1>3, <1>4, <1>5, <1>6 DEF Next, RecordStep

\* The dashboard's list of one customer: each of its rows once, oldest first.
OldestFirst(list, own) ==
  /\ list \in Seq(own)
  /\ \A r \in own : \E k \in 1 .. Len(list) : list[k] = r
  /\ \A j, k \in 1 .. Len(list) : j < k => Before(list[j], list[k])

LEMMA CustomerRecords ==
  ASSUME TypeInv, NEW c, NEW own, own = {r \in table : r.customer_id = c},
         NEW list, list = OfCustomer(_audit_records, c)
  PROVE  OldestFirst(list, own)
<1>0. table \subseteq Row /\ IdInv(table)
  BY DEF TypeInv, TypeOK
<1> DEFINE R == {p \in table \X table : Before(p[1], p[2])}
           all == _audit_records
           n == Cardinality(table)
<1>1. \A r, s \in table : <<r, s>> \in R <=> Before(r, s)
  OBVIOUS
<1>2. all = InOrder(table, R)
  BY DEF _audit_records
<1> HIDE DEF R, n, all
<1>3. StrictOrder(table, R)
  <2>1. \A r \in table : <<r, r>> \notin R
    BY <1>0, <1>1, BeforeStrict
  <2>2. ASSUME NEW r \in table, NEW s \in table, r # s PROVE <<r, s>> \in R \/ <<s, r>> \in R
    <3>1. r \in Row /\ s \in Row /\ r.record_id # s.record_id
      BY <1>0, <2>2 DEF IdInv
    <3> QED BY <1>1, <3>1, BeforeStrict
  <2>3. \A r, s, t \in table : <<r, s>> \in R /\ <<s, t>> \in R => <<r, t>> \in R
    BY <1>0, <1>1, BeforeStrict
  <2> QED BY <2>1, <2>2, <2>3 DEF StrictOrder
<1>4. /\ n \in Nat /\ all \in [1 .. n -> table]
      /\ \A r \in table : \E k \in 1 .. n : all[k] = r
      /\ \A j, k \in 1 .. n : j < k <=> <<all[j], all[k]>> \in R
  BY <1>0, <1>2, <1>3, InOrderSorts DEF IdInv, n
<1>5. all \in Seq(table) /\ Len(all) = n /\ DOMAIN all = 1 .. n
  BY <1>4
<1> DEFINE I == {i \in DOMAIN all : all[i].customer_id = c}
           m == Cardinality(I)
<1>6. list = At(all, I)
  BY DEF OfCustomer, all
<1>7. I \in SUBSET (1 .. Len(all))
  BY <1>5
<1> HIDE DEF I, m
<1>8. PICK p \in [1 .. m -> I] :
         /\ m \in Nat /\ list \in Seq(table) /\ Len(list) = m
         /\ \A k \in 1 .. m : list[k] = all[p[k]]
         /\ \A i \in I : \E k \in 1 .. m : p[k] = i
         /\ \A j, k \in 1 .. m : j < k <=> p[j] < p[k]
  BY <1>5, <1>6, <1>7, AtSelects DEF m
<1>9. \A i \in I : i \in 1 .. n /\ all[i] \in own
  BY <1>4, <1>5 DEF I
<1>10. \A k \in 1 .. m : list[k] \in own
  BY <1>8, <1>9
<1>11. list \in Seq(own)
  BY <1>8, <1>10
<1>12. ASSUME NEW r \in own PROVE \E k \in 1 .. Len(list) : list[k] = r
  <2>1. PICK i \in 1 .. n : all[i] = r
    BY <1>4
  <2>2. i \in I
    BY <1>5, <2>1 DEF I
  <2> QED BY <1>8, <2>1, <2>2
<1>13. ASSUME NEW j \in 1 .. m, NEW k \in 1 .. m, j < k PROVE Before(list[j], list[k])
  <2>1. p[j] \in 1 .. n /\ p[k] \in 1 .. n /\ p[j] < p[k]
    BY <1>8, <1>9, <1>13
  <2>2. <<all[p[j]], all[p[k]]>> \in R /\ all[p[j]] \in table /\ all[p[k]] \in table
    BY <1>4, <2>1
  <2> QED BY <1>1, <1>8, <2>2
<1> QED BY <1>8, <1>11, <1>12, <1>13 DEF OldestFirst

\* The last ViewLimit elements of a list, newest first.
LEMMA NewestShows ==
  ASSUME NEW X, NEW s \in Seq(X),
         NEW from, from = IF Len(s) > ViewLimit THEN Len(s) - ViewLimit + 1 ELSE 1
  PROVE  ToSet(Newest(s)) = {s[i] : i \in from .. Len(s)}
<1> DEFINE t == SubSeq(s, from, Len(s))
           v == Newest(s)
<1>0. Len(s) \in Int /\ from \in Int /\ 1 <= from /\ from <= Len(s) + 1
  BY ViewLimitAssumption
<1>1. Len(t) = Len(s) - from + 1 /\ \A i \in 1 .. Len(t) : t[i] = s[from + i - 1]
  <2>1. \A i \in from .. Len(s) : s[i] \in X
    BY <1>0
  <2>2. /\ Len(t) = IF from <= Len(s) THEN Len(s) - from + 1 ELSE 0
        /\ \A i \in 1 .. Len(s) - from + 1 : t[i] = s[from + i - 1]
    BY <1>0, <2>1, SubSeqProperties
  <2>3. (IF from <= Len(s) THEN Len(s) - from + 1 ELSE 0) = Len(s) - from + 1
    BY <1>0
  <2> HIDE DEF t
  <2> QED BY <2>2, <2>3, Zenon
<1>2. v = [i \in 1 .. Len(t) |-> t[(Len(t) - i) + 1]]
  BY DEF Newest, Reverse
<1> HIDE DEF t, v
<1>3. DOMAIN v = 1 .. Len(t) /\ \A i \in 1 .. Len(t) : v[i] = s[Len(s) - i + 1]
  <2> SUFFICES ASSUME NEW i \in 1 .. Len(t) PROVE v[i] = s[Len(s) - i + 1]
    BY <1>2
  <2>1. Len(t) \in Int /\ i \in Int /\ 1 <= i /\ i <= Len(t)
    BY <1>0, <1>1
  <2>2. /\ (Len(t) - i) + 1 \in 1 .. Len(t)
        /\ from + ((Len(t) - i) + 1) - 1 = Len(s) - i + 1
    <3>1. Len(t) = Len(s) - from + 1
      BY <1>1
    <3>2. (Len(t) - i) + 1 \in 1 .. Len(t)
      BY <2>1
    <3> QED BY <1>0, <2>1, <3>1, <3>2, SMTT(30)
  <2> QED BY <1>1, <1>2, <2>2
<1>4. \A i \in DOMAIN v : \E k \in from .. Len(s) : v[i] = s[k]
  <2> SUFFICES ASSUME NEW i \in DOMAIN v PROVE \E k \in from .. Len(s) : v[i] = s[k]
    OBVIOUS
  <2>1. Len(s) - i + 1 \in from .. Len(s)
    BY <1>0, <1>1, <1>3
  <2> QED BY <1>3, <2>1
<1>5. \A k \in from .. Len(s) : \E i \in DOMAIN v : v[i] = s[k]
  <2> SUFFICES ASSUME NEW k \in from .. Len(s) PROVE \E i \in DOMAIN v : v[i] = s[k]
    OBVIOUS
  <2>1. Len(s) - k + 1 \in 1 .. Len(t) /\ Len(s) - (Len(s) - k + 1) + 1 = k
    BY <1>0, <1>1
  <2> QED BY <1>3, <2>1
<1>6. ToSet(v) = {v[i] : i \in DOMAIN v}
  BY DEF ToSet
<1> QED BY <1>4, <1>5, <1>6 DEF v

\* The dashboard loses none of a customer's acknowledged records but to newer
\* ones of its own, and shows no one else's: for any number of tenants, records
\* and restarts, any page size, and acknowledgements that are lost.
THEOREM DashboardShowsOwn == ASSUME Durable PROVE Spec => []ShowsOwnRecords
<1>1. Init => DurableInv /\ OwnerInv
  BY TypeInit, NoneAssumption DEF Init, DurableInv, RowsInv, OwnerInv
<1>2. ASSUME DurableInv, OwnerInv PROVE ShowsOwnRecords
  <2> SUFFICES ASSUME tampers = 0, NEW c \in Customer, NEW shown, shown = ToSet(audit_view(c)),
                      NEW own, own = {r \in table : r.customer_id = c}
               PROVE  /\ shown \subseteq own
                      /\ \A q \in Request : step[q] = "ok" /\ Scope[q] = c =>
                           \/ \E r \in shown : r.request_id = q
                           \/ /\ Cardinality(shown) = ViewLimit
                              /\ \A r \in shown : \A s \in own : s.request_id = q => Before(s, r)
    BY ZenonT(30) DEF ShowsOwnRecords
  <2>0. TypeInv /\ RowsInv /\ table \subseteq Row /\ ViewLimit \in Nat \ {0}
    BY <1>2, ViewLimitAssumption DEF DurableInv, TypeInv, TypeOK
  <2>a. PICK list : list = OfCustomer(_audit_records, c)
    OBVIOUS
  <2> DEFINE L == Len(list)
             from == IF L > ViewLimit THEN L - ViewLimit + 1 ELSE 1
  <2>1. /\ list \in Seq(own)
        /\ \A r \in own : \E k \in 1 .. L : list[k] = r
        /\ \A j, k \in 1 .. L : j < k => Before(list[j], list[k])
    <3>1. TypeInv
      BY <2>0
    <3>2. OldestFirst(list, own)
      BY <2>a, <3>1, CustomerRecords
    <3> QED BY <3>2 DEF OldestFirst
  <2>2. shown = {list[i] : i \in from .. L}
    BY <2>1, <2>a, NewestShows DEF audit_view
  <2>3. L \in Nat
    BY <2>1
  <2> HIDE DEF L
  <2>4. shown \subseteq own
    BY <2>0, <2>1, <2>2, <2>3 DEF L
  <2>5. ASSUME NEW q \in Request, step[q] = "ok", Scope[q] = c, ~ \E r \in shown : r.request_id = q
        PROVE  /\ Cardinality(shown) = ViewLimit
               /\ \A r \in shown : \A s \in own : s.request_id = q => Before(s, r)
    <3>1. PICK s \in own : s.request_id = q
      BY <1>2, <2>0, <2>5 DEF RowsInv, OwnerInv
    <3>2. PICK i \in 1 .. L : list[i] = s
      BY <2>1
    <3>3. i < from
      BY <2>0, <2>2, <2>3, <2>5, <3>1, <3>2
    <3>4. from \in 1 .. L /\ L > ViewLimit /\ from = L - ViewLimit + 1
      BY <2>0, <2>3, <3>2, <3>3
    <3>5. ASSUME NEW r \in shown, NEW t \in own, t.request_id = q PROVE Before(t, r)
      <4>1. t = s
        BY <2>0, <3>1, <3>5 DEF RowsInv
      <4>2. PICK k \in from .. L : r = list[k]
        BY <2>2
      <4>3. k \in 1 .. L /\ i < k
        BY <2>3, <3>2, <3>3, <3>4, <4>2
      <4> QED BY <2>1, <3>2, <4>1, <4>2, <4>3
    <3>6. Cardinality(shown) = ViewLimit
      <4> DEFINE f == [k \in from .. L |-> list[k]]
      <4>1. \A j, k \in from .. L : j < k => list[j] # list[k]
        <5> SUFFICES ASSUME NEW j \in from .. L, NEW k \in from .. L, j < k, list[j] = list[k]
                     PROVE  FALSE
          OBVIOUS
        <5>1. Before(list[j], list[j]) /\ list[j] \in Row
          BY <2>0, <2>1, <2>2, <2>3, <2>4, <3>4
        <5> QED BY <5>1, BeforeStrict
      <4>2. f \in Bijection(from .. L, shown)
        <5>1. f \in [from .. L -> shown] /\ \A x \in shown : \E k \in from .. L : f[k] = x
          BY <2>2
        <5>2. \A j, k \in from .. L : f[j] = f[k] => j = k
          BY <2>3, <3>4, <4>1
        <5> QED BY <5>1, <5>2 DEF Bijection, Injection, Surjection, IsInjective
      <4>3. IsFiniteSet(from .. L) /\ Cardinality(from .. L) = ViewLimit
        BY <2>0, <2>3, <3>4, FS_Interval
      <4>4. ExistsBijection(from .. L, shown)
        BY <4>2 DEF ExistsBijection
      <4> QED BY <4>3, <4>4, FS_Bijection
    <3> QED BY <3>5, <3>6
  <2> QED BY <2>4, <2>5
<1>3. DurableInv /\ OwnerInv /\ [Next]_vars => DurableInv' /\ OwnerInv'
  BY DurableStep, OwnerStep DEF DurableInv
<1>4. Spec => [](DurableInv /\ OwnerInv)
  BY <1>1, <1>3, PTL DEF Spec
<1> QED BY <1>2, <1>4, PTL
=============================================================================
