--------------------------- MODULE PipelineProofs ---------------------------
(***************************************************************************)
(* What holds of the pipeline for every set of requests, tenants, entities *)
(* and detector capabilities, in every failure mode.                       *)
(***************************************************************************)
EXTENDS Pipeline, TLAPS

\* From authentication on, a task's context is its caller's.
ScopeInv ==
  \A q \in Request : pc[q] \in {"bound", "detecting", "upstream"} =>
    ctx[q] = Caller(q) /\ Caller(q) \in Customer

\* While a gather is open, what the regular detectors that returned recognise
\* in the messages has been reported.
ReportInv ==
  \A q \in Request : pc[q] = "detecting" =>
    \A d \in Detector \ (pending[q] \cup failed[q] \cup {"contextual"}) :
      Finds[d] \cap body[q].messages \subseteq found[q]

Inv == TypeOK /\ ScopeInv /\ ReportInv /\ MapsOnlyWhileAway /\ AnswersAudited

-----------------------------------------------------------------------------
\* The initial state satisfies the invariant.
LEMMA InitInv == ASSUME Init PROVE Inv
<1>1. TypeOK
  BY PipelineAssumption DEF Init, TypeOK, Pc, NoBody
<1> QED
  BY <1>1 DEF Init, Inv, ScopeInv, ReportInv, MapsOnlyWhileAway, AnswersAudited

\* A step in which a request ends and nothing else happens but the purge of
\* its map and, perhaps, the entry of its audit row.
LEMMA EndInv ==
  ASSUME Inv, NEW q \in Request, NEW code \in {0, 200, 400, 401, 500},
         Respond(q, code), maps' = maps \ {q},
         NEW rows \in SUBSET AuditRow, log' = log \cup rows,
         \A r \in rows : r.customer_id = Caller(r.request_id),
         code = 200 => \E r \in rows : r.request_id = q,
         UNCHANGED <<phase, ctx, body, pending, failed, found, sent, exceptions, setting>>
  PROVE  Inv'
<1>1. TypeOK'
  BY DEF Inv, TypeOK, Respond, Pc
<1>2. ScopeInv'
  BY DEF Inv, TypeOK, ScopeInv, Respond, Caller
<1>3. ReportInv'
  BY DEF Inv, TypeOK, ReportInv, Respond
<1>4. MapsOnlyWhileAway'
  BY DEF Inv, TypeOK, MapsOnlyWhileAway, Respond
<1>5. AnswersAudited'
  BY DEF Inv, TypeOK, AnswersAudited, Respond, Caller
<1> QED BY <1>1, <1>2, <1>3, <1>4, <1>5 DEF Inv

\* The same without a row, hence without an answer.
LEMMA EndUnloggedInv ==
  ASSUME Inv, NEW q \in Request, NEW code \in {0, 400, 401, 500},
         Respond(q, code), maps' = maps \ {q}, log' = log,
         UNCHANGED <<phase, ctx, body, pending, failed, found, sent, exceptions, setting>>
  PROVE  Inv'
<1> DEFINE rows == {}
<1>1. /\ rows \in SUBSET AuditRow /\ log' = log \cup rows
      /\ \A r \in rows : r.customer_id = Caller(r.request_id)
      /\ code = 200 => \E r \in rows : r.request_id = q
      /\ code \in {0, 200, 400, 401, 500}
  OBVIOUS
<1> HIDE DEF rows
<1> QED BY <1>1, EndInv

\* Every step of a request preserves the invariant.
LEMMA RequestStep ==
  ASSUME Inv, NEW q \in Request,
         Arrive(q) \/ GatewayStep(q) \/ Upstream(q) \/ Cancel(q)
  PROVE  Inv'
<1>0. TypeOK /\ ScopeInv /\ ReportInv /\ MapsOnlyWhileAway /\ AnswersAudited
  BY DEF Inv
<1>1. ASSUME Arrive(q) PROVE Inv'
  <2>0. PICK c \in Customer \cup {NoCustomer}, b \in Input :
          ctx' = [ctx EXCEPT ![q] = c] /\ body' = [body EXCEPT ![q] = b]
    BY <1>1 DEF Arrive
  <2>1. TypeOK'
    BY <1>0, <1>1, <2>0, PipelineAssumption DEF TypeOK, Arrive, Pc
  <2>2. ScopeInv'
    BY <1>0, <1>1, <2>0 DEF TypeOK, ScopeInv, Arrive, Caller
  <2>3. ReportInv'
    BY <1>0, <1>1, <2>0 DEF TypeOK, ReportInv, Arrive
  <2>4. MapsOnlyWhileAway' /\ AnswersAudited'
    BY <1>0, <1>1 DEF TypeOK, MapsOnlyWhileAway, AnswersAudited, Arrive, Caller
  <2> QED BY <2>1, <2>2, <2>3, <2>4 DEF Inv
<1>2. ASSUME Authenticate(q) PROVE Inv'
  <2>1. TypeOK'
    BY <1>0, <1>2 DEF TypeOK, Authenticate, Pc
  <2>2. ScopeInv'
    BY <1>0, <1>2 DEF TypeOK, ScopeInv, Authenticate, Caller
  <2>3. ReportInv'
    BY <1>0, <1>2 DEF TypeOK, ReportInv, Authenticate
  <2>4. MapsOnlyWhileAway' /\ AnswersAudited'
    BY <1>0, <1>2 DEF TypeOK, MapsOnlyWhileAway, AnswersAudited, Authenticate, Caller
  <2> QED BY <2>1, <2>2, <2>3, <2>4 DEF Inv
<1>3. ASSUME HandleChat(q) PROVE Inv'
  <2>1. TypeOK'
    BY <1>0, <1>3 DEF TypeOK, HandleChat, Pc
  <2>2. ScopeInv'
    BY <1>0, <1>3 DEF TypeOK, ScopeInv, HandleChat, Caller
  <2>3. ReportInv'
    BY <1>0, <1>3 DEF TypeOK, ReportInv, HandleChat
  <2>4. MapsOnlyWhileAway' /\ AnswersAudited'
    BY <1>0, <1>3 DEF TypeOK, MapsOnlyWhileAway, AnswersAudited, HandleChat, Caller
  <2> QED BY <2>1, <2>2, <2>3, <2>4 DEF Inv
<1>4. ASSUME NEW d \in Detector, DetectorReturns(q, d) PROVE Inv'
  <2>0. PICK s \in SUBSET (Finds[d] \cap body[q].messages) :
          /\ found' = [found EXCEPT ![q] = @ \cup s]
          /\ d # "contextual" => s = Finds[d] \cap body[q].messages
    BY <1>4 DEF DetectorReturns
  <2>1. TypeOK'
    BY <1>0, <1>4, <2>0, PipelineAssumption DEF TypeOK, DetectorReturns, Pc
  <2>2. ScopeInv'
    BY <1>0, <1>4 DEF TypeOK, ScopeInv, DetectorReturns, Caller
  <2>3. ReportInv'
    BY <1>0, <1>4, <2>0 DEF TypeOK, ReportInv, DetectorReturns
  <2>4. MapsOnlyWhileAway' /\ AnswersAudited'
    BY <1>0, <1>4 DEF TypeOK, MapsOnlyWhileAway, AnswersAudited, DetectorReturns, Caller
  <2> QED BY <2>1, <2>2, <2>3, <2>4 DEF Inv
<1>5. ASSUME NEW d \in Detector, DetectorRaises(q, d) PROVE Inv'
  <2>1. TypeOK'
    BY <1>0, <1>5 DEF TypeOK, DetectorRaises, Pc
  <2>2. ScopeInv'
    BY <1>0, <1>5 DEF TypeOK, ScopeInv, DetectorRaises, Caller
  <2>3. ReportInv'
    BY <1>0, <1>5 DEF TypeOK, ReportInv, DetectorRaises
  <2>4. MapsOnlyWhileAway' /\ AnswersAudited'
    BY <1>0, <1>5 DEF TypeOK, MapsOnlyWhileAway, AnswersAudited, DetectorRaises, Caller
  <2> QED BY <2>1, <2>2, <2>3, <2>4 DEF Inv
<1>6. ASSUME Forward(q) PROVE Inv'
  <2>1. TypeOK'
    BY <1>0, <1>6, SMTT(30) DEF TypeOK, Forward, Gathered, Pc
  <2>2. ScopeInv'
    BY <1>0, <1>6 DEF TypeOK, ScopeInv, Forward, Gathered, Caller
  <2>3. ReportInv'
    BY <1>0, <1>6 DEF TypeOK, ReportInv, Forward, Gathered
  <2>4. MapsOnlyWhileAway' /\ AnswersAudited'
    BY <1>0, <1>6 DEF TypeOK, MapsOnlyWhileAway, AnswersAudited, Forward, Gathered, Caller
  <2> QED BY <2>1, <2>2, <2>3, <2>4 DEF Inv
<1>7. ASSUME RejectKey(q) \/ RejectPlan(q) \/ RejectStream(q) \/ RaiseFailure(q)
      PROVE Inv'
  <2>1. pc[q] # "upstream" /\ UNCHANGED <<maps, log>>
    BY <1>7 DEF RejectKey, RejectPlan, RejectStream, RaiseFailure, Gathered
  <2>2. PICK code \in {400, 401, 500} : Respond(q, code)
    BY <1>7 DEF RejectKey, RejectPlan, RejectStream, RaiseFailure
  <2>3. maps' = maps \ {q} /\ log' = log
    BY <1>0, <2>1 DEF MapsOnlyWhileAway
  <2>4. UNCHANGED <<phase, ctx, body, pending, failed, found, sent, exceptions, setting>>
    BY <1>7 DEF RejectKey, RejectPlan, RejectStream, RaiseFailure
  <2> QED BY <2>2, <2>3, <2>4, EndUnloggedInv
<1>8. ASSUME Answer(q) \/ AuditRaises(q) \/ UpstreamRaises(q) PROVE Inv'
  <2> DEFINE row == [request_id |-> q, customer_id |-> ctx[q]]
  <2>1. row \in AuditRow /\ row.customer_id = Caller(row.request_id) /\ row.request_id = q
    BY <1>0, <1>8 DEF ScopeInv, AuditRow, Answer, AuditRaises, UpstreamRaises
  <2>2. PICK rows \in {{}, {row}}, code \in {200, 500} :
          /\ log' = log \cup rows /\ Respond(q, code)
          /\ code = 200 => rows = {row}
    BY <1>8 DEF Answer, AuditRaises, UpstreamRaises
  <2> HIDE DEF row
  <2>3. maps' = maps \ {q} /\ rows \in SUBSET AuditRow
        /\ UNCHANGED <<phase, ctx, body, pending, failed, found, sent, exceptions, setting>>
    BY <1>8, <2>1 DEF Answer, AuditRaises, UpstreamRaises
  <2> QED BY <2>1, <2>2, <2>3, EndInv
<1>9. ASSUME Cancel(q) PROVE Inv'
  <2> QED BY <1>9, EndUnloggedInv DEF Cancel
<1> QED
  BY <1>1, <1>2, <1>3, <1>4, <1>5, <1>6, <1>7, <1>8, <1>9
  DEF GatewayStep, Admission, Routed, Detection, Dispatch, Upstream

\* So does every other step.
LEMMA NextInv == ASSUME Inv, [Next]_vars PROVE Inv'
<1>1. ASSUME NEW c \in Customer, NEW e \in Entity,
             AddException(c, e) \/ RemoveException(c, e)
      PROVE Inv'
  <2>1. UNCHANGED <<phase, pc, ctx, body, pending, failed, found, sent, maps, log, status, setting>>
    BY <1>1 DEF AddException, RemoveException
  <2>2. exceptions' \in [Customer -> SUBSET Entity]
    <3>1. exceptions \in [Customer -> SUBSET Entity]
      BY DEF Inv, TypeOK
    <3>2. exceptions' = [exceptions EXCEPT ![c] = @ \cup {e}] \/ exceptions' = [exceptions EXCEPT ![c] = @ \ {e}]
      BY <1>1 DEF AddException, RemoveException
    <3> QED BY <3>1, <3>2
  <2> QED BY <2>1, <2>2 DEF Inv, TypeOK, ScopeInv, ReportInv, MapsOnlyWhileAway, AnswersAudited, Caller
<1>2. ASSUME Stop \/ ForceQuit \/ LifespanExit PROVE Inv'
  <2>1. /\ UNCHANGED <<pc, ctx, body, pending, failed, found, sent, log, status, exceptions, setting>>
        /\ phase' \in {"stopping", "forced", "stopped"}
    BY <1>2 DEF Stop, ForceQuit, LifespanExit
  <2>2. maps' = maps
    BY <1>2 DEF Stop, ForceQuit, LifespanExit, Inv, MapsOnlyWhileAway, InFlight
  <2> QED BY <2>1, <2>2 DEF Inv, TypeOK, ScopeInv, ReportInv, MapsOnlyWhileAway, AnswersAudited, Caller
<1>3. ASSUME UNCHANGED vars PROVE Inv'
  BY <1>3 DEF vars, Inv, TypeOK, ScopeInv, ReportInv, MapsOnlyWhileAway, AnswersAudited, Caller
<1> QED BY <1>1, <1>2, <1>3, RequestStep DEF Next, Ended

\* The invariant holds in every behaviour of the pipeline.
THEOREM Invariance == Spec => []Inv
<1> QED BY InitInv, NextInv, PTL DEF Spec

\* The variables of the pipeline keep their types.
THEOREM Typing == Spec => []TypeOK
BY Invariance, PTL DEF Inv

\* Originals are in memory exactly while a request is away at the provider.
THEOREM MapLifetime == Spec => []MapsOnlyWhileAway
BY Invariance, PTL DEF Inv

\* Whoever is answered has been audited, under the right name.
THEOREM FailClosed == Spec => []AnswersAudited
BY Invariance, PTL DEF Inv

\* Whatever a trusted detector recognises in the messages of a request is
\* masked when the request leaves, unless its own caller excepted it.
THEOREM Masking == Spec => MessagesMasked
<1>1. ASSUME Inv, [Next]_vars, NEW q \in Request,
             pc[q] = "detecting", pc'[q] = "upstream",
             NEW d \in Trusted(q) \ {"contextual"}
      PROVE sent'[q].messages \cap Finds[d] \subseteq exceptions[Caller(q)]
  <2>1. Forward(q)
    <3>1. ASSUME NEW p \in Request, p # q,
                 Arrive(p) \/ GatewayStep(p) \/ Upstream(p) \/ Cancel(p)
          PROVE FALSE
      BY <1>1, <3>1 DEF Inv, TypeOK, Arrive, GatewayStep, Admission, Routed, Detection,
         Dispatch, Upstream, Cancel, Authenticate, RejectKey, RejectPlan, RejectStream,
         HandleChat, DetectorReturns, DetectorRaises, RaiseFailure, Forward, Answer,
         AuditRaises, UpstreamRaises, Respond
    <3>2. ASSUME Arrive(q) \/ GatewayStep(q) \/ Upstream(q) \/ Cancel(q)
          PROVE Forward(q)
      BY <1>1, <3>2 DEF Inv, TypeOK, Arrive, GatewayStep, Admission, Routed, Detection,
         Dispatch, Upstream, Cancel, Authenticate, RejectKey, RejectPlan, RejectStream,
         HandleChat, DetectorReturns, DetectorRaises, RaiseFailure, Answer,
         AuditRaises, UpstreamRaises, Respond
    <3>3. pc' # pc
      BY <1>1
    <3> QED BY <1>1, <3>1, <3>2, <3>3
            DEF Next, vars, AddException, RemoveException, Stop, ForceQuit, LifespanExit, Ended
  <2>2. d \notin failed[q] /\ d \in Detector
    BY <1>1, <2>1 DEF Trusted, Forward, MustRaise
  <2>3. Finds[d] \cap body[q].messages \subseteq found[q]
    BY <1>1, <2>1, <2>2 DEF Inv, ReportInv, Forward, Gathered
  <2>4. sent'[q].messages = body[q].messages \ (found[q] \ exceptions[Caller(q)])
    BY <1>1, <2>1 DEF Inv, TypeOK, ScopeInv, Forward, Gathered
  <2> QED BY <2>3, <2>4
<1>2. ASSUME Inv, [Next]_vars
      PROVE [\A q \in Request : pc[q] = "detecting" /\ pc'[q] = "upstream" =>
               \A d \in Trusted(q) \ {"contextual"} :
                 sent'[q].messages \cap Finds[d] \subseteq exceptions[Caller(q)]]_vars
  BY <1>1, <1>2
<1> QED BY <1>2, Invariance, PTL DEF Spec, MessagesMasked

-----------------------------------------------------------------------------
CState == [q \in Request |-> ContractState(q)]
Logged == {r.request_id : r \in log}

\* A step that keeps pc and status keeps the contract's view of the requests.
LEMMA SameState ==
  ASSUME UNCHANGED <<pc, status>>
  PROVE  CState' = CState
BY DEF CState, ContractState

\* A step that moves one request moves the contract's view of that one only.
LEMMA OneState ==
  ASSUME TypeOK, NEW q \in Request, NEW p \in Pc \ {"done"},
         pc' = [pc EXCEPT ![q] = p], status' = status
  PROVE  /\ p # "upstream" => CState' = [CState EXCEPT ![q] = "received"]
         /\ p = "upstream" => CState' = [CState EXCEPT ![q] = "forwarded"]
<1>1. \A r \in Request : r # q => ContractState(r)' = ContractState(r)
  BY DEF TypeOK, ContractState
<1>2. pc'[q] = p
  BY DEF TypeOK
<1>3. CASE p # "upstream"
  <2>1. ContractState(q)' = "received"
    BY <1>2, <1>3 DEF ContractState
  <2> QED BY <1>1, <1>3, <2>1 DEF CState
<1>4. CASE p = "upstream"
  <2>1. ContractState(q)' = "forwarded"
    BY <1>2, <1>4 DEF ContractState
  <2> QED BY <1>1, <1>4, <2>1 DEF CState
<1> QED BY <1>3, <1>4

\* A request that ends is answered or failed in the contract's view.
LEMMA EndState ==
  ASSUME TypeOK, NEW q \in Request, NEW code \in Nat, Respond(q, code)
  PROVE  /\ code = 200 => CState' = [CState EXCEPT ![q] = "answered"]
         /\ code # 200 => CState' = [CState EXCEPT ![q] = "failed"]
<1>1. \A r \in Request : r # q => ContractState(r)' = ContractState(r)
  BY DEF TypeOK, ContractState, Respond
<1>2. pc'[q] = "done" /\ status'[q] = code
  BY DEF TypeOK, Respond
<1>3. CASE code = 200
  <2>1. ContractState(q)' = "answered"
    BY <1>2, <1>3 DEF ContractState
  <2> QED BY <1>1, <1>3, <2>1 DEF CState
<1>4. CASE code # 200
  <2>1. ContractState(q)' = "failed"
    BY <1>2, <1>4 DEF ContractState
  <2> QED BY <1>1, <1>4, <2>1 DEF CState
<1> QED BY <1>3, <1>4

\* One more row in the log enters its request.
LEMMA LoggedRow ==
  ASSUME NEW q, log' = log \cup {[request_id |-> q, customer_id |-> ctx[q]]}
  PROVE  Logged' = Logged \cup {q}
<1> DEFINE row == [request_id |-> q, customer_id |-> ctx[q]]
<1>1. row.request_id = q /\ log' = log \cup {row}
  OBVIOUS
<1> HIDE DEF row
<1> QED BY <1>1 DEF Logged

\* The contract's variables, as the pipeline sees them.
CVars == <<CState, maps, Logged>>

\* A step inside the gateway is no step of the contract.
LEMMA InternalStep ==
  ASSUME Inv, NEW q \in Request,
         \/ Arrive(q) \/ Authenticate(q) \/ HandleChat(q)
         \/ \E d \in Detector : DetectorReturns(q, d) \/ DetectorRaises(q, d)
  PROVE  CVars' = CVars
<1>0. maps' = maps /\ Logged' = Logged
  BY DEF Arrive, Authenticate, HandleChat, DetectorReturns, DetectorRaises, Logged
<1>1. CASE \E d \in Detector : DetectorReturns(q, d) \/ DetectorRaises(q, d)
  BY <1>0, <1>1, SameState DEF DetectorReturns, DetectorRaises, CVars
<1>2. CASE Arrive(q) \/ Authenticate(q) \/ HandleChat(q)
  <2>1. PICK p \in Pc \ {"upstream", "done"} : pc' = [pc EXCEPT ![q] = p]
    BY <1>2 DEF Arrive, Authenticate, HandleChat, Pc
  <2>2. status' = status
    BY <1>2 DEF Arrive, Authenticate, HandleChat
  <2>3. pc[q] \notin {"upstream", "done"}
    BY <1>2 DEF Arrive, Authenticate, HandleChat
  <2>4. CState[q] = "received" /\ CState = [CState EXCEPT ![q] = CState[q]]
    BY <2>3 DEF CState, ContractState
  <2>5. CState' = [CState EXCEPT ![q] = "received"]
    BY <2>1, <2>2, OneState DEF Inv
  <2> QED BY <1>0, <2>4, <2>5 DEF CVars
<1> QED BY <1>1, <1>2

\* A request that ends before it was forwarded is refused.
LEMMA RefuseStep ==
  ASSUME Inv, NEW q \in Request, InFlight(q), pc[q] # "upstream",
         NEW code \in {0, 400, 401, 500}, Respond(q, code),
         maps' = maps, log' = log
  PROVE  Contract!Refuse(q)
<1>1. CState[q] = "received"
  BY DEF CState, ContractState, InFlight
<1>2. CState' = [CState EXCEPT ![q] = "failed"]
  <2>1. code \in Nat /\ code # 200
    OBVIOUS
  <2> QED BY <2>1, EndState DEF Inv
<1>3. Logged' = Logged
  BY DEF Logged
<1> QED BY <1>1, <1>2, <1>3 DEF Contract!Refuse, CState, Logged

\* A forwarded request that ends without a 200 fails.
LEMMA FailStep ==
  ASSUME Inv, NEW q \in Request, pc[q] = "upstream",
         NEW code \in {0, 500}, Respond(q, code), maps' = maps \ {q},
         log' \in {log, log \cup {[request_id |-> q, customer_id |-> ctx[q]]}}
  PROVE  Contract!Fail(q)
<1>1. CState[q] = "forwarded"
  BY DEF CState, ContractState
<1>2. CState' = [CState EXCEPT ![q] = "failed"]
  <2>1. code \in Nat /\ code # 200
    OBVIOUS
  <2> QED BY <2>1, EndState DEF Inv
<1>3. Logged' \in {Logged, Logged \cup {q}}
  <2>1. CASE log' = log
    BY <2>1 DEF Logged
  <2>2. CASE log' # log
    BY <2>2, LoggedRow
  <2> QED BY <2>1, <2>2
<1> QED BY <1>1, <1>2, <1>3 DEF Contract!Fail, CState, Logged

\* Every step of the pipeline is a step of the contract or a stutter.
LEMMA ContractStep ==
  ASSUME Inv, [Next]_vars
  PROVE  [Contract!Next]_(Contract!vars)
<1> DEFINE Goal == [Contract!Next]_(Contract!vars)
<1>0. CVars' = CVars => Goal
  BY DEF CVars, CState, Logged, Contract!vars
<1>a. ASSUME NEW q \in Request, Contract!Refuse(q) \/ Contract!Forward(q)
                                \/ Contract!Answer(q) \/ Contract!Fail(q)
      PROVE Goal
  BY <1>a DEF Contract!Next
<1> HIDE DEF Goal
<1>1. ASSUME NEW q \in Request,
             RejectKey(q) \/ RejectPlan(q) \/ RejectStream(q) \/ RaiseFailure(q)
      PROVE Goal
  <2>1. InFlight(q) /\ pc[q] # "upstream" /\ maps' = maps /\ log' = log
    BY <1>1 DEF RejectKey, RejectPlan, RejectStream, RaiseFailure, Gathered, InFlight
  <2>2. PICK code \in {0, 400, 401, 500} : Respond(q, code)
    BY <1>1 DEF RejectKey, RejectPlan, RejectStream, RaiseFailure
  <2> QED BY <1>a, <2>1, <2>2, RefuseStep
<1>2. ASSUME NEW q \in Request, Forward(q) PROVE Goal
  <2>1. CState[q] = "received"
    BY <1>2 DEF Forward, Gathered, CState, ContractState
  <2>2. "upstream" \in Pc \ {"done"}
    BY DEF Pc
  <2>3. CState' = [CState EXCEPT ![q] = "forwarded"]
    BY <1>2, <2>2, OneState DEF Forward, Inv
  <2>4. Logged' = Logged /\ maps' = maps \cup {q}
    BY <1>2 DEF Forward, Logged
  <2>5. Contract!Forward(q)
    BY <2>1, <2>3, <2>4 DEF Contract!Forward, CState, Logged
  <2> QED BY <1>a, <2>5
<1>3. ASSUME NEW q \in Request, Answer(q) PROVE Goal
  <2>1. CState[q] = "forwarded"
    BY <1>3 DEF Answer, CState, ContractState
  <2>2. CState' = [CState EXCEPT ![q] = "answered"]
    BY <1>3, EndState, 200 \in Nat DEF Answer, Inv
  <2>3. Logged' = Logged \cup {q} /\ maps' = maps \ {q}
    BY <1>3, LoggedRow DEF Answer
  <2>4. Contract!Answer(q)
    BY <2>1, <2>2, <2>3 DEF Contract!Answer, CState, Logged
  <2> QED BY <1>a, <2>4
<1>4. ASSUME NEW q \in Request, AuditRaises(q) \/ UpstreamRaises(q) PROVE Goal
  <2>1. pc[q] = "upstream" /\ Respond(q, 500) /\ maps' = maps \ {q}
        /\ log' \in {log, log \cup {[request_id |-> q, customer_id |-> ctx[q]]}}
    BY <1>4 DEF AuditRaises, UpstreamRaises
  <2> QED BY <1>a, <2>1, FailStep
<1>5. ASSUME NEW q \in Request, Cancel(q) PROVE Goal
  <2>1. InFlight(q) /\ Respond(q, 0) /\ maps' = maps \ {q} /\ log' = log
    BY <1>5 DEF Cancel
  <2>2. CASE pc[q] = "upstream"
    BY <1>a, <2>1, <2>2, FailStep
  <2>3. CASE pc[q] # "upstream"
    <3>1. maps' = maps
      BY <2>1, <2>3 DEF Inv, MapsOnlyWhileAway
    <3> QED BY <1>a, <2>1, <2>3, <3>1, RefuseStep
  <2> QED BY <2>2, <2>3
<1>6. ASSUME NEW c \in Customer, NEW e \in Entity,
             AddException(c, e) \/ RemoveException(c, e)
      PROVE Goal
  BY <1>0, <1>6, SameState DEF AddException, RemoveException, CVars, Logged
<1>7. ASSUME Stop \/ ForceQuit \/ LifespanExit PROVE Goal
  <2>1. maps' = maps
    BY <1>7 DEF Stop, ForceQuit, LifespanExit, Inv, MapsOnlyWhileAway, InFlight
  <2> QED BY <1>0, <1>7, <2>1, SameState DEF Stop, ForceQuit, LifespanExit, CVars, Logged
<1>8. ASSUME UNCHANGED vars PROVE Goal
  BY <1>0, <1>8, SameState DEF vars, CVars, Logged
<1>9. ASSUME NEW q \in Request,
             Arrive(q) \/ GatewayStep(q) \/ Upstream(q) \/ Cancel(q)
      PROVE Goal
  BY <1>0, <1>1, <1>2, <1>3, <1>4, <1>5, <1>9, InternalStep
  DEF GatewayStep, Admission, Routed, Detection, Dispatch, Upstream
<1>10. Goal
  BY <1>6, <1>7, <1>8, <1>9 DEF Next, Ended
<1> QED BY <1>10 DEF Goal

\* The pipeline implements the contract of a request: originals held exactly
\* from forwarding to the end, no answer without its audit record.
THEOREM Refinement == Spec => ImplementsContract
<1>1. Init => Contract!Init
  BY DEF Init, Contract!Init, ContractState
<1> QED BY <1>1, ContractStep, Invariance, PTL DEF Spec, ImplementsContract, Contract!Spec
=============================================================================
