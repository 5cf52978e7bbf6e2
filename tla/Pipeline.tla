------------------------------ MODULE Pipeline ------------------------------
(***************************************************************************)
(* The life of chat requests in the gateway: authenticate (proxy/auth.py), *)
(* the route (proxy/routes.py), Pipeline.handle_chat (proxy/pipeline.py)   *)
(* and the shutdown of the application (proxy/app.py).                     *)
(*                                                                         *)
(* The gateway is one asyncio event loop, so what lies between two awaits  *)
(* that really suspend is one step: the dependencies FastAPI resolves in a *)
(* thread pool, the gather of the three detectors and the call of the      *)
(* upstream provider.  Awaits of the in-memory rule and exception stores   *)
(* never suspend, and audit.record blocks the loop until it ends.          *)
(*                                                                         *)
(* Abstractions.  An entity is a piece of sensitive text; entities do not  *)
(* overlap (Merge treats spans), and an entity reported by a detector with *)
(* enough confidence and not excepted is masked by its synthetic.          *)
(***************************************************************************)
EXTENDS Naturals, FiniteSets

CONSTANTS Request,      \* chat requests
          Customer,     \* tenants
          NoCustomer,   \* an unknown or missing key; no bound context
          BadPlan,      \* customers whose record has an invalid plan
          Entity,       \* pieces of sensitive text
          Input,        \* request bodies: entities in the messages and elsewhere
          Finds,        \* Finds[d]: entities detector d recognises
          Setting       \* what a run of the gateway may be given: see setting

Detector == {"structural", "ner", "contextual"}

ASSUME PipelineAssumption ==
  /\ NoCustomer \notin Customer
  /\ BadPlan \subseteq Customer
  /\ Input \subseteq [messages: SUBSET Entity, fields: SUBSET Entity]
  /\ Finds \in [Detector -> SUBSET Entity]
  /\ Setting \subseteq [mode: {"strict", "audit_only", "fallback"},
                          caller: [Request -> Customer \cup {NoCustomer}]]

VARIABLES setting,     \* the configured mode, and caller[q]: whose API key q
                       \* presents, or NoCustomer; fixed when the process starts
          phase,       \* of the process: running, stopping, forced, stopped
          pc,          \* pc[q]: how far q has got
          ctx,         \* ctx[q]: the contextvar of q's task
          body,        \* body[q]: the request body
          pending,     \* pending[q]: detectors of q's gather still running
          failed,      \* failed[q]: detectors of q that raised
          found,       \* found[q]: entities reported to q
          sent,        \* sent[q]: entities that left for upstream in clear
          maps,        \* requests with a live map in the SessionMapStore
          log,         \* rows of the audit log
          status,      \* status[q]: HTTP status of the response, 0 if none
          exceptions   \* exceptions[c]: entities c declared not sensitive

vars == <<phase, pc, ctx, body, pending, failed, found, sent, maps, log,
          status, exceptions, setting>>

\* settings.default_failure_mode, and the customer a request's key belongs to.
FailureMode == setting.mode
Caller(q) == setting.caller[q]

Pc == {"new", "arrived", "bound", "detecting", "upstream", "done"}
InFlight(q) == pc[q] \notin {"new", "done"}
AuditRow == [request_id: Request, customer_id: Customer]
NoBody == [messages |-> {}, fields |-> {}]

Init == /\ setting \in Setting
        /\ phase = "running"
        /\ pc = [q \in Request |-> "new"]
        /\ ctx = [q \in Request |-> NoCustomer]
        /\ body = [q \in Request |-> NoBody]
        /\ pending = [q \in Request |-> {}]
        /\ failed = [q \in Request |-> {}]
        /\ found = [q \in Request |-> {}]
        /\ sent = [q \in Request |-> NoBody]
        /\ maps = {}
        /\ log = {}
        /\ status = [q \in Request |-> 0]
        /\ exceptions = [c \in Customer |-> {}]

-----------------------------------------------------------------------------
\* The server creates q's task.  Its context is a copy of the context of
\* whatever code created it, which may be an earlier request's; only a caller
\* with a valid plan is ever bound.
Arrive(q) ==
  /\ phase = "running" /\ pc[q] = "new"
  /\ \E c \in (Customer \ BadPlan) \cup {NoCustomer} : ctx' = [ctx EXCEPT ![q] = c]
  /\ \E b \in Input : body' = [body EXCEPT ![q] = b]
  /\ pc' = [pc EXCEPT ![q] = "arrived"]
  /\ UNCHANGED <<phase, pending, failed, found, sent, maps, log, status, exceptions, setting>>

\* The response of q is sent with this status; the task ends.
Respond(q, code) == /\ pc' = [pc EXCEPT ![q] = "done"]
                    /\ status' = [status EXCEPT ![q] = code]

\* authenticate: 401 for a key the directory does not know.
RejectKey(q) ==
  /\ pc[q] = "arrived" /\ Caller(q) = NoCustomer
  /\ Respond(q, 401)
  /\ UNCHANGED <<phase, ctx, body, pending, failed, found, sent, maps, log, exceptions, setting>>

\* authenticate: 500 for a customer record with an unknown plan.
RejectPlan(q) ==
  /\ pc[q] = "arrived" /\ Caller(q) \in BadPlan
  /\ Respond(q, 500)
  /\ UNCHANGED <<phase, ctx, body, pending, failed, found, sent, maps, log, exceptions, setting>>

\* Mutant: a context that is already bound is kept.
AuthenticateOnce(q) ==
  /\ pc[q] = "arrived" /\ Caller(q) \in Customer \ BadPlan
  /\ ctx' = IF ctx[q] = NoCustomer THEN [ctx EXCEPT ![q] = Caller(q)] ELSE ctx
  /\ pc' = [pc EXCEPT ![q] = "bound"]
  /\ UNCHANGED <<phase, body, pending, failed, found, sent, maps, log, status, exceptions, setting>>

\* authenticate: bind_customer replaces whatever context the task inherited.
Authenticate(q) ==
  /\ pc[q] = "arrived" /\ Caller(q) \in Customer \ BadPlan
  /\ ctx' = [ctx EXCEPT ![q] = Caller(q)]
  /\ pc' = [pc EXCEPT ![q] = "bound"]
  /\ UNCHANGED <<phase, body, pending, failed, found, sent, maps, log, status, exceptions, setting>>

\* chat_completions: 400 when the body asks for a stream.
RejectStream(q) ==
  /\ pc[q] = "bound"
  /\ Respond(q, 400)
  /\ UNCHANGED <<phase, ctx, body, pending, failed, found, sent, maps, log, exceptions, setting>>

\* Mutant: the audit record is written first, before anything happened.
HandleChatAudited(q) ==
  /\ pc[q] = "bound" /\ ctx[q] # NoCustomer
  /\ pending' = [pending EXCEPT ![q] = Detector]
  /\ log' = log \cup {[request_id |-> q, customer_id |-> ctx[q]]}
  /\ pc' = [pc EXCEPT ![q] = "detecting"]
  /\ UNCHANGED <<phase, ctx, body, failed, found, sent, maps, status, exceptions, setting>>

\* handle_chat up to the gather: the rules are retrieved and the detectors
\* start, each in a task with a copy of q's context.
HandleChat(q) ==
  /\ pc[q] = "bound" /\ ctx[q] # NoCustomer
  /\ pending' = [pending EXCEPT ![q] = Detector]
  /\ pc' = [pc EXCEPT ![q] = "detecting"]
  /\ UNCHANGED <<phase, ctx, body, failed, found, sent, maps, log, status, exceptions, setting>>

\* A detector returns.  The contextual one asks a language model, whose answer
\* may miss anything, and takes a malformed answer for an empty one.
DetectorReturns(q, d) ==
  /\ pc[q] = "detecting" /\ d \in pending[q]
  /\ LET seen == Finds[d] \cap body[q].messages
     IN  \E s \in IF d = "contextual" THEN SUBSET seen ELSE {seen} :
           found' = [found EXCEPT ![q] = @ \cup s]
  /\ pending' = [pending EXCEPT ![q] = @ \ {d}]
  /\ UNCHANGED <<phase, pc, ctx, body, failed, sent, maps, log, status, exceptions, setting>>

\* Mutant: the results of the gather are not tested for being exceptions, and
\* what was raised is taken for a detection.
DetectorRaisesKept(q, d) ==
  /\ pc[q] = "detecting" /\ d \in pending[q]
  /\ found' = [found EXCEPT ![q] = @ \cup {d}]
  /\ pending' = [pending EXCEPT ![q] = @ \ {d}]
  /\ UNCHANGED <<phase, pc, ctx, body, failed, sent, maps, log, status, exceptions, setting>>

\* A detector raises; gather keeps the exception as its result.
DetectorRaises(q, d) ==
  /\ pc[q] = "detecting" /\ d \in pending[q]
  /\ failed' = [failed EXCEPT ![q] = @ \cup {d}]
  /\ pending' = [pending EXCEPT ![q] = @ \ {d}]
  /\ UNCHANGED <<phase, pc, ctx, body, found, sent, maps, log, status, exceptions, setting>>

\* (Mutant: an exception of a detector is lost, and the gather never returns.)
GatheredCleanly(q) == pc[q] = "detecting" /\ pending[q] = {} /\ failed[q] = {}
Gathered(q) == pc[q] = "detecting" /\ pending[q] = {}
\* (Mutant: failures are skipped in every mode.)
NeverRaise(q) == FALSE
MustRaise(q) == failed[q] # {} /\ FailureMode = "strict"

\* In strict mode the first failure is raised again: no handler, status 500.
RaiseFailure(q) ==
  /\ Gathered(q) /\ MustRaise(q)
  /\ Respond(q, 500)
  /\ UNCHANGED <<phase, ctx, body, pending, failed, found, sent, maps, log, exceptions, setting>>

\* From the gather to the call of the provider: the caller's exceptions are
\* read, the rest is masked, the map is opened and filled, and the body is sent
\* with its messages replaced and its other fields as they came.
Forward(q) ==
  /\ Gathered(q) /\ ~MustRaise(q)
  /\ LET masked == found[q] \ exceptions[ctx[q]]
     IN  sent' = [sent EXCEPT ![q] = [body[q] EXCEPT !.messages = @ \ masked]]
  /\ maps' = maps \cup {q}
  /\ pc' = [pc EXCEPT ![q] = "upstream"]
  /\ UNCHANGED <<phase, ctx, body, pending, failed, found, log, status, exceptions, setting>>

\* The provider answers: entities are looked for in the response (a failure of
\* that is ignored), it is reversed, recorded and returned, and the finally
\* clause closes the map.
Answer(q) ==
  /\ pc[q] = "upstream"
  /\ log' = log \cup {[request_id |-> q, customer_id |-> ctx[q]]}
  /\ maps' = maps \ {q}
  /\ Respond(q, 200)
  /\ UNCHANGED <<phase, ctx, body, pending, failed, found, sent, exceptions, setting>>

\* audit.record raises, with or without its row written: the reversed answer
\* is dropped.
AuditRaises(q) ==
  /\ pc[q] = "upstream"
  /\ log' \in {log, log \cup {[request_id |-> q, customer_id |-> ctx[q]]}}
  /\ maps' = maps \ {q}
  /\ Respond(q, 500)
  /\ UNCHANGED <<phase, ctx, body, pending, failed, found, sent, exceptions, setting>>

\* Mutant: the map is closed on the way to an answer only, not in a finally.
UpstreamRaisesOpen(q) ==
  /\ pc[q] = "upstream"
  /\ Respond(q, 500)
  /\ UNCHANGED <<phase, ctx, body, pending, failed, found, sent, maps, log, exceptions, setting>>

\* The provider cannot be reached, times out, or answers with an error status
\* or something that is not JSON.
UpstreamRaises(q) ==
  /\ pc[q] = "upstream"
  /\ maps' = maps \ {q}
  /\ Respond(q, 500)
  /\ UNCHANGED <<phase, ctx, body, pending, failed, found, sent, log, exceptions, setting>>

-----------------------------------------------------------------------------
\* The dashboard's add_exception and the store's remove, each in one step.
AddException(c, e) ==
  /\ phase = "running" /\ c \notin BadPlan
  /\ exceptions' = [exceptions EXCEPT ![c] = @ \cup {e}]
  /\ UNCHANGED <<phase, pc, ctx, body, pending, failed, found, sent, maps, log, status, setting>>

RemoveException(c, e) ==
  /\ phase = "running" /\ e \in exceptions[c]
  /\ exceptions' = [exceptions EXCEPT ![c] = @ \ {e}]
  /\ UNCHANGED <<phase, pc, ctx, body, pending, failed, found, sent, maps, log, status, setting>>

\* The server is asked to stop: it accepts nothing new and drains.
Stop ==
  /\ phase = "running"
  /\ phase' = "stopping"
  /\ UNCHANGED <<pc, ctx, body, pending, failed, found, sent, maps, log, status, exceptions, setting>>

\* Asked again, it stops waiting: the loop is torn down and its tasks cancelled.
ForceQuit ==
  /\ phase = "stopping"
  /\ phase' = "forced"
  /\ UNCHANGED <<pc, ctx, body, pending, failed, found, sent, maps, log, status, exceptions, setting>>

\* Mutant: the finally clause does not run when the task is cancelled.
CancelOpen(q) ==
  /\ phase = "forced" /\ InFlight(q)
  /\ Respond(q, 0)
  /\ UNCHANGED <<phase, ctx, body, pending, failed, found, sent, maps, log, exceptions, setting>>

\* CancelledError at the await q is suspended in; the finally clause runs.
Cancel(q) ==
  /\ phase = "forced" /\ InFlight(q)
  /\ maps' = maps \ {q}
  /\ Respond(q, 0)
  /\ UNCHANGED <<phase, ctx, body, pending, failed, found, sent, log, exceptions, setting>>

\* The application's lifespan ends: every map that is left is closed.
LifespanExit ==
  /\ phase = "stopping" /\ \A q \in Request : ~InFlight(q)
  /\ maps' = {}
  /\ phase' = "stopped"
  /\ UNCHANGED <<pc, ctx, body, pending, failed, found, sent, log, status, exceptions, setting>>

\* Nothing is left to do.
Ended == /\ \/ phase = "stopped"
            \/ phase = "forced" /\ \A q \in Request : ~InFlight(q)
         /\ UNCHANGED vars

Admission(q) == Authenticate(q) \/ RejectKey(q) \/ RejectPlan(q)
Routed(q)    == RejectStream(q) \/ HandleChat(q)
Detection(q) == \E d \in Detector : DetectorReturns(q, d) \/ DetectorRaises(q, d)
Dispatch(q)  == RaiseFailure(q) \/ Forward(q)
Upstream(q)  == Answer(q) \/ AuditRaises(q) \/ UpstreamRaises(q)

GatewayStep(q) == Admission(q) \/ Routed(q) \/ Detection(q) \/ Dispatch(q)

Next == \/ \E q \in Request : \/ Arrive(q) \/ GatewayStep(q) \/ Upstream(q)
                              \/ Cancel(q)
        \/ \E c \in Customer, e \in Entity : AddException(c, e) \/ RemoveException(c, e)
        \/ Stop \/ ForceQuit \/ LifespanExit \/ Ended

Spec == Init /\ [][Next]_vars

\* The event loop runs every ready task, and a detector returns or raises (the
\* contextual one has a request timeout).
GatewayFairness == \A q \in Request : WF_vars(GatewayStep(q)) /\ WF_vars(Cancel(q))

\* The provider answers or the client's timeout ends the call.
UpstreamFairness == \A q \in Request : WF_vars(Upstream(q))

FairSpec == Spec /\ GatewayFairness /\ UpstreamFairness

-----------------------------------------------------------------------------
\* Types of the requests' state and of the shared stores.
TypeOK ==
  /\ setting \in Setting
  /\ phase \in {"running", "stopping", "forced", "stopped"}
  /\ pc \in [Request -> Pc]
  /\ ctx \in [Request -> Customer \cup {NoCustomer}]
  /\ body \in [Request -> [messages: SUBSET Entity, fields: SUBSET Entity]]
  /\ sent \in [Request -> [messages: SUBSET Entity, fields: SUBSET Entity]]
  /\ pending \in [Request -> SUBSET Detector]
  /\ failed \in [Request -> SUBSET Detector]
  /\ found \in [Request -> SUBSET Entity]
  /\ maps \subseteq Request
  /\ log \subseteq AuditRow
  /\ status \in [Request -> {0, 200, 400, 401, 500, 502, 503}]
  /\ exceptions \in [Customer -> SUBSET Entity]

\* The detectors whose verdict a forwarded request rests on: all of them in
\* strict mode, the ones that did not fail otherwise.
Trusted(q) == IF FailureMode = "strict" THEN Detector ELSE Detector \ failed[q]

\* What a request sends upstream in its messages holds nothing a trusted
\* detector recognises, except what its own caller has excepted at that very
\* moment: no detector is overtaken, no failure ignored in strict mode, no
\* exception of another tenant applied whatever context the task inherited.
\* (The language model of the contextual detector promises nothing.)  What the
\* detectors that did not fail report is masked in audit-only mode too, where
\* docs/ARCHITECTURE.md has the request forwarded unsanitised.
MessagesMasked ==
  [][\A q \in Request : pc[q] = "detecting" /\ pc'[q] = "upstream" =>
       \A d \in Trusted(q) \ {"contextual"} :
         sent'[q].messages \cap Finds[d] \subseteq exceptions[Caller(q)]]_vars

\* What docs/ARCHITECTURE.md tabulates for a detector that fails: strict mode
\* returns 503, audit-only forwards the request unsanitised, and fallback
\* routes it to a local model, so that nothing leaves for the provider.
FailureModesAsTabulated ==
  \A q \in Request : failed[q] # {} =>
    /\ FailureMode = "strict" => status[q] \in {0, 503}
    /\ FailureMode = "audit_only" /\ pc[q] = "upstream" => sent[q] = body[q]
    /\ FailureMode = "fallback" => pc[q] # "upstream"

\* Fail closed: a caller is answered with 200 only when the log has a row for
\* the request, and a row is always attributed to the customer who called.
AnswersAudited ==
  /\ \A q \in Request : status[q] = 200 => \E r \in log : r.request_id = q
  /\ \A r \in log : r.customer_id = Caller(r.request_id)

\* Originals are in memory exactly while the request is away at the provider,
\* however it ends: answer, failure at any point, cancellation or shutdown.
MapsOnlyWhileAway == maps = {q \in Request : pc[q] = "upstream"}

\* A request the gateway accepted ends: with a response, or with the process.
RequestsEnd == \A q \in Request : pc[q] = "arrived" ~> pc[q] = "done"

\* Every session map that is opened is purged.
MapsPurged == \A q \in Request : q \in maps ~> q \notin maps

\* The contract of a request, under the mapping that forgets detection.
ContractState(q) ==
  CASE pc[q] = "upstream"                   -> "forwarded"
    [] pc[q] = "done" /\ status[q] = 200    -> "answered"
    [] pc[q] = "done" /\ status[q] # 200    -> "failed"
    [] pc[q] \notin {"upstream", "done"}    -> "received"

Contract == INSTANCE RequestContract WITH
              st     <- [q \in Request |-> ContractState(q)],
              held   <- maps,
              logged <- {r.request_id : r \in log}

\* The pipeline implements the contract of a request.
ImplementsContract == Contract!Spec

=============================================================================
