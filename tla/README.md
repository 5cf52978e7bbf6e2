# TLA+ verification of the AI Privacy Gateway

The gateway stands between a company's applications and a language-model
provider abroad. It authenticates a chat request, detects sensitive text with
three detectors, replaces it by synthetic values, sends the sanitised request
upstream, puts the originals back into the answer, and writes a hash-chained
audit record before the answer is given. This directory holds TLA+ models of
that program, TLC configurations that check them on small instances, and TLAPS
proofs of the properties that matter most.

Source paths below are relative to the repository; the implementation is in its
directory `src/`. `PROJECT.json` has the exact lines each definition stands for.

    tlc -workers 2 -config audit_faults.cfg MCAuditChain     # one run
    tlapm AuditChainProofs.tla                                 # one proof module

## 1. Inventory

| Component | State it keeps | Operations | Interacts with |
|---|---|---|---|
| Request pipeline and API (`proxy/`) | the task of each request; nothing between requests | `authenticate`, `chat_completions`, `Pipeline.handle_chat`, lifespan | calls every other part; awaits detectors and upstream |
| Tenant scope (`tenancy/scope.py`) | a contextvar per task | `bind_customer`, `require_customer` | bound by `authenticate`, required by pipeline, stores and audit writer |
| Audit log (`audit/`) | the table `audit_log` (or a list); `_cached_latest` in the process | `record`, `verify_chain`, `latest_hash`, `append` | called by the pipeline at the end of a request; blocks the event loop on a second loop's thread |
| Session maps (`substitution/session_map.py`) | a map per request, encrypted; the registry of maps; two levels of locks | `open`, `close`, `sweep_idle`; `add`, `reverse`, `purge` | opened and closed by the pipeline |
| Substitution (`substitution/engine.py`, `components.py`, `synthetic.py`) | none | `apply_substitution`, `reverse_substitution`, `decompose`, `synthetic_for` | takes the merge result, fills the session map |
| Merge engine (`merge/engine.py`) | none | `merge`: three filters, `_resolve_overlaps`, `_pick_cluster_winner` | takes what all detectors report, gives what is masked |
| Detectors (`detectors/structural.py`, `countries/algeria.py`, `ner.py`, `contextual.py`) | none | `detect` of each; `_merge_overlapping`, `_parse_detections` | run together under `asyncio.gather`; NER asks a token classifier, the contextual one a language model |
| Rule and exception stores (`rules/`) | the tables of rules and exceptions, or dictionaries | `upsert_tier3`, `delete_tier3`, `list_for_customer`; `add`, `remove`, `list_active` | exceptions written by the dashboard, rules by their administration; read by retrieval and by the merge step of each request |
| Retrieval (`retrieval/engine.py`) | none | `retrieve`, `_rank_by_keyword` | reads the rule store for the contextual detector |
| Dashboard (`dashboard/routes.py`) | none | `activity`, `audit_view`, the rule and exception pages | reads the audit log, writes exceptions |
| Master-plane client and telemetry (`master_client/`) | none | `build_batch`, `push_telemetry` | sends counters abroad |
| Database schema, configuration, logging, API schemas | none | read or run once at start | |

What is hard here, and what makes each part right:

* **Concurrency.** Requests interleave at every `await`; detectors of one request
  finish in any order and fail one by one; the tenant is in a contextvar a task
  inherits. *Nothing recognised leaves unmasked, nothing is attributed or exempted
  by another tenant's settings.* Threads race for session maps. *A purged map stays
  empty, a closed one is purged, none is lost.*
* **Failure.** Statements fail, acknowledgements get lost, the process dies between
  commit and cache. *An answered request has exactly one record, and the chain
  verifies.* The provider or the audit fails while originals are in memory. *No
  answer without a record, no map after the request.*
* **Hostile edits.** Someone edits, inserts or deletes rows of the audit table.
  *What verifies was written so, and the places where a gap can close are known.*
  Customers write rules under any id. *Vendor rules stay, tenants do not meet.*
* **Order of data.** Detections, rows and dictionary entries come in any order.
  *Accepted spans are disjoint, clusters are what overlap connects, what is dropped has
  no say, every baseline rule and the best own rules are used, replacement does not
  disturb what was replaced before.*
* **Odd data.** A language model answers anything. *Only true quotes go on, no item
  fails the request or costs another one.* Check digits have carries and remainders of zero.
* **Time.** Requests wait for a provider, maps for a sweep. *Every request ends,
  a sweep takes every idle map and spares one just used.*

`PROJECT.json` lists each such place with its line (`hazards`) and the property
that would notice it going wrong; five have none, for the reasons given there.

## 2. Modules

| Module | Models | State | Actions |
|---|---|---|---|
| `AuditChain` | `AuditWriter` over both backends, the database between its statements | `table`, `cached` (`_cached_latest`), `loop` (who holds the event-loop thread), `step`/`body`/`prev` of each call, `clock` (the database's), `written`, `astray` and `tampers` as history | the steps of `record`: scope, body, `latest_hash`, `append`, cache; their failures, lost answer; `Crash`, a restart inside or between calls; `Tamper`, a row inserted, altered in any column or deleted |
| `AuditView` | the dashboard's pages over that log | none of its own | none: `audit_view` is an operator over every state of `AuditChain` |
| `Pipeline` | authentication, route, `handle_chat`, gather, upstream, exceptions, shutdown | per request `pc`, `ctx` (the contextvar), `body`, `pending`/`failed`/`found` (the gather), `sent`, `status`; `maps`, `log`, `exceptions`, `phase`; `setting` (the failure mode and whose key each request presents, fixed at the start) | one per await-free stretch of the handler and per way it ends |
| `RequestContract` | what a caller may rely on: abstract | `st`, `held`, `logged` | `Refuse`, `Forward`, `Answer`, `Fail` |
| `SessionMap` | `EncryptedSessionMap` and `SessionMapStore` with their locks | `pc` of each thread, `purged`, `entries`, `last_access`, `registry`; the sweep's `lock`, `now`, `toScan`, `stale`, `reaping`; `clock`; `touched` as history | one per critical section of `open`, `add`, `reverse`, `close`, `sweep_idle` |
| `Lists` | Python's `sorted`, conditional comprehensions, `for` loops | | operators |
| `Identifiers` | RIB key, Luhn digit, their generators | | operators |
| `Detectors` | the three detectors, down to token runs, items and digits | | operators |
| `Merge` | `MergeEngine.merge` | | operators |
| `DetectionStage` | gather of the detectors, then `merge` | `input`, `stage`, `detections`, `result` | `Detect`, `Merge` |
| `RuleStore` | both stores over both backends | `rules`, `exceptions`, `actor` (who called last) | one per method that writes |
| `Retrieval` | `HybridRetriever.retrieve` over that store | `asked` | `Retrieve`, between any calls of the store |
| `Substitution` | `apply_substitution`, `reverse_substitution`, `decompose`, `synthetic_for`, the choices of an answer, over the characters of texts | `segments`, `pick` (where the hash falls), `forward`, `response`, `reverse`, `reply` | `Sanitise`, `Answer`, `Desanitise` |
| `Telemetry` | `build_batch`, `push_telemetry` | `batch`, `built`, `refused`, `received` | `build_batch`, `push_telemetry`, `PushFails` |

`AuditView` extends `AuditChain`, `Retrieval` extends `RuleStore`, `DetectionStage`
extends `Merge` and `Detectors`; `Pipeline` instantiates `RequestContract` with the
mapping that forgets detection. What `Pipeline` needs of the parts it calls it keeps
at their interface: detectors recognise sets of entities, a session map is there or
not, a record is written or the call raises. The other modules say why that is all
they show. `MC...` modules hold the instances, `...Proofs` modules the theorems:
`ListProofs` and `IdentifierProofs` are the libraries of lemmas on `Lists` and
`Identifiers`; `RetrievalProofs` proves the store and retrieval over it,
`DetectionProofs` the detectors and the merge engine.

Two backends exist for the rule and exception stores. `RuleStore` has both, but the
application always wires the in-memory ones (`proxy/app.py:113-115`): what is shown of
Postgres is shown of code the gateway does not yet use, and of what it does use the
runs show that `VendorRulesImmutable` fails, unless the customers' rule ids are apart.
The audit log is over either, as `audit_store_backend` says.

Operators named after a mutation (`ExtendNearest`, `LimitFirst`, ...) are no part of
the model: each is a plausible bug in the definition that follows it, and replacing
the definition by it makes a property fail in its run.

## 3. Model checking

### Runs that pass

| Run | Question | Instance (distinct states) |
|---|---|---|
| `audit_faults` | types; the chain breaks only by a lost acknowledgement or by tampering; returned calls have one record; a log that verifies was written so, and where rows can be missing from it; tenants see their own newest records | 4 calls, 2 tenants and one without, failing statements, lost acknowledgements, restarts and one edit of any column, insertion or deletion, pages of 1 record (1 446 020) |
| `pipeline` | types; answers audited under the right tenant; maps only while away; masking; refinement of `RequestContract`; every request ends, every map is purged | 2 requests, 2 entities; 2 tenants in strict mode, a tenant and a stranger in `audit_only`, a tenant and a broken plan in `fallback`; with fairness (444 944) |
| `session_maps` | purged stays empty, closed is purged, none lost, a sweep spares what was used and takes what was idle | 2 request threads and the sweep, 5 instants, time-out 2, with fairness (77 079) |
| `detection` | what the detectors hand on and survive; check digits; disjointness, components, independence of order, no say for what is dropped | every list of up to 3 spans of 4 characters, every labelling of 3 tokenisations, every pair of 18 odd items with 4 sets of exceptions in 2 modes, numbers of 14 to 21 digits (59 384) |
| `rules` | vendor rules immutable, tenants isolated, baseline complete, best own rules taken in order; Postgres, ids that collide | 2 customers in 2 countries, 5 rule ids, 2 terms, limit 2 for up to 3 own rules (39 250) |
| `substitution` | splicing, the round trip, restoration of every mention and of nothing else when surfaces do not collide, novel entities | up to 3 segments and every hash, an echo or any answer, 4 segments and pieces together, and 0 to 2 choices (148 710) |

### Runs that show a disagreement

Each checks one statement of the repository's documents or comments that the code
does not keep; `PROJECT.json` quotes the sentences.

| Run | What TLC shows |
|---|---|
| `audit_lost_ack` | An INSERT commits, its acknowledgement is lost, the cached hash stays behind: the next record breaks the chain for good. |
| `pipeline_failure_modes` | The table of failure modes (`docs/ARCHITECTURE.md:145-147`) is kept in no row: a detector failure in strict mode is answered 500, not 503; in `audit_only` mode the request is not forwarded as it came, what the other detectors found is masked; in `fallback` mode it goes to the provider all the same, there is no local model. TLC prints the first it meets, usually that of strict mode. |
| `merge_bridge` | A loser that overlaps another loser but not the winner of its cluster is masked by nothing. |
| `rules_memory_vendor` | In memory, a customer's upsert under a vendor rule's id replaces the vendor rule for all. |
| `substitution_custom` | Two custom entities of a request share a placeholder; both come back as the second. |
| `telemetry_text` | A sentence of up to 64 characters passes in a counter and reaches the master plane. |

### Other disagreements met while modelling

They can be read off the definitions named here and have no run of their own.

* `UpstreamRaises`: an unreachable provider is answered 500; `docs/ARCHITECTURE.md`
  says 502.
* `SweepStart`: nothing in the program calls `sweep_idle`, the only code that acts on
  the idle timeout. A request that hangs keeps its originals in memory for ever,
  although `substitution/session_map.py:5`, the repository's `README.md:21` and
  `docs/ARCHITECTURE.md:124` promise that maps are purged on an idle timeout. No
  fairness is assumed that would hide this (section 4).
* `_pick_cluster_winner`: the boost starts from the winner's confidence, not from the
  greatest of the cluster. A span NER reports with 0.85 and the contextual detector
  with 0.96 is accepted with 0.90, where `merge/engine.py:11-12` says max + 0.05: a
  second opinion can lower a confidence. No property is stated of it; nothing after
  `merge` reads the value.
* `Replace`: surfaces are replaced inside longer words, on purpose, as the synthetic
  dictionary is said to avoid common words (`substitution/engine.py:95-97`). It does
  not: with Blida replaced by Oran, the word Orange of the same request comes back as
  Blidage.
* `Forward`: body fields other than `messages` leave as they came.
* `SweepScan` and `SweepPop`: a map used between its examination and its purge is
  purged although it is active; `RecentlyUsedSurvive` says that nothing else is.
* `Overflows`: an integer too large for a float in a confidence is the one item that
  raises out of `_parse_detections` and fails the request in strict mode.
* `_replace_response_text`: of an answer with several choices only the first is
  restored.
* `TamperEvident`: `docs/ARCHITECTURE.md:136-137` has the head of the chain anchored
  outside and compared; the code does neither. Rows cut off at the end are not
  noticed, and a writer that is restarted over what is left, or that keeps an older
  hash after a lost acknowledgement, links to it and closes the gap for good. The
  property says that a gap can be nowhere else.
* `Picks`: a value that is in the dictionary can be replaced by itself.
* `Before`: rows are verified in order of the database clock. The model assumes
  it is never set back; if it is, an intact chain fails verification.

### Why the bounds are enough

* Audit: a broken link takes a record whose acknowledgement went wrong and one
  after it; the third shows that the chain recovers or does not. Two tenants make
  re-attribution possible. One edit changes any column of a row, with
  or without its digest, or puts in or takes out a row; with a restart it closes a gap
  in the middle of three records. Several edits are covered by the theorem
  `TamperEvidence`, which has no bound on them. A view of one record is the least that can cut off the wrong one.
* Pipeline: every interaction is between two requests, or one request and a
  change of exceptions or a shutdown. Two entities make one detector's failure
  different from another's. Each failure mode has a request that goes all the way,
  and each way to be refused a caller. The proofs remove the bounds.
* Session maps: races are between one request and the sweep; the second request
  makes the sweep take several steps under the lock. Five instants let a map
  become idle, be used and become idle again.
* Detection: three detections are the least number that form a chain in which the
  ends do not touch; four characters hold it. Algorithms that sort and sweep
  decide by comparing neighbours, so longer inputs add repetition. Items are parsed
  one by one: two show that an odd one leaves its neighbour alone. Account numbers
  are linear in each digit, so bodies with one digit that is not zero at each place,
  and their mistypings, meet every weight.
* Substitution: three segments hold two different entities with a repetition or a
  plain text between, without a blank at the border where no plain text is. The
  entities include a name in three words one of which is in the dictionary, a name in
  one word, a type with an empty dictionary and one that is kept; the plain word
  *Orange* holds a synthetic city. `MaxSize` bounds segments and pieces of the answer
  together, so that long answers go with short requests.
* Stores: a call involves one row and one caller; the other customer, the vendor
  and a free id are the three kinds of owner it can meet.

`MaxClock`, `MaxTampers`, `ViewLimit`, `MaxItems`, `MaxOdd`, `MaxSegments`,
`MaxSize`, `MaxMetrics` and `MaxBatches` are the bounds; the rest is finite by the
choice of constants. Deadlock is checked except where an algorithm runs once and
stops (`DetectionStage`, `Substitution`) and in the runs that end at a violation;
`AuditChain` and `Pipeline` have an explicit final step.

## 4. Fairness

* `Pipeline!GatewayFairness`: weak fairness of each request's own steps. asyncio
  runs every ready task; the structural and NER detectors compute and return; the
  contextual one has a request time-out. A cancelled task gets its exception.
* `Pipeline!UpstreamFairness`: the provider answers or the client's time-out ends
  the call (`proxy/upstream.py` sets one). It also covers `audit.record`, which
  the model takes as ending; a database that hangs is outside it and stops the
  whole loop, as the hazard list says.
* `SessionMap!Fairness`: time passes, and a call of `sweep_idle` or of `close`, once
  begun, goes on to its end. Request threads are otherwise not fair: they may hang.
  That a sweep begins is not assumed, for nothing in the gateway calls it: `DueIsSwept`
  speaks of sweeps that were begun.

## 5. Proofs

Assumptions on constants are the named `ASSUME`s of each module; most only say what
kind of thing a constant is. `DetectionStage` also states what the code relies on in
the libraries behind the detectors: spans and tokens lie within the text
(`InputAssumption`), tokens come in order and only special ones are empty
(`TokenAssumption`); and `None` is no entity type and no span (`NullAssumption`). Of a
language model's reply nothing is assumed but that numbers are numbers. TLC evaluates
every assumption on the instances it checks.

**ListProofs.** The provers here cannot instantiate an induction rule that takes a
predicate. They can instantiate one about sets, so `SetInduction` is proved for sets
of numbers, from well-foundedness, and everything that runs through a list rests on
it: `FiniteGreatest`; `InOrderSorts` (sorting by a strict total order lists each
element once and in order); `AtSelects`, `FilterLists`, `ConcatLists`, `PrefixLists`
(what comprehensions, `+` and slices keep); `FilterTwice` (two filters in a row are
one filter by both conditions); `AtEnumerates` and `SameEnumeration` (a comprehension
draws the chosen positions in order, and there is one way to do so); `Recursion` (a
loop has a run) and `RunStays` (a run keeps what each round keeps). `Lists` defines
sorting, filtering and looping so that these apply.

**AuditChainProofs.** `Reliable` means no tampering and no lost acknowledgement,
`Durable` that a crash does not empty the log.

* `Typing`: type correctness, with every fault and any number of alterations.
* `BreaksOnlyByLostAck` (either backend, any faults) and its special case
  `ChainAlwaysVerifies` (under `Reliable`). That the chain verifies is not
  inductive: it says nothing of the hash a call is about to link to. `HeadInv`
  adds who knows the head of the chain and when: the cache, except between a
  commit and its acknowledgement; the call that has read it; the committed call,
  which is the head. `OrderInv` makes the new row the last in reading order,
  `CallInv` makes the calling thread the only writer. The central lemma is
  `AppendVerifies`: adding a last row that links to the old head keeps the log
  verifiable. `LossInv` keeps all this as long as no call has raised although its
  row is there; a call that did stays one unless a restart empties the log
  (`EndIsFinal`), and an empty log verifies.
* `AckedHaveOneRow` (under `Durable`): by `RowsInv`, which ties the stage of each
  call to the rows of its request. No assumption on acknowledgements.
* `TamperEvidence` (over Postgres, where rows can be changed behind the writer). What
  is done to `table` says nothing of the next state, so the invariant speaks of
  `written` instead: `WriterInv` makes the writer's own rows a chain of which the cache
  keeps the head, whatever happens to the table, except at the times in `astray`, when
  the writer takes another row for the head (`AstrayStep`, `LinkStep`); `SealInv` says
  that every signature in the table is one the writer made. A row that verifies is then
  a written one (`RowsAreWritten`), its signed link names the row before it, and by
  induction along the log none is missing that no such time lies behind
  (`NoneMissingBefore`).
* `DashboardShowsOwn` (under `Durable`): by `OwnerInv` (rows belong to the customer of
  their call) and `RowsInv`, and by what sorting, selecting and cutting a list keep
  (`CustomerRecords`, `NewestShows`).

**PipelineProofs.** `Inv` = types, `ScopeInv` (from authentication on the context
is the caller's), `ReportInv` (while a gather is open, what the detectors that
returned recognise has been reported), `MapsOnlyWhileAway`, `AnswersAudited`.
`Typing`, `MapLifetime` and `FailClosed` are its parts; `Masking` proves the
action property `MessagesMasked` from `ScopeInv` and `ReportInv`; `Refinement`
proves that `Pipeline` implements `RequestContract`: internal steps stutter, and
each way a request ends is the matching step of the contract.

**SessionMapProofs.** `Inv` = types, `SweepInv` (what the store's lock protects),
`StageInv` (registered maps are in use) and the three properties, proved together
because each needs the others at one step of the race: `PurgeIsFinal`,
`CloseMeansPurged`, `NoMapIsLost`, for any number of threads; `Typing` is its first
part. `SweepSpares` proves `RecentlyUsedSurvive` on top of `Inv`: `TimeInv` adds
that the sweep's time is set while the lock is held, so that what the scan finds idle
was idle at that time, and every use after the scan is noted in `touched`.

**RetrievalProofs.** Under `Guarded` (Postgres, or in memory with ids apart). First
the stores: `VendorRulesImmutable` needs two more facts, `OwnersMatchTiers`, because
the upsert's `WHERE` compares owners while the property speaks of tiers, and
`OwnersChose`, because over the dictionary it is the caller's choice of id that
protects. `StepChangesOwn` says that a step changes only rows its caller owns;
`VendorRulesSafe` and `Isolation` follow from it, `Typing` from the invariant.

Then retrieval, on top of the store's invariant, which is what ties the seeded country
rules to the ones handed out. `AskedInv` says that an answer is `retrieve` of some
listing of the rules its caller sees. `BaselineChecked`: both vendor tiers are in it
whole, and nothing of another tenant. `BestTaken`: the ranking lists each relevant own
rule once, best first (`RankLists`), and the cut keeps its prefix (`HandedOut`).

**IdentifierProofs.** What the check digits catch, for every number and not only those
of the run. The remainder is computed digit by digit (`ModLoops`), and ten has an
inverse modulo 97: two numbers that differ in one digit have different remainders from
that digit on, since a later digit is added to both alike (`RemaindersKept`); so do two
numbers with neighbours swapped, because they differ there by nine times the difference
of the digits (`DigitShows`, `SwapShows`; `KeySwapShows` for a swap across the border of
body and key). A number is valid exactly when its remainder with the key's digits is
zero (`KeyChecks`), hence `MistypedFails`. `RibForValid`: the generator appends the key
the check computes, which is never 00. `LuhnForHolds`: the generator's sum runs from the
right and the test's from the left, so the sums are compared place by place
(`Backwards`), and the digit appended is what is missing to a multiple of ten.

**DetectionProofs.** `StageInv` says what each stage leaves to the next, for any
request.

* `QuotesAlways` and `ItemsCannotFail` go through each detector: digit runs
  (`StructuralSound`), united spans (`StubSound`, by the loop of
  `_merge_overlapping`), token runs (`OnnxSound`, by the loop over tokens; that no
  flushed span is empty needs tokens in order), items (`ContextualSound`, by
  `ConfidenceInRange`).
* `ItemsKeptApart`: a readable item that quotes the text gives a detection wherever it
  stands in the reply, since each item is judged by itself; `HearsOut` in `StageInv`
  carries it through the concatenation of the detectors' lists (`ConcatHears`).
* `DisjointAlways`: that clusters lie apart after one pass holds because the spans
  are sorted and the pass keeps the greatest end. `ClusterInv` states it round by
  round, `RoundKeeps` proves it kept, and `ResolvedApart` hands it to the winners:
  each is in its cluster (`WinnerInCluster`), which needs the ranking to have an
  unbeaten element (`SomeUnbeaten`), and the boost does not move it
  (`WinnerKeepsSpan`).
* `Components`: that clusters are not larger than overlap makes them. `JoinInv` adds
  to `ClusterInv` that the last cluster has a member that reaches to its end, so that
  what joins overlaps it (`RoundJoins`); a cluster in which each member overlaps an
  earlier one cannot be split (`ChainedConnects`).

* `MistypedRibsCaught` and `SyntheticsPass`: by `IdentifierProofs`. What detector A
  reports as an account is a valid number, which `StageInv` keeps through the
  constructor and the concatenation (`Genuine`).
* `OrderNeverMatters`: it compares `merge` on two lists. The clusters of either, as
  sets of detections (`BlocksOf`), are connected and apart, and a set has only one
  such division (`BlockInside`, `BlockSame`); the filters leave the same set of
  either (`LeftSet`). In a block the winner is unbeaten and starts first among the
  unbeaten (`WinsBest`), and two such have one span, since they rank equal
  (`BestSpan`). The accepted spans are thus the same set, and a list of disjoint
  ascending spans is determined by its set (`SpansEqual`).
* `DroppedChangeNothing`: the list without one report draws the same detections but
  one (`RemovedIs`, `DrawsWithout`). The three filters of `merge` amount to one
  (`FilteredOnce`); when they drop that report, what they leave is drawn from the same
  places of either list, and there is one way to do so (`SameEnumeration`), so that the
  overlaps resolved are the same.
* `PlacesKept`: detector B place by place. For the stub, `StubInv` says after each
  name that the places of the names so far are those of the spans so far; that a name
  which is united with the last span starts no earlier than it needs the sorting
  (`LastBegins`). For the token loop, `Traces` says that no marked place is lost and
  that a place added lies between two tokens of a type and belongs to no token
  (`FreeBetween`); `Rising` and `Current`, that the spans ascend and that the open one
  ends where the last token did, are what makes it inductive (`OnnxKeeps`). Both need
  the constructor not to raise (`StubSound`, `OnnxSound`). `NerInv` places the reports
  in the middle of what was detected, between those of detectors that never sign as
  `ner`. The theorem has the hypothesis `TokensApart`: tokens follow one another, as a
  tokenizer gives them and as the run's instance assumes. Without it the statement is
  false: a token inside the one before it makes the span end earlier and loses places.

**SubstitutionProofs.** `ForwardAlwaysSplices`, for any segments, dictionaries and
salt: `apply_substitution` walks from the left with a cursor and collects pieces, the
reference replaces spans in place from the last to the first. Both are runs of a loop
(`GoesFromLeft`, `GoesFromRight`). `SameFromBothEnds` goes down from the last span: the
reference's text is untouched up to the end of the n-th span and goes on with some rest,
and the pieces of the first n spans followed by that same rest are the final result; at
n = 0 the two are equal. It needs the spans ascending, disjoint and within the text
(`AcceptedSpans`, from how segments are laid out, `TextGrows`); sorting them changes
nothing then (`StartsRise`, `AscendingStays`).

**Only model-checked.**

* Liveness (`RequestsEnd`, `MapsPurged`, `DueIsSwept`): it rests on fairness.
* `RoundTripApart`, `MentionsRestored` and `NovelAreForeign`, the properties of
  reversal. `Replace` recurses over the characters of an answer; what it computes is an
  induction over data, with a different text at each call. The three are not true of
  arbitrary dictionaries: they hold where no mention has two meanings (`Unambiguous`)
  and where a surface is found only inside a mention that still stands (`NoCollision`),
  which is how the comment in `substitution/engine.py` justifies replacing surfaces
  anywhere. The code does not check it; `substitution_custom` shows a request with an
  ambiguous mention, and a word that contains a synthetic value is one with a collision.

## 6. Not modelled, and why

* Model inference in NER, the patterns for names, the phone library and the prompt
  of the contextual detector: data without control. What they find is an input of
  `DetectionStage` and a set of recognised entities in `Pipeline`.
* The formats of generated phone numbers and e-mail addresses, of which no decision
  depends on more than that they are strings.
* AES-GCM, sha256 and HMAC: taken as ideal.
* A database that never answers, and a second gateway process on one audit table:
  the lock around an append is inside one process, and the repository deploys one.
* `fetch_plan_flags` and `validate_license`, reads that nothing calls, and the pages
  of the dashboard that only list what `list_for_customer` and `list_active` return.
* Configuration, logging, schemas and migration: no state to check.
* `search_keywords`, which nothing calls, and `reset_customer`, likewise.

## 7. Plan

Done, in this order: the audit chain, the pipeline with its contract, the session
maps, the merge engine, the rule stores, retrieval, substitution; proofs for the
first three and the stores; then the detectors with the merge engine as one stage,
check digits, the dashboard's audit view over a log under all four faults, the
choices of an answer, telemetry, and what the sweep spares; then a library of lemmas
on lists and loops, tamper evidence, the dashboard's view, retrieval, and the
detection stage from the engines' answers to disjoint spans.

After that the remaining safety properties of the detection stage (check digits, order,
dropped reports, the places of detector B) and the splicing of `apply_substitution`;
then restarts between calls and every kind of edit in the audit log, substitution over
characters, and the failure modes and the idle timeout as the documents promise them.

What is left is the reversal: `Replace` written as a loop over positions, so that
`MentionsRestored` can be proved from `Unambiguous` and `NoCollision`.
