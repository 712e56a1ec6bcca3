# Verification of the industrial semantic platform

TLA+ modules, TLC runs and TLAPS proofs for the FastAPI service under `src/app`: a
semantic layer over industrial data (ontology, metrics, governed queries), an
integration runtime that feeds it, and the reliability workflows built on top. The
modules are translated from the code; documents and tests are used only for what the
system is *supposed* to do. `PROJECT.json` maps each definition to its source lines.

Contents: [1 the system](#1-the-system) · [2 the modules](#2-the-modules) ·
[3 the runs](#3-the-runs) · [4 the proofs](#4-the-proofs) ·
[5 where code and documents part](#5-where-code-and-documents-part) ·
[6 what is not modelled](#6-what-is-not-modelled) · [7 the plan](#7-the-plan)

## 1 The system

One FastAPI application (`main.py`, one handler per operation) serves the requests in a
thread pool. `docs/` describe two API replicas over one PostgreSQL database. Two kinds
of state exist:

* documents in `persistence.py`'s repository (collections of JSON documents; `get`,
  `put`, `list` and `delete` of single documents, no transactions over several);
* YAML and JSON files under `config/` and `data/`, kept by the semantic layer, with a
  registry in memory that is loaded from them.

Nearly every store is a read-modify-write over several of these calls. Locks exist for
the editors of the semantic layer and around the small files (data sources, templates,
the answer cache, statistics), never around two repository calls. So the hard behaviours
are the same everywhere: overlapping handlers, a handler or a call that fails half way,
and calls that arrive in an order nobody had in mind.

| component (file) | state | operations | what is hard | what makes it correct |
|---|---|---|---|---|
| Integration runtime (`integration_runtime.py`) | a state row per binding (watermark, schema baseline, retry settings), quality rules, dead letters | configure, state, inspect/accept schema, execute, retry | the row is read, used over many calls and put back whole; failed records are parked one by one | no record that can be mapped disappears, and an unmappable one leaves a letter, if an empty one; the watermark passes over nothing else and never moves back; the baseline changes by acceptance; retries are bounded |
| Data bindings (`data_binding.py`) | binding documents with a status | upsert, approve, execute | an edit in the middle of a run; `errors[:50]` | every record is written or reported |
| Connector SDK, edge agents (`connector_sdk.py`, `edge_agent.py`) | connectors, batches with results, agents | upsert, approve, retire, submit, register, heartbeat | lookup, execution and recording of a batch are apart; network retries; deaths in between | a processed batch is final, and nothing of it is lost but unmappable records; `last_cursor` skips nothing else |
| Semantic registry and its editors (`semantic.py`, `review_store.py`, `template_apply.py`, `field_aliases.py`, `lineage.py`, `config_manager.py`) | base, approved and custom YAML layers, aliases, review file, registry in memory, version list | edit, review, merge, scan, import, apply a template, snapshot, reload | several files per operation, roll-back in code, a scan outside the lock, restart | what is served is the merge of the files; templates apply in full or not at all; decisions survive |
| Query planning (`planner.py`, `metric_graph.py`, `join_path.py`, `governance.py`, `guardrail.py`) | none of their own | resolve, order metrics, find join paths, plan, authorize, check the SQL | recursion and search over user-made graphs; plan, statements and decision are made apart | cycles found, paths shortest, statements within what was authorized |
| The chat endpoint, cache, statistics (`main.py`, `cache_audit.py`, `observability.py`, `runtime_stats.py`) | answers with a TTL and a limit, counts, runtime queries, audit events | ask, preview, clear | an answer cached before the model changed; a failure after it was counted | nobody gets an answer that is not for them; every outcome is accounted for |
| Knowledge base and graph (`knowledge_*.py`, `graph_ingestion.py`) | documents, chunks, vector index, candidates, graph | submit, ingest, approve, retire, supersede, promote, startup ingestion | document, chunks, index, candidate and graph are written in turn | the platform brings only approved knowledge into the graph; what counts as promoted can be found |
| RCA, FMEA, maintenance (`rca_cases.py`, `fmea.py`, `predictive_maintenance.py`) | cases, records, work-order candidates with a status | create, analyze, review, resolve, close; approve, retire; dispatch | lifecycles whose order only a few handlers check | closed was resolved, only confirmed causes are learned, histories explain the status |
| Models (`model_registry.py`, `model_monitoring.py`) | models, deployments (champion and challenger), runs, evaluations, baselines, drift | register, approve, retire, infer, evaluate, set role, promote, roll back, monitor | roles and lifecycles are separate documents | what is deployed was approved |
| Collaboration, escalation, handover, reports (`team_collaboration.py`, `shift_handover.py`, `operations_reporting.py`) | items, comments, events, policies, roster, escalations, notifications, handovers, acknowledgements, reports | assign, hand off, watch, set SLA, comment, evaluate, acknowledge | whole rows put back; escalation and notifications apart; the clock | responsibility is traced, escalations were due, accepted means acknowledged |
| Identity, authentication, audit center (`enterprise_identity.py`, `authentication.py`, `audit_center.py`) | tenants, organizations, sites, principals, audits, events, policies, violations | upsert, login, check, filter, emit, resolve, retain, import | the same rule written twice; events and violations in two calls | lists agree with checks, no event or imported row of a denial goes unnoticed |
| Onboarding, data sources, templates (`enterprise_onboarding.py`, `datasource.py`, `template_store.py`) | sessions, bindings, two JSON files | discover, confirm, post and approve bindings, save, delete, create, update, reset | four writes per confirmation, and others who post the same binding; a file rewritten in place | connected means bound; no save is lost |
| Analytics, workspace, reports, production commands | | | | see `PROJECT.json` |

How they interact: edge agents and connectors call the runtime, the runtime calls the
bindings, and the bindings write to domain services. The editors, the templates, the
reviews and the imports all end in `registry.reload()`; the chat endpoint reads the registry
without a lock, several times per question. The workflows read documents of several stores and write into others.
No component calls back into its caller, and there are no message queues: the
concurrency is that of handlers over shared documents and files.

`PROJECT.json` lists all components, and all hazards by line: what covers each, or why
nothing does yet.

## 2 The modules

```
BatchLedger  <--refines--  ConnectorBatches --EXTENDS--> IntegrationRuntime
                                  ^                         ^          ^
                        MCConnectorBatches    MCIntegrationRuntime  MCOrderlySource

SemanticModel <--EXTENDS-- MCSemanticModel

QueryPlanning <--EXTENDS-- GovernedQuery <--EXTENDS-- MCQuery

KnowledgeLifecycle  ModelGovernance  Collaboration  EnterpriseAccess  Onboarding
         ^                 ^               ^               ^              ^
         +-----------------+--------- MCOperations --------+--------------+
```

The proofs have modules of their own, each of which `EXTENDS` what it is about:

```
IntegrationRuntimeProofs <-- OrderlySourceProofs <-- ConnectorBatchesProofs
SemanticModelProofs      GovernedQueryProofs
KnowledgeLifecycleProofs, ModelGovernanceProofs, MCOperations <-- OperationsProofs
```

### IntegrationRuntime

One binding, and a set of workers (threads of both replicas). `loc[w]` holds the locals
of the handler worker `w` runs; its `pc` says which repository call comes next.
**Every repository call is one action**, so between any two calls of a handler every
other handler may run, the binding may be edited, rules may change, and the handler may
die (`Crash`). Pure code between calls belongs to the action before it.

| variable | code |
|---|---|
| `row` | the binding's document in `integration_binding_state`; `saved` is FALSE until it exists |
| `binding`, `rules` | the binding's status; active quality rules |
| `dlq` | `integration_dead_letters` |
| `applied` | how often a record reached the domain services (`_write`) |
| a letter's `form`, `rec` | what its `record` field holds: the record, its mapped document, or `{}`; and, as history, which record the letter was made for |
| `loc[w].snap` | the row the handler read, and will put back whole |

`StartRun`, `ReadState`, `Bootstrap`, `PutSchema`, ..., `Save` are `execute` in its
order: the gate on the schema, the watermark filter, the quality rules, the dead
letters, the binding's status check, mapping and writes, the reported errors, and the
put of the row. A mapping error comes without its record (`data_binding.py:129`), so its
letter is parked as `{}` (`integration_runtime.py:145`): `Settled` says what the service
still has of a record and does not count such a letter; `Reported`, what the answers told a
client, does. `StartRetry` .. `PutLetter` are `retry_dead_letter`; `Configure`,
`StartSchema` and their steps are the rest. Abstractions: a record is a model value with
a schema (`Shape`), a watermark rank (`Mark`), and whether it can be mapped. The rank is
that of the order the code uses (it compares text), so what the properties say of "later"
is relative to that order. `MaxRequests` and `MaxCrashes` bound the runs.

`OrderlySpec` restricts the clients, not the code: one request at a time, and a payload
only when the answers accounted for earlier records. Some guarantees exist only for such a client.

### ConnectorBatches and BatchLedger

`ConnectorBatches` extends the runtime with one connector, one agent and the batches.
`sub[w]` is the handler of a submission; it calls `execute`, so at `Execute` the steps of
`IntegrationRuntime` are its steps. A submission is `Lookup`, `CheckConnector`,
`CheckAgent`, `Execute`, `Record`, `Fetch`, `Touch`, in the code's order: the last three
are the put of the batch, the read of the connector and the put of its row.
Beside the submissions an operator configures the runtime and retries dead letters
(`Aside`), which writes records of batches once more.
`BatchLedger` is what the documents promise (a batch is new, running, then processed
and final; what failed may be parked, and delivered by a retry whatever became of its batch);
`ImplementsLedger` is the refinement, checked for an orderly agent.

### SemanticModel

One API process. `job` is the handler that holds `semantic_write_lock` (those that wait
have no state); `scan` is `save_candidates`, which runs outside that lock. The files are
`custom`, `metrics`, `approved`, `reviews` (with `torn`: truncated, not written yet) and
`aliases`; `registry` is what the API serves; `versions` is the list of `lineage.py`.
`reload` is four actions (`base`, `approved`, `custom`, `metrics`) because readers see the
registry in between, and because each may fail.

| actions | code |
|---|---|
| `SaveEntity`, `DeleteEntity`, `SaveRelationships`, `AddMetric`, `UpdateMetric`, `DeleteMetric`, `EditAliases` | the editors of `semantic.py` and `field_aliases.py` with the handlers around them |
| `Review`, `Export`, `Collect`, `AddCandidateMetric`, `EndReview` | `review_candidate` in `main.py` over `review_store.py` |
| `StartMerge`, `StartImport`, `ImportPart`, `EndImport` | `semantic_merge`; `config_manager.py`'s import, file by file |
| `StartApply`, `ApplyEntity`, `ApplyMetric`, `ApplyRelationships`, `ApplyAliases`, `EndApply`, `Undo` | `template_apply.py` with its `except` branch |
| `StartScan`, `ScanStep` | `metadata_scan` and posted candidates |
| `Snapshot` | `_snapshot_semantic` |
| `FailJob`, `FailApply`, `FailReviews`, `Restart` | a call that raises, where no branch catches it, in an application and in the review file; a new process |

Abstractions: a relationship is its key (its order and join field are left out); an
entity's definition is one value, and a metric's a function on fields, because the
overlay of metrics is by field; a candidate is its own definition; within a template the
order of definitions of one kind is left open; a write that is not atomic and fails
leaves the file empty, an atomic one leaves it as it was; candidates are posted as
pending in the runs. The custom ontology starts absent or as shipped.

### QueryPlanning and GovernedQuery

`QueryPlanning` has no state: it is the pure part of a question's way to SQL, as
operators over a semantic model and the policies loaded with it.

| operators | code |
|---|---|
| `FindPath` by `Searched`, `Popped`, `Tried`, `Visit` | `find_path` of `join_path.py`: the queue hop by hop, neighbours in the order of the relationships, so that of two equally short routes it returns the one the code does. Functions by recursion on the hop, the path popped and the relationship tried |
| `Ordered` by `Visits`, `Visited`, `Descended` | `ordered` of `metric_graph.py`: `visit` as a recursive function of the walk so far (finished, being visited, failed) and a metric |
| `Resolve` | the rules of `semantic.py` that need no language model |
| `Build`, `Required`, `Statements` | `planner.py`: a statement is the set of entities whose tables it reads, whether it bounds time, and its filters |
| `IntentAllowed`, `ApplyIntent`, `PlanAllowed`, `Cost`, `RowFilters` | `governance.py` |
| `StatementAllowed` | `guardrail.py`: allowlist and time bound |
| `Compile` | `_compile_governed_plan`, in its order |

`GovernedQuery` is `chat` and the preview, with one action per effect: `Miss` (resolution),
`CompilePlan`, `Execute`, `CountSuccess`, `RecordSuccess`, `AuditAllow`, `CacheAnswer`, and
the `except` branch `CountFailure`, `RecordFailure`, `AuditDeny`. `StepFails` is an exception
in any step of the `try` block, after which the branch records a failure on top of whatever
was recorded already; `Dies` is a death, or an exception in the branch itself. `ChangeModel`
and `ReloadPolicies` replace the registry's model and the policies between any two steps;
within one step (a resolution, a compilation) both are read once. The cache is read without its lock, so
a request that reads while another writes may miss what is there. `outcome` is a history of
what each caller was told.

### KnowledgeLifecycle, ModelGovernance, Collaboration, EnterpriseAccess, Onboarding

These five share one form. A request is an action `Serve`-ing a worker the list of calls its
handler will still make (`todo`, `mtodo`, ...), with the rows it computed from what it read;
every call of the list is an action of its own (`PutDoc`, `ListChunks`, `UpsertGraph`,
`PutSlot`, `PutEscalation`, `Violate`, ...), and where the code reads again, the step reads
again and replaces itself by what follows (`RereadCase`, `ReadSlot`, `ReadToChange`,
`Consider`, `SnapshotEscalations`, `MatchPolicies`, `LoadTemplates`). So stale rows are put
back as the code puts them back, and `FailHandler` and its like (a store that raises, a
thread that dies) cut the list anywhere. A row is what its checks tell apart; ids are what
the code makes them of (a chunk: document, text and size; an escalation: item, deadline and
state; a data source: session and name; a violation: event and policy).

| module | variables of interest | worth knowing |
|---|---|---|
| `KnowledgeLifecycle` | `cases`, `candidates`, `docs`, `chunks`, `index`, `fmea`, `graph`; histories `confirmed`, `approved`, `resolved` | `Restart` is the ingestion at startup; `IngestGraphDocument` takes any payload, as its handler does, and the graph keeps as history that it came that way |
| `ModelGovernance` | `models`, `slots` (roles with their history), `runs`; history `wasApproved` | `SetRole` asks the registry before it reads the slot; `Swapped` asks nobody |
| `Collaboration` | `items`, `events`, `escalations`, `notifications`, `handovers`, `acks`, `orders`, `now` | a tick is the due-soon window; policies and roster are read anew for each item of one board |
| `EnterpriseAccess` | `principals`, `audits`, `auditEvents`, `violations`, `retention`, `day` | `Answered` is the middleware: a span and an event after every answer, and nothing for a handler that raises (`RaiseUnhandled`); `audits` holds the six collections an import reads, `good` what really happened and `Condemned` what the import makes of the row |
| `Onboarding` | `sessions`, `bindings`, `sources` (whole or truncated), `templates`, two locks; history `posted` | anybody may post the binding of a name, with any status, and approve it (`PostBinding`, `ApproveBinding`); a death releases the lock (the thread's `with`) and leaves a truncated file as it is |

`MCOperations` runs the five side by side. They share the process and the repository but no
row, so their product has no behaviour that is not one of each; a behaviour therefore has a
`focus`, drawn at the beginning, that names the part that moves, and the state spaces add up.

## 3 The runs

All passing runs set `CHECK_DEADLOCK FALSE`: clients may stop sending, and the bounds on
requests run out. That a handler does not hang is what `RequestsEnd` and `LockReleased`
say instead.

| run | what it checks | bounds, and why they are enough |
|---|---|---|
| `runtime` | `TypeOK`, `RunAccounted`, `LettersSound` under any clients | 2 workers, 3 requests, 1 death, 2 records of different schemas, one rule, `ErrorCap` 1. Every race here is between two handlers; the third request gives a retry something to retry. Both records failing exceeds the cap. |
| `orderly_source` | `WatermarkCovers`, `RetriesCharged`, `WatermarkMonotone`, `BaselineChangesByAccept`, `RequestsEnd` for an orderly client | 4 requests over 3 records in 2 payloads, the last of another schema: run, drift, accept and run again, with a rejected, an unmappable and a drifting record, and a death anywhere. |
| `drift_gate` (violation) | `BaselineChangesByAccept` for two overlapping clients | see section 5 |
| `batches` | `CTypeOK`, `ProcessedIsSettled`, `CursorCovers`, `ImplementsLedger` | 2 batches of 1 record (one cannot be mapped), 3 requests, 1 death: submit, die, resend, go on, or retry what was parked. |
| `batch_retry` (violation) | `ProcessedIsFinal` for overlapping submissions | see section 5 |
| `semantic` | the seven properties of `SemanticModel` | 2 values of each kind, 3 requests, 1 failing call, 1 restart: a template that overlaps an edit and an approved candidate, a scan in the middle of each, a failure in every call. |
| `operations` | fifteen invariants, of `KnowledgeLifecycle`, `ModelGovernance`, `Collaboration`, `EnterpriseAccess` and `Onboarding` | 2 handlers at once, 1 that dies or fails in each module; 4 requests for cases, 3 for documents, 3 for FMEA records, 5 for models, 3 for items, escalation, handovers with orders, 2 for identity, 2 for audit, 3 for an installation with one row of an older audit of any of the six kinds (import, purge, import), 5 for the wizard with posted and approved bindings, 3 for sources and 3 for templates; 1 or 2 keys of each kind; 2 ticks, 2 days. Each hazard is a race of two handlers, or one death, after the requests that set it up: the longest are register, approve, set both roles and swap; and discover and confirm two sessions of one name, and post its binding. |
| `query` | the six properties of `GovernedQuery` and `QueryPlanning` | 2 workers, 2 questions of 2 callers with different roles and row policies, 2 semantic models and 2 sets of policies to reload, 1 fault, a cache of 1 entry that expires after the tick. One question fills the cache, the other meets it. The planning operators on 64 graphs of four entities, a chain longer than the hop limit, and 125 dependency graphs with diamonds, cycles and unknown names. |
| `intermediates` (violation) | `IntermediatesRequired` | see section 5 |
| `template_relationships`, `unversioned`, `merge_during_scan` (violations) | one documented claim each | see section 5 |

What the properties say:

* `RunAccounted`: when a run is about to store its watermark, the records of the payload
  above the watermark it read are in the domain or in a dead letter that holds them. Two
  exceptions are in the code, and the property bounds both: records beyond the `errors[:50]`
  the binding reports, and **unmappable records, whose content is lost while the watermark
  passes them**; the queue has an empty letter for each of the latter.
* `LettersSound`: a letter is resolved only after its record reached the domain. It does not
  forbid that overlapping retries reopen a resolved letter (section 5).
* `WatermarkCovers`, `WatermarkMonotone`, `BaselineChangesByAccept`, `RetriesCharged`:
  what the watermark, the schema gate and the retry counter mean to a client who waits
  for answers (`WatermarkCovers` with the same exception for unmappable records, and they
  leave as many empty letters). All four fail for clients that overlap (the row and the letters are put
  back whole), which `drift_gate` shows for the one the tests state.
* `ProcessedIsSettled`, `CursorCovers`: a stored result and the cursor cover no record that
  was neither written nor kept in a letter, whichever call died, but for unmappable ones with
  their empty letters.
* `RegistryIsMerged`, `VersionsAreMerged`: when nobody holds the lock, the API serves
  the merge of the files (until a call has failed), and a version is never taken of a
  half-loaded registry.
* `AppliedInFull`, `RolledBack`: a template is applied in full, over no definition that
  was there. Only where there was no custom ontology may it cost relationships (section 5,
  finding 3), and those are relationships of the base, not the ones the template adds. If
  anything fails and the roll-back reports no error, it leaves no trace.
* `DecisionsKept`: candidates saved by a scan never undo a decision.
* `LearnedFromConfirmed`, `ClosedWasResolved`: what knowledge candidates and the graph take
  from a case is a cause an engineer gave for it, and a closed case was resolved, although
  every other handler takes a case in any status and puts whole rows back.
* `GraphOnlyApproved`, `PromotedIsSearchable`: across deaths and restarts, what the platform
  itself brings into the graph (approval, promotion, FMEA ingestion, startup) was stored as
  approved before; what a caller of `ingest-document` brings in was not, and is told apart by
  a history (section 5). A candidate that counts as promoted
  has its document and its place in the index.
* `DeployedWereApproved`, `HistoryExplainsRoles`: champion and challenger go back to an
  approval, and the history that is kept explains them.
* `ResponsibilityTraced`, `EscalationWarranted`, `AcceptedHasAck`, `HistoryExplainsOrder`:
  what a row says (assignee, deadline, acceptance, status) has the record that explains it,
  and nothing is escalated, notified or reported as escalated that was not due. The person of
  an acceptance is the one the caller names (`main.py:2024` takes `principal_id` from the
  payload), not an authenticated one. They do not say that a notification follows: a death
  after the escalation leaves it without.
* `FilterAgreesWithCheck`, `DeniedIsViolation`: the scope filter lists exactly what the scope
  check allows; each denied or failed event has its violation, even after retention, and so
  has each imported row of the older audits that tells of a denial or failure, imported once or
  again after a purge. Rows of failed connector batches are the exception: nothing in them says
  that they failed, and the import makes successes of them (section 5). The first compares
  hand-written copies of one rule over all scopes.
* `SavedIsKept`, `ConnectedIsBound`: saves of two requests do not lose each other unless a
  writer died in its rewrite; a connected session has its binding, and once everybody is done
  an approved one, unless somebody's post took its place after the approval.
* `AnswersGoverned`, `CachedWasAudited`, `OutcomesAccounted`: answers, cached or not, stay
  within the roles and row filters of whoever gets them, under the policies in force when
  they were computed; a cached one was audited when it was
  made; what callers were told is in the trail, the telemetry and the counts. A request may
  count twice, as success and as failure, when a step after the count fails; the property
  says no outcome is missing, not that there is only one.
* `PathsAreShortest`, `DependenciesFirst`: path search and metric order against reference
  definitions by sets (`Near`, balls around an entity; `Below`, the least set that holds the
  dependencies of a metric and of whatever it holds).

Fairness. `WF` on a worker's `Step` and `Serve`, and on `JobStep` and `ScanStep`: a
handler that has begun is a function running in a thread of the server's pool, and every
step of it is enabled until it returns. Nothing is assumed of clients, of failures or of
the time a waiting handler gets the lock.

## 4 The proofs

TLAPS checks these for all values of the constants that satisfy the modules' assumptions
(`ParametersAssumption`, `PayloadAssumption`, `SemanticAssumption`, `QAssumption`,
`HopsAssumption`, and the like: types of the parameters, finitely many records and
candidates, limits that are numbers; `ListsAssumption`: relationships and dependencies are
lists and a model names finitely many metrics, as in any JSON document): any number of workers, records, requests, failures and deaths. Of the invariants
the runs check, only `TypeOK` and `FilterAgreesWithCheck` stand alone; what the others need
to be inductive is the content of this section.

Three hypotheses are not types, and appear in the theorems that need them. Each is a named
operator beside the specification, and the runs of orderly clients evaluate them:

| hypothesis | says | without it |
|---|---|---|
| `WatermarkLeftAlone` | nobody configures the watermark | `configure` may set it to anything: it moves back, or over what never came |
| `ErrorsReported` | no payload is longer than `ErrorCap` (50) | failed records from the 51st on are neither written nor in the queue in any form, and the watermark passes over them |
| `SourceBatched` | each record carries its watermark field (its `Mark` is not 0) and belongs to a batch | once a watermark is stored, a record without the field is passed over in silence |

**IntegrationRuntimeProofs**

* `TypeCorrect`: `Spec => []TypeOK`. Inductive as it stands; one step per action. The
  bound of a letter's count is the one part that is not only typing: it rests on the
  check in `CheckRetries` and on the bound of configured settings.
* `RunsAccount`: `Spec => []RunAccounted`. The property speaks of one point of a run, so
  the invariant `AccountInv` says for every `pc` of a run where each record of its payload
  may be: passed over, to be parked, to be written, in `errs`, dropped or reported. Other
  handlers cannot disturb it since `Reported` is never undone (`ReportedStable`): writes only
  grow `applied`, and letters are only appended or change status. From "reported" to what is
  really kept takes a second invariant, `EmptyUnmapped` (only an unmappable record is parked
  as `{}`), and a count (`ReportedLosses`): the records whose content is lost are the records of
  some of the empty letters, so there are no more of them.
* `LettersCorrect`: `Spec => []LettersSound`. `LetterInv` adds what a retry has in hand:
  a handler that is about to put a letter back as resolved has written its record, and a
  letter's record never changes.

**OrderlySourceProofs** (under `OrderlySpec`)

* `WatermarkAdvances`, `BaselineKept`: `WatermarkMonotone` and `BaselineChangesByAccept`. Both
  rest on `OneInv`: while one request is served, `Current` says of each of its points what the
  row it read still has in common with the stored one. Overlapping clients break exactly this,
  as `drift_gate` shows.
* `WatermarkIsCovered`: `[]WatermarkCovers`. `CoverInv` remembers of a run that everything
  earlier in the source was reported when it began, and `PayloadReported` gets from
  `AccountInv` that its own payload is when it puts the row; the count of `RunsAccount` then
  says what became of it.
* `RetriesAreCharged`: `[]RetriesCharged`. Between the write of a retry and the put of its
  letter the count is behind by one; a death there is what `+ crashes` pays for.

**ConnectorBatchesProofs**

* `CTypeCorrect`: `CSpec => []CTypeOK`. `RuntimeSteps` shows that the connector side takes
  only steps of the runtime, so that the runtime's invariants hold under it.
* `ProcessedBatchesSettled`, `CursorSkipsNothing` (under `OrderlyCSpec`): `LinkInv` ties a
  submission to the run it has called, and `BatchInv` says what it relies on when it puts the
  batch, and when it puts the connector back with the new cursor: that all of its batch, and
  all the source had before, is reported. The retries beside it only write more records and
  change statuses of letters.
* `SubmissionImplementsLedger`: `OrderlyCSpec => ImplementsLedger`, without the three
  hypotheses. `LedgerStep` goes through the steps of the code: the check of the agent, with which
  `execute` is entered, is the ledger's `Begin`, a step of `execute` that writes is its `Write`,
  a letter its `Park`, the put of the batch its `Store`, a death or a blocked run its `GiveUp`,
  the read and write of a retry its `Retry`, `Redeliver` or `RetryFails`, and all others stutter
  (`BatchStatus` reads the status off the stored batches and the submissions under way).

**SemanticModelProofs**

* `RegistryCurrent`: `SSpec => []RegistryIsMerged`. `LoadInv` says how far reload has
  come at each `pc` (bare, with the approved layer, with the custom one, complete), and
  that a handler past its edit still has a reload before it.
* `DecisionsSurvive`: `SSpec => DecisionsKept`. `ScanInv`: what a scan will write agrees
  with every decision in the file, unless an import replaced the file in between.
* `STypeCorrect`: `SSpec => []STypeOK`. `TypeInv` adds the job, with `Heading` (where a handler
  is or, within reload, where it goes next): only an application is ever in a roll-back, and
  what it has still to write is part of its template. That the review file is finite gives the
  surest candidate its choice.
* `VersionsComplete`: `SSpec => VersionsAreMerged`, from `LoadInv` and `TypeInv`.
* `RollBackIsComplete`: `SSpec => RolledBack`. `UndoInv` says which files are restored when a
  roll-back without errors gets to each of its steps.
* `ApplicationIsComplete`: `SSpec => AppliedInFull`. `ApplyInv` says of each kind of
  definition what the model will be once the files are reloaded: that of before, overlaid with
  what was written so far, over names that were not there. For relationships it has two cases,
  with and without a custom ontology before. The proof showed an earlier form of the property
  false, which had said that all relationships of the template are there afterwards: those the
  base had already are not saved again, and go with the base's (finding 3). The template of
  the instance had none of these; it has one now.

**GovernedQueryProofs** (nothing is assumed of policies or questions)

* `AnswersObeyPolicies`: `QSpec => []AnswersGoverned`; `CacheIsAudited`: `QSpec =>
  []CachedWasAudited`. `CompileGoverns` is the heart: whatever `Compile` lets pass reads only
  allowed entities, since the gateway compares each statement with the plan's tables and the
  decision compares what the plan requires with the roles, and its metric statement carries
  the row filters. `QInv` carries that along: `JobsOK` says of each phase of a worker that its
  answer is governed, and from which phase on it is recorded and audited; `CacheOK` that each
  entry was made for that question and caller and was audited (`Servable`); `OutcomesOK` the
  same of what callers were told. Needed because a cached answer is given long after the
  steps that made it good. `Persists` shows that none of this is ever taken back.
* `EveryOutcomeAccounted`: `QSpec => []OutcomesAccounted`. The counts say nothing of who was
  counted, so `AccountInv` compares cardinalities: the callers who were told, with the requests
  whose phase says that they are counted but not yet told, are no more than the count
  (`Counts`). `NumbersApart` makes the two disjoint: a request's number is with one worker.
* `QTypeCorrect`: `QSpec => []QTypeOK`. `CacheBounded` is about the limit: `set` adds one entry
  and cuts the entries to the limit before it saves them (`CacheKept`).
* `AnswersAreScoped`: `QSpec => []AnswersScoped`, from the same invariant: the statements of
  an answer are all about one entity, read only bound tables, and bound time where they read
  a series, under the model the answer was compiled against. It rests on
  `StatementsAreScoped`: every statement `Build` makes reads the subject's table.
* `JoinPathsShortest`: `QSpec => []PathsAreShortest`. After `n` hops (`Level`, and `Hopping`
  for the middle of one) the search has visited exactly `Near(o, x)[n]`, and its queue holds
  direct paths to exactly what lies `n` joins away, unless it has found the target at the end
  of one. While a path is extended, what the relationships tried so far join its end to has
  been visited (`Crossed`).
* `PathsReversible`: the searches from either end find paths of the same length, or none.
  This is why `Builds` has no guard for the `find_path` of a diagnostic statement
  (`_path_exists`, which raises without a path): the plan looked for the opposite one. The
  two paths need not visit the same entities, which is finding 6.
* `DependenciesOrdered`: `QSpec => []DependenciesFirst`. First that `visit` is defined at all
  (`VisitsDef`): a nested visit has one metric more in progress, so the recursion ends, and
  its equation has a solution for every set of metrics in progress (`AgreeAt`, by the number
  of those that are not). Then `Walking`: what is ordered comes once and after its
  dependencies, and a walk has failed only if `m` is unsound; what is in progress leads to the
  metric being visited (`Above`), so that to meet it again is a cycle; `VisitReaches` takes a visit through its dependencies.

The library's induction theorems take an operator and cannot be instantiated, so `Stepwise`
derives induction over an interval from the well-foundedness of `<`, for a set, and `Recursion`
the existence of functions by recursion from it. The proof of `JoinPathsShortest` corrected the
reference definition: `Near` must range over all ends of relationships, since the search also
walks over entities that the model does not define.

**KnowledgeLifecycleProofs, ModelGovernanceProofs, OperationsProofs**

The five operational modules share the form of their handlers, so their invariants share
theirs. A handler may put a row it read long ago, and may die before its next step; the
invariant therefore speaks of the queues: *every row a step is going to put is as good as a
stored one, and whatever a step relies on is stored already or put by a step before it in the
same queue.* The facts relied upon are never taken back, which is one lemma per module
(`QueuesGrow`, `ApprovalsLast`, `ReadyGrows`, `CoQueuesGrow`), and steps that replace themselves
by others are the last of their handler.

* `OnlyConfirmedIsLearned`, `OnlyApprovedIsCited`, `PromotionsAreSearchable`,
  `OnlyResolvedAreClosed` (with `KTypeCorrect`), from `KInv`: `Learned` (a step names only
  confirmed causes and closes only what was resolved), `Backed` (what the graph will cite is
  approved, or the first step of the handler approves it, or it is a caller's payload and
  marked as such), `Announced` (the index entry comes
  right before the candidate that counts as promoted).
* `OnlyApprovedDeployed`, `RolesAreExplained` (with `MTypeCorrect`), from `MInv`: rows and runs
  in the stores and the queues name only models once approved, and each such row is explained
  by its own history. `set_role` cuts the history; the last move of a role is lost only if the
  later entries, all of the other role, fill what is kept, and then nothing is claimed
  (`MovesKept`).
* `NoSaveIsLost`, `ConnectedStaysBound` (with `OTypeCorrect`), from `OInv`: a lock is held
  exactly by the handler whose first step is inside it, and what that step will write is the
  intended file (`FilesSafe`); a binding that is not approved has an approval on its way
  or was posted by somebody (`BindingsSafe`), unless a handler died.
* `DenialsAreViolations`, `FilterAgrees` (with `ReferencesHold`), from `EInv`: each bad event
  has its violation, or a step on its way that will notice it (`EventsNoticed`), and every row
  the queues will import is one of the stored audits, with the outcome the code reads off it
  (`RowsImported`, `AuditsReady`), so that what a condemned row becomes is noticed as well.
  `FilterAgreesWithCheck` holds in every state, of the two operators.
* `ResponsibilityHasTrace`, `EscalationsAreWarranted`, `AcceptanceIsAcknowledged`,
  `OrdersAreExplained` (with `CoTypeCorrect`), from `CoInv`: `Needs` and `Gives` are the facts
  above; `Timely`, since a deadline that is near or over stays so; `Said`, what events say that
  are stored or queued, explains the stored rows and those about to be put.
* `ServicesSideBySide`: `MCSpec => KSpec /\ MSpec /\ CoSpec /\ ESpec /\ OSpec`. The composition
  that the run checks implements its five parts, so that each of these results holds in it;
  `OperationsTyped` is the one property that speaks of all five: `MCSpec => []TypesOK`.

Only model-checked, because out of the prover's reach: `RequestsEnd` and `LockReleased`
(liveness under fairness, `ENABLED`). All other properties of the passing runs are theorems;
`PathsReversible`, `StatementsAreScoped` and `AnswersAreScoped` are theorems besides, and hold
on the instance of `query` as well.

## 5 Where code and documents part

Each is a run that ends in a counterexample, and a finding in `PROJECT.json`.

1. `drift_gate`. `execute` and `configure` put back the row they read at the beginning
   (`integration_runtime.py:152`). Two overlapping requests can replace a schema baseline
   nobody accepted; `tests/test_integration_runtime_v23.py:34` says a changed schema "is
   blocked until accepted".
2. `batch_retry`. A resend that arrives while the batch executes passes the lookup
   (`connector_sdk.py:175`) and writes the records again after the result is stored;
   `docs/ARCHITECTURE_V2_4.md:32` says a retry does not write domain data twice.
3. `template_relationships`. With no custom ontology, or an empty one, the first entity
   saved writes `relationships: []`, which then replaces the base's relationships
   (`semantic.py:178` and `:172`): a template drops relationships it should preserve
   (`tests/test_template_apply.py:190`, which uses a fake registry).
4. `unversioned`. Approving a candidate, importing and applying a template change the
   model without a version (`main.py:612`); `docs/ARCHITECTURE_V0_7.md:51` says mutations
   create snapshots.
5. `merge_during_scan`. A merge that reads the review file while a scan has truncated it
   exports nothing (`review_store.py:53`), although the docstring of `semantic_merge` says
   it exports all approved candidates.
6. `intermediates`. The plan collects the entities between the subject and what is required
   (`planner.py:449`), the statements join from the metric's entity. With two equally short
   routes the two searches differ, and the gateway refuses a valid question because its
   statement reads a table the plan does not list; the comment at `planner.py:442` says every
   intermediate node used by the joins is preserved.

Seen while modelling, without a run of their own. First, what a property above had to leave
room for:

* The content of an unmappable record is lost: the binding reports its error without the
  record (`data_binding.py:129`), the runtime parks `{}` (`integration_runtime.py:145`), and the
  watermark passes it. Nothing remains but an empty letter, from which no retry can deliver it.
* `POST /knowledge-graph/ingest-document` takes any payload, whose status is "approved" unless
  it says otherwise (`main.py:976`, `graph_ingestion.py:9`): a document nobody stored or
  approved enters the graph. `docs/ARCHITECTURE_V1_3.md:45` has approved documents only.
* `docs/ARCHITECTURE_V2_8.md:19` has violations created for denied or failed governed
  operations. A handler that raises leaves no event (`main.py:341`), and the import takes a
  failed connector batch, which has neither `allowed` nor `success`, for a success
  (`audit_center.py:159`).
* Anybody may post the binding of a session's name: with status "approved" it needs no
  approval, after a confirmation it puts a connected session's binding back to draft
  (`data_binding.py:51`), and between the upsert and the approval of a confirmation the mapping
  that gets approved is not the one that was reviewed, though the comment at
  `enterprise_onboarding.py:193` calls it safe to approve the reviewed mapping then.
* Overlapping retries reopen a letter that is resolved (`integration_runtime.py:172`): the
  later put is of a row read before the record was delivered.
* `dispatch` of a work order asks for no approval (`predictive_maintenance.py:64`), whatever
  its history says of human review.

And beside the properties: a letter of a mapped
document cannot be retried if the binding renames a required field (`RenamesFields`);
failed records from the 51st on are never dead-lettered; `record_batch` can undo a retire
that lands in it; a connector can be stored as approved without its check; version
numbers repeat once the list has reached its 200 entries; chunks of an earlier text
(`put_document`) and of a retired version cut to another size stay in the chunk store or the
vector index; a document superseded by the same version overwrites its replacement, and one
approved again keeps the end of its validity; a death between an escalation and its
notifications leaves it without them for good; a handler that read before another's put
undoes it, in nearly every store; cached answers leave no count, telemetry or audit event of
their own and survive a reload of the model or of the policies, even one that would refuse
them (`POST /governance/reload` does not clear the cache).

## 6 What is not modelled

* Of the runtime: events and run documents (logs), the listing limit of quality rules
  (500 over all bindings), schemas of payloads longer than the 100 records looked at,
  a source whose order is
  not that of the text comparison, and two letters with one id (binding, microsecond and record;
  `integration_runtime.py:160`), which two threads could give the empty letter.
* Of the bindings: `POST /data-bindings/{id}/run`, which writes domain data without the
  runtime, and preview.
* Of the semantic layer: what a scan proposes, allowed values of aliases, contents of snapshot files and diffs, export, and the base, data source and
  secret parts of an import. One process: a second replica's registry is stale until it
  reloads, which the documents do not claim otherwise.
* The repository itself: get and put of one document are atomic, as in PostgreSQL. The
  JSON files of the local mode are documented as not fit for several processes.
* Of planning and execution: SQL text, drivers, EXPLAIN, the planner that asks a language
  model, chat sessions, the wording of answers, and a reload in the middle of one resolution
  or one compilation.
* Of the knowledge base: search, ranking and embeddings. Of cases: the hypotheses of an
  analysis. Of models: the arithmetic of inference, evaluation and drift. The reliability
  workflow chains calls that are modelled one by one.
* Of collaboration: filters and limits of lists. Of collaboration's events: ids that are microsecond timestamps
  (`team_collaboration.py:58`) are taken to be distinct. Of audits: `limit_each` of an import, and
  rows without an id. Of identity: token cryptography, OIDC, secrets (but for the audit of a
  check), the connector scope, which both copies of the scope rule treat as they treat assets.
* Limits of lists (1000 or 10000 rows) throughout: the instances never reach them.
* Migration, backup and restore: fixed rows, and commands of the local mode.
* Analytics (floating-point statistics), drivers, metadata and model services, reports:
  no state of their own, or I/O.

## 7 The plan

Done: the integration runtime with batches and ledger, the semantic model, governed queries,
the operational services, and the proofs of section 4. Left, in the order of weight:

1. An abstract specification of the lifecycles (a row with its governed status and its trail)
   that the five operational modules implement.
2. Liveness of the operational handlers, under the fairness of section 3.
3. The local mode's repository, with restore and unreadable files.
