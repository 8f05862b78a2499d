# Formal models of the semiconductor agent knowledge base

This directory holds TLA+ modules, TLC configurations and TLAPS proofs about the server
of this repository: a FastAPI application with Celery workers that answers questions in
conversation threads from a governed document base. MongoDB is its record of truth,
Milvus holds the searchable projection of the published chunks, MinIO the artifacts and
Redis the task queue. A LangGraph graph decides what an answer is made from.

Paths below are relative to the package `src/semikb/` unless they start with `docs/` or
`tests/`.

## 1. Inventory

| Component | State it keeps | Operations | Talks to |
| --- | --- | --- | --- |
| Message requests (`storage/conversations.py`, `agent_runtime/service.py`, the stream and cancel endpoints of `api/main.py`) | the thread's lease, turn counter and messages; the ledger `agent_message_requests` | claim, prepare, append, start, finalize, complete/fail/cancel, release, replay | MongoDB, agent graph |
| Agent graph (`agent_runtime/graph.py`, `service.py`) | the checkpoint of the thread | 23 nodes from `ingest_request` to `audit`, three of which wait for the user | LLM gateway, retrieval, tools, web search |
| Understanding (`agent_runtime/understanding.py`, `semantic_grounding.py`) | none | fixed forms, the model's answer checked against the text, heuristics | LLM gateway |
| Route policy and tasks (`routing.py`, `task_execution.py`, `tools.py`) | none | decide a plan, give each task its result, choose read-only tools | agent graph |
| Clarification and evidence sufficiency (`clarification.py`, `evidence_sufficiency.py`) | the frame in the checkpoint | ask, merge an answer, pause, resume, close; judge evidence | agent graph |
| Context (`context.py`) | the thread's slots, evidence references and recent messages | assemble, update, invalidate | MongoDB |
| Ingestion (`rag_ingestion/service.py`, `storage/mongo_ingestion.py`, `storage/production_ingestion.py`, `workers/tasks.py`) | `ingestion_jobs`, the four catalogs, Milvus rows | submit, enqueue, process, stage, publish, supersede, compensate, retry | MongoDB, Milvus, MinIO, Celery, parser service |
| Document lifecycle (`rag_ingestion/document_lifecycle.py`, `storage/knowledge_documents.py`) | `document_lifecycle_operations`, the catalogs, Milvus rows | withdraw, restore, claim, process, reblock, retry | MongoDB, Milvus, MinIO, Celery |
| Corpus publication (`rag_ingestion/corpus_publication.py`) | publication batches and their items | create, claim, process, read back, isolate, retry | ingestion, MongoDB, Celery |
| Corpus standardization (`rag_ingestion/corpus_standardization.py`) | standardization jobs | create, run the stages, retry | MinIO, LLM, Celery |
| Evaluation (`evaluation/`, `storage/evaluations.py`) | runs, release freezes, the holdout's opening | create, claim, process, freeze, open, retry | agent, retrieval, Celery |
| Streaming (`direct_reply.py`, `streaming_answer.py`, the generating nodes of `graph.py`, `contracts/streaming.py`) | buffered deltas, the units taken, what is shown | assemble, verify, finalize | LLM gateway, message requests |
| Clients of providers (`llm_gateway.py`, `web_search.py`, `rag_retrieval/encoders.py`, `rag_retrieval/reranker.py`, `rag_ingestion/vision.py`, `rag_ingestion/mineru.py`, `semikb_provider_resilience`) | the attempts of the last call | stream, complete, probe, encode, rerank, search the web, read an image or a PDF; try again, fall back | model and parser providers |
| Retrieval (`rag_retrieval/`, `storage/milvus_chunks.py`) | traces | search, filter by access and lifecycle, fuse, rerank, select, read again | Milvus, MongoDB |
| Index migration (`rag_ingestion/embedding_index_migration.py`) | the alias, the releases, the versions in the catalogs | build, publish, roll back | Milvus, MongoDB |
| Schema migrations (`storage/*_migration.py`) | the indexes of MongoDB, a snapshot | capture, change, verify, restore, roll back later | MongoDB |
| Parsers, chunking, governed records (`semikb_ingest`, `rag_ingestion/`) | none | convert, validate | ingestion |
| Provisioning, demo stores, API wiring | in-memory stores | one-off | all |

### What is hard, and what makes a component correct

*Message requests.* Several HTTP calls meet on one thread: duplicates of a request, retries
of a failed one, cancellations from another connection, a client that disconnects. None of
the writes is in a transaction; the lease expires by the clock while its holder may be
merely slow; a cancelled handler's database call goes on in its worker thread. Correct
means: a request is answered once, turn numbers never meet, what the ledger calls completed
is in the thread, the history is append-only and the lease passes from hand to hand through
free.

*Agent graph.* A language model proposes and the server's own rules dispose: whatever is
proposed, nothing is consulted for a request that lacks what its route needs or lies outside
the actor's scope, no recipe is written, the web is not asked about controlled documents,
and a task is completed on cited evidence only. Every turn ends.

*Clarification and context.* A question to the user survives interruptions, other requests,
failures and a restart of the graph, while slots and evidence move on underneath. Correct
means: a frame is asked a bounded number of times, forgets nothing it was told and asks for nothing it
knows, and is never opened again once closed; and a slot that changes takes with it what was found for its old value.

*Streaming.* What a model says is shown unit by unit before it is known how it ends, with two
providers and several attempts behind it. Correct means: what has been shown begins what is stored,
a fact cites evidence from the first moment it is seen, every missing slot is asked for once, and
the run ends.

*Clients of providers.* One client is shared by its callers, and keeps the attempts of the
last call for them to read. Correct means: the audit of a call tells every request it sent, and a
call comes back.

*Retrieval and the index.* A search makes several calls to two stores, while documents come and
go and a migration moves the alias under it. Correct means: nobody is given what was not published, or not
open to them, all the while; protected evidence is found; what is published has a row where searches look;
a migration that fails puts back what it changed.

*Ingestion.* A publication is seven calls to three stores, with two nested exception
handlers that compensate, and a queue that may deliver a job twice. Correct means: a job
recorded as failed serves nothing, a revision keeps the content that was first recorded for
it, the previous revision is retired only once the new one is served, and every run ends.

*Document lifecycle.* The API blocks a revision, a worker cleans its rows up or rebuilds
them; tasks are retried by clients and by Celery and redelivered when their worker is lost.
Correct means: an operation is carried out by one worker at a time, its recorded end agrees
with catalogs and rows, and an operation that was asked for ends.

*Corpus publication, standardization, evaluation.* Long tasks that save whole records read
earlier, with claims of different strength, or none. Correct means: a job is accepted once,
ends one way, is started over only after it has failed and is left alone once it has
succeeded (`BackgroundJob`); a completed batch is served, an isolated revision is hidden,
a holdout is opened once.

The hazards of the modelled components are listed line by line in `PROJECT.json`,
with the properties that catch them.

## 2. Modules

**Requests of a thread**

| Module | What it is |
| --- | --- |
| `MessageRequests` | One thread, its lease and ledger, and the handlers of the stream and cancel endpoints |
| `ThreadLog` | Abstract: what a thread promises its writers. `MessageRequests` implements it |
| `MCMessageRequests` | Its instance: symmetry, a clock and a view that forgets dead local values |
| `MessageRequestsProofs` | Type correctness, four invariants, two action properties and the refinement of `ThreadLog`, for every instance |

**Turns of the agent**

| Module | What it is |
| --- | --- |
| `AgentContracts` | Enumerations and records of `contracts/models.py` that the parts below exchange |
| `RoutePolicy` | What is done with each task of an understood message, and the route of the request |
| `Understanding` | From a message to its understanding: fixed forms, the model's answer as it is checked and corrected, heuristics |
| `ClarificationFrames` | The frame, the relation of a message to it, the merging of an answer |
| `ConversationContext` | What a thread carries from turn to turn |
| `TaskExecution`, `EvidenceSufficiency`, `ManufacturingTools` | One result for each task; may this evidence answer; which tools are called |
| `AgentTurns` | The composition: the thread, the checkpoint, every node and edge of the graph, the service around it |
| `ClarificationLife` | Abstract: what a clarification promises. `AgentTurns` implements it |
| `MCAgentTurns` | Nineteen messages, what a model may make of them, evidence, bounds |
| `AgentTurnsProofs` | Clearance, controlled sources, planned refusals, invalidation, and lemmas about tasks and results |
| `AgentClarificationProofs` | `AgentTurns` implements `ClarificationLife`; what the results of a turn are, what its questions ask, and its types |

**The reply**

| Module | What it is |
| --- | --- |
| `ProviderCalls` | Providers, attempts, kinds of failure and which of them lead to another attempt or provider |
| `DirectReply` | The units of a reply without evidence, which of them pass, and how a reply cut off is ended |
| `StreamingAnswer` | The units of an answer from evidence, what is kept of them, the verification |
| `StreamedReply` | The composition: one request from the provider's stream to the stored message |
| `ProviderClients` | The other clients of providers: the rounds each sends, and who reads the attempts of a call, when |
| `StreamedReplyProofs` | One voice, every slot once, text as shown, grounded claims, whole audits, for every instance |
| `MCStreamedReply` | Kinds of replies, ledgers of evidence and units; callers of each client |

**Documents**

| Module | What it is |
| --- | --- |
| `IngestionPublication` | Jobs, queue, catalogs and rows of one document's revisions, the worker's run, both compensations |
| `MCIngestionPublication` | Two contents of one revision and a successor; view |
| `IngestionPublicationProofs` | Type correctness; with one worker, a revision keeps its source, a failed run serves nothing, a successor is served |
| `DocumentLifecycle` | Withdrawals and restorations of one revision, claims, retries, redelivery |
| `MCDocumentLifecycle` | One withdrawal and one restoration, one worker or two, and the faults each crew meets |
| `DocumentLifecycleProofs` | Type correctness, exclusive execution; with one worker, recorded ends agree with catalogs and rows |

**Search**

| Module | What it is |
| --- | --- |
| `IndexMigration` | Catalogs, rows of two collections and the alias, among writers of documents and the commands `build` and `publish` |
| `AccessFilter` | Who may read a chunk: the filter sent to Milvus, and the check of the records |
| `EvidenceSelection` | Which candidates become evidence, and how protected ones are kept |
| `GovernedSearch` | The composition: a search, or a re-use of its evidence, among all of these |
| `IndexAndSearchProofs` | Evidence is served and open, protected and published evidence is found, publishes and scripts restore, for every instance |
| `SchemaMigration` | The seven scripts that migrate the indexes of MongoDB, with their roll-backs |
| `MCIndexAndSearch` | Two documents, two collections; what is read of whom; bounds |

**Background jobs**

| Module | What it is |
| --- | --- |
| `TaskQueue` | What the services share: records read and saved whole, requests, one task per request, workers, faults |
| `CorpusPublication`, `CorpusStandardization`, `EvaluationRuns`, `EvaluationHoldout` | What the requests and tasks of each service do |
| `BackgroundJob` | Abstract: what a job promises. The first three services implement it |
| `MCBackgroundJobs` | One service at work in each behaviour; bounds, fairness and view |
| `BackgroundJobsProofs` | One opening, one worker on a record, true records, and the refinement of `BackgroundJob`, for every instance |

The modules about stores and queues are written the same way. Every call to a store is one
action, and actors interleave between any two calls. `pc` names the call an actor makes next,
so that the control of a Python method (its early returns, `except` and `finally` clauses) is
the graph of `pc`. A call that may raise has, beside its normal outcome, outcomes in which it
raises applied or not applied (in `MessageRequests`: not applied), each of which goes where the
code's handlers send it. Local values that a later call uses, and that may be stale by then, are
variables of the actor. Contents (texts, embeddings, counts, times other than the lease's)
are left out; a document's content is the name of the job that brought it. Module headers
say which calls are taken together.

The modules about the agent and its replies are operators, one for each function of the code, and `AgentTurns`
and `StreamedReply` have an action for each node, or for each thing a stream may bring. A text is the *set of signs* that the code's patterns and term
lists find in it, and the slots it names: `Said`, a constant, gives them for each message.
What a model answers, what a retrieval finds and what an answer claims are any member of a
constant set.

### MessageRequests

| Model | Code |
| --- | --- |
| `lease`, `nextSeq`, `messages` | `active_request_id`, `active_request_started_at`, `next_turn_seq`, `messages` of an `agent_threads` document |
| `ledger` | `agent_message_requests`: status, `user_turn_seq`, `updated_at`, result |
| `pc = "claim_new" ... "release"` | `prepare_message_request` (with `_prepare_existing_request`, `_claim_thread`), `append_message_once`, `mark_message_request_running`, `finalize_stream_response`, `mark_message_request_terminal`, `_release_thread` |
| the action of the graph | the stream of the compiled graph (`service.py`) and its three outcomes: result, exception, cancellation |
| `late` | the `asyncio.to_thread` call of a cancelled handler, which is carried out all the same |
| `now`, `Tick` | the wall clock compared with `agent_thread_lease_seconds` |
| `mishaps` | lost handlers, disconnects and raising calls, bounded by `MaxMishaps` |

### IngestionPublication

| Model | Code |
| --- | --- |
| `status`, `error`, `replay` | an `ingestion_jobs` record; `error` is what `_TRANSIENT_INGESTION_ERRORS` makes of `error_code` |
| `documents`, `chunks`, `vectors` | `document_catalog`; `chunk_catalog` with images and tables; Milvus rows |
| `queue`, `retries` | Celery messages of `process_ingestion_job` and `request.retries` |
| `sweep`, `inner`, `retired` | which of `publish_document`, `supersede_previous`, `restore_previous`, `compensate_document` runs, in which handler, and `previous_superseded` |
| `Serves` | the filter of `production_repository.py`: row, chunk record and document record all published |
| `spoilt` | history only: the job's compensation raised |

### DocumentLifecycle

| Model | Code |
| --- | --- |
| `status`, `claim` | a `document_lifecycle_operations` record and its `execution_id` |
| `document`, `chunks`, `rows` | the revision in the catalogs and in Milvus |
| `waiting`, `task`, `retries` | Celery messages (`acks_late`), the task a worker runs and its retries |
| `SetStatus` | `_save`, a write of the whole copy read earlier: no condition on the present status |
| `Claim`, `Release` | `claim_operation` and `release_operation`, one conditional update each |
| `BlockDocument`/`BlockChunks`, `PublishDocument`/`PublishChunks` | `block_revision` and `publish_revision`: a compare-and-set on the document, then unconditional updates of its children |
| `ReblockDocument` ... `VerifyRows` | `_reblock_after_restore_failure`, and the clean-up of a withdrawal |
| `LoseWorker` | `reject_on_worker_lost`: the message returns to the queue with its task id |

### TaskQueue and the services on it

| Model | Code |
| --- | --- |
| `record`, `copy` | the stored batch, job or run; the Pydantic object that the request or the worker holds and saves whole |
| `asked`, `waiting`, `task`, `retries` | the API call, the Celery messages (`acks_late`, `reject_on_worker_lost`), the task under way and `request.retries` |
| `Goto`, `Returns`, `Raises` | a call returns, or raises into the handler that encloses it |
| `Claim` (publication), `Claim` (evaluation) | `claim_batch`: QUEUED only; `claim_run`: QUEUED, or RUNNING under the same task id. A standardization has none |
| `RetryRead`, `RetryRequeue`, `RetryGet`, `RetrySave` | the four calls of `prepare_retry` |
| `ingested`, `broken`, `served`, `reviewable` | what a batch depends on: the ingestion of a file (one step with its outcomes), its rows, the corpus under review |
| `overtaken`, `outrun` | history only: a record changed under a retry that had read it |
| `dataset`, `opening`, `runs` | the holdout's opening and the runs made of it |

The three services are composed in `MCBackgroundJobs`: they share the queue, the workers and
the fault model, and no record, so that one of them is at work in each behaviour.

### AgentTurns

| Model | Code |
| --- | --- |
| `thread` | `agent_threads`: status waiting or not, messages, `active_context` |
| `graph = [at, s]` | the checkpoint: the node that runs next and the `AgentState` (`NoState` names its fields) |
| `run` | the request that runs: its user entry and the text it resumes with |
| `client` | what an API call has prepared: the message, and `resume_checkpoint` as read then |
| `PrepareMessage`, `StreamMessage`, `FinalizeStreamResponse`, `Fail` | `prepare_message`, `_stream_message`, `finalize_stream_response`, an exception or a cancellation |
| `Node(at, s, next)` | a node's update and the edge it takes |
| `Interrupt(at, s)` | a node that calls `interrupt()`: it waits, and is run again with the answer |
| `Ingest` ... `Audit` | the nodes, by name; `RouteAfterValidation`, `RouteAfterResolution` are the conditional edges |
| `UpdateActiveContext`, `Assemble` | `update_active_context` and `assemble` of `context.py` |

Three things are relied on of LangGraph, which is not under `src/`: a checkpoint is written after
each node; a resumption goes on at the pending node and its text answers that node's interrupt
and no later one; resuming a graph that has ended returns the state it ended with.

### StreamedReply

| Model | Code |
| --- | --- |
| `request` | the kind of reply or answer, the replies about the history before it, the evidence ledger, whether it resumes a checkpoint |
| `graph` | the checkpoint between the generating nodes: the combined replies, the answer, the text |
| `node.call` | provider and attempt of `_stream_provider`, and `content_started` |
| `node.units`, `node.rendered`, `node.dangling` | the assembler: what it has taken, what it has rendered, what is left in its buffer |
| `node.voices`, `node.refused` | history only: the attempts whose units are shown; a unit has been refused |
| `shown` | `streamed_answer` of `_stream_message`: the deltas sent to the client |
| `AfterFailure` | `_stream_with_fallback` and the loop of attempts: the next attempt, the next provider, or none |
| `BeginReply` ... `EndReply`, `BeginAnswer` ... `VerifyAnswer`, `Finalize` | `_generate_direct_reply`, `generate_answer`, `verify_answer`, and the comparison before `finalize_stream_response` |

A text is a sequence of parts, each with what it is about: a missing slot, the evidence it cites.

### ProviderClients

| Model | Code |
| --- | --- |
| `client` | which client it is: `complete`, `hyde`, `probe`, `encode`, `rerank`, `web`, `vision` or `parse` |
| `call` | a caller's request at work: the round, the attempt, what it has sent and what it was told |
| `last` | the attribute `last_attempts`, which the callers of a client share |
| `Logged` | what `semikb_provider_resilience` appends for each attempt |

Completions and web searches return and read the attempts in one step of the event loop; HyDE, the
encoder and the reranker run in threads, where another call may come between; probe, vision and
parser have one caller. Left out: empty inputs, for which no request is sent, and a probe that finds no
configuration.

### IndexMigration and GovernedSearch

| Model | Code |
| --- | --- |
| `documents`, `chunks`, `rows`, `alias`, `release` | `document_catalog`, `chunk_catalog`, the collections of Milvus, `semikb_chunks_active`, `index_releases` |
| `configured` | `milvus_index_version` of the running services |
| `writer`, `Publication`, `Restoration`, `Withdrawal` | a worker and the writes it has yet to make; `AfterRaise` are its compensations |
| `mig` | `build` or `publish` of `embedding_index_migration.py`: where it is, what it has read, its plan |
| `Make` | the one write of each of its steps, which a call that raises may have made |
| `query` | `search` or `reuse_trace_evidence`, call by call: routes through the alias, `get_chunks`, the documents, selection, trace |
| `watch` | history only: what has been unpublished, barred or findable ever since the request began |
| `past` | history only: how the code's own checks were passed by |

The publication of an ingestion has two nested handlers; where both compensate, `AfterRaise` stands for the second one as
well, since the properties excuse that document from there on.

### SchemaMigration

| Model | Code |
| --- | --- |
| `store` | each collection: does it exist, has it documents, the form of each index |
| `script`, `Scripts` | the script at work; each is a record of what it adds, replaces, approves and may roll back |
| `snapshot`, `todo` | `capture_snapshot`, which is one step here, and the changes yet to make |
| `late` | history only: collections written to since the script counted their documents |

The scripts differ in what they make of a missing collection. `mongo_index_migration.py` refuses it (`makes`). Those that
roll back from a snapshot remove it again if they have made it (`removes`). `t6_mongo_migration.py` never asks: no
documents and no indexes are what it wants, its first `create_index` makes the collection, and its restoration, of a set in no fixed
order (`ordered`), only drops and creates indexes.

`MessageRequests` shows that one message of a thread is stored and answered at a time as far as
the code sees to it, and `AgentTurns` takes from there that one runs; the preparation of
the next one is not bound by it, which is why `client` has a flag that may be stale.

## 3. Runs

| Run | Instance | Shows |
| --- | --- | --- |
| `message_safety` | 2 requests, 3 calls, clock to 2, 2 mishaps | turn numbers unique, answers after questions and once, completion backed by an answer, history final; `MessageRequests` implements `ThreadLog`, whose writer changes only through a free thread |
| `message_liveness` | 1 request, 3 calls, no mishap, fairness | the lease is given back |
| `message_stuck_lease` | 2 requests, 3 calls, 1 mishap | refutes `HeldLeaseIsRecoverable` |
| `ingestion_safety` | a revision with another content of it or a successor, 3 calls, 1 worker, 1 mishap, fairness | a failed job serves nothing, a revision keeps its content, retirement leaves no gap, runs end |
| `ingestion_release` | two contents, no mishap | refutes `FailureKeepsRelease` |
| `lifecycle` | a withdrawal and a restoration, 2 calls; 1 worker and three faults of different kinds, or 2 workers, a failure of Milvus and a lost worker; fairness | recorded ends agree with catalogs and rows, one execution at a time, operations end |
| `lifecycle_restore` | a restoration, 1 worker that is lost once | refutes `FailedRestoreIsBlocked` |
| `background_jobs` | 2 records, 2 files, 3 calls, 2 workers, one fault of each kind, fairness | each service is a `BackgroundJob`, its recorded end is so, its jobs end |
| `agent_turns` | 3 messages of 19, 1 failure, fairness, deadlock | what is consulted, asked, refused, remembered and completed; turns end; `AgentTurns` implements `ClarificationLife` |
| `correction_kept` | the same without failures | refutes `CorrectionIsKept` |
| `streamed_reply` | every kind of reply and answer, 2 providers, 2 attempts each, 5 units, 2 runs; each other client with 2 callers; fairness, deadlock | what is shown begins what is stored, is grounded, asks each slot once and comes from one attempt; the audit of a call is whole; runs and calls end |
| `index_and_search` | 2 documents, 2 writes, 2 commands, 1 mishap, a search and a re-use; 2 collections of 2 indexes and a foreign one, 2 scripts, 1 trouble | what is published is found, what is found is served, protected evidence is found; failed publishes and scripts restore |

**Bounds.** *Requests, jobs, operations*: two are what it takes for one to meet another's state;
three calls let one be retried while another runs. One mishap anywhere suffices for every path of
the handlers, since each handler is entered by one exception; `message_safety` allows a second
one, in the compensation of the first. A lease is stale once it is older than `LeasePeriod`:
with `LeasePeriod = 0` and a clock that ends at 2, leases are taken fresh, go stale in their
holder's hands and are taken over, twice. The constraint `Mixed`
lets the third call come as long as nothing has gone wrong. `MaxRetries = 1` (the code
has 3) gives a task both its states: a retry left and none left. In `ingestion_safety` the published
revision meets either the other content or the successor.

*Background jobs*: two files are what it takes for one item to fail while another is published; two
batches share a document. `Bounded` gives each service the combinations it is exposed to rather
than their product: requests arrive in order, two workers meet without faults, a batch of two
files meets one fault beside a failed read-back, a standardization and a run meet two
faults.

*Turns*: a question, its answer and one more message are three turns; with `MaxRounds = 2` (the
default) a second answer without progress ends the clarification. The nineteen messages are
sentences of the tests and documents or variants of them, chosen so that every route, every
relation to a frame and every reason to ask is reached; for six of them a model may misread
the intent, the scope or the relation, be unsure or name what nobody said, take what answers one question for the answer to another, and for each it may
fail, so that the heuristics answer. `Scenes` keeps those second and third messages that refer
to what has been said, unless the agent has asked something: then any message may follow the first question, and
any but a new request of seven kinds the second. Scores are percentages at the settings' defaults. 414,803 distinct states.

*Replies*: two providers and two attempts each give every kind of next stream; three missing slots let
units of two of them arrive and one be asked for by the server; two runs let a run meet what another has left in the
checkpoint. Five units are one more than the code takes (`UnitLimit = 4` in the instance).

*Calls*: two callers are what it takes for one to write over the other's attempts.

*Search*: one document is of the asker's fab, the other of none and expires while the clock runs; two
writes publish and withdraw, two commands build and publish. The index migrates at one moment of the clock; a
search meets no mishaps, and one write or no migration; its evidence is used again while nothing migrates. Two
collections let a script fail between them; the foreign index is an operator's. 584,992 distinct states.

**Deadlock** is checked in `agent_turns` and `streamed_reply`, where `Rest` is the end of the calls, so that a state
in which a node has no successor would be found. In the other runs calls are finite in number
and the system stops when all have been served.

**Fairness.** A handler that has been entered goes on (the event loop and the thread pool
run every ready task), as does a request at the API, and a worker goes on with its task and
takes the next message: weak fairness of each actor's own steps. In `AgentTurns` it is stated as
`[]<>~Running \/ []<><<Step>>_vars`, which is weak fairness of `Step` where a run that is on
its way can go on. No fairness is assumed of arrivals, of the clock, of lost processes or of
raising calls. Retries do not need strong fairness because every worker step stays enabled until
it is taken.

**Refinements.** `ServicesAreJobs` shows that publication, standardization and evaluation
implement `BackgroundJob`, each under a map from its status to a phase; the promise is off once
a job is *disturbed*, which is for each service to say: two runs of it are on their way because
the broker's or the store's answer was lost, or a client's retry was overtaken.
`FramesKeepTheirLife` shows that the frame in the checkpoint implements `ClarificationLife`, and `ThreadIsALog`
that the messages of a thread and what the ledger says of each request implement `ThreadLog`; they
have no such exception.

**Conditions inside properties.** `RunsEnd` excuses behaviours with a mishap: the task of
ingestion is acknowledged when it starts, so that a lost worker really leaves a job in a
middle status. `OperationsEnd` is not excused for lost workers and failures of Milvus, which the code
handles, but for failures of MongoDB and for operations asked for twice (section 5).
`OneExecution` is excused when a worker is lost between sending its task again and
acknowledging the message, since there are then two messages with one task id.
`FailedIsUnpublished` leaves out jobs whose compensation raised, and jobs failed by the API
because the queue was down. `RecordsMatchServed` leaves out batches that share a document with another
one, batches changed under a retry (`overtaken`), and, where it speaks of completed ones, those that may have
been run twice (`Hurried`: a message or a save that was applied though it raised; section 5). In `WorkEnds`, a lost worker excuses a batch,
since no task claims a batch that is under way, and more failures than a task has retries excuse an
evaluation; nothing excuses a standardization. `WithdrawnIsClean` and `RestoredIsServed` are about
behaviours in which one worker alone has taken tasks (`Alone`), as the deployment has it. The latter excuses a
withdrawal that is on its way, has broken off or has been asked for again: its slow request may block
the revision after another request's task is done. `ShownBeginsText` leaves out a resumed run that goes on
behind replies only an earlier run has shown, and `OneVoice` a reply of which a unit was refused (section 5).
`AuditIsWhole` leaves out a call whose attempts were read after another call had begun. What
`PublishedIsFound` and `FailedPublishRestores` excuse is how the migration's own checks are passed by: a worker
that moves the alias by its own version, equal numbers of different documents, a switch that raised though it
was made. `RollbackIsExact` excuses collections written to after the script had counted, and claims that made collections are
removed only of the scripts that do so (`removes`): `t6_mongo_migration.py` and `docs/数据存储设计.md:242` promise indexes alone.

**Hazards covered in part.** Excuses of some properties take out part of the hazard they are listed for; the notes in
`PROJECT.json` say so. With one worker `RevisionIsImmutable` shows the check of the source among repeated jobs and no race of
two runs; `RunsEnd` speaks of runs without mishap; `RestoredIsServed` of what one worker does; `OperationsEnd` of operations
asked for once; `OneVoice` of replies without a refused unit; `AuditIsWhole` of calls that were not overtaken.

**Type invariants.** Those of message requests, ingestion, lifecycle and the turns of a thread are theorems
(section 6); those of the services, the streamed reply and the clients are parts of their inductive invariants.

## 4. Disagreements with the documents

Each is a run that TLC finds violated; `PROJECT.json` quotes the lines.

1. *A stale lease can be recovered by its request.* If the process stops between the
   completing write and the release, the request is replayed without touching the lease and
   every other request is refused, for ever.
2. *A failure keeps the previous release available.* Compensation selects by revision.
   Uploading other content for a published revision fails, as it should, and then quarantines
   the published revision and deletes its rows.
3. *A failed restoration blocks the revision again.* A worker lost after the restoration has
   published everything is replaced; the redelivered task finds the revision published, fails its
   validation and records a failure while the revision stays served.
4. *A correction is kept.* While a question waits, "not ETCH-03 but ETCH-04" is answered beside it and
   corrects the thread; the frame's base keeps ETCH-03, and the next answer is merged into that
   base and brings the old tool back, with its chamber, as valid context.

## 5. Further observations

Behaviours met while modelling for which no property was worth a run. Those that are hazards are listed as such.

*Requests.* The terminal write and the release name the request, not the attempt: a cancellation of
the first attempt that arrives late ends the second and frees the thread under it
(`docs/T9-4.3通用会话记忆与按需路由设计.md:330` has one active request per thread). A retry keeps the
turn number of its first attempt, so that the order of the array and of `turn_seq` may differ when
another request ran in between.

*Lifecycle.* The claim of an operation whose worker is lost between the terminal save and the
release is never given up, because the redelivered task returns before it claims; a later retry of
that operation is then refused in silence. `_save` writes over terminal statuses: the slow request
that created a withdrawal writes `vector_cleanup` over an end that a repeated request has brought
about. Two restorations on two workers undo one another, as claims are of operations and
not of revisions.

*Batches and evaluations.* Items recorded as failed may be served when a call after their ingestion
raises. A worker lost in the middle of a batch strands it. Two batches with one document: one may isolate
what the other has completed. Two clients' retries of a standardization can take a report under review
back. An evaluation whose retries are exhausted by failures outside its `try` block stays RUNNING, and
the retry endpoint refuses it. Two requests at once may each run one frozen release, though a second one
is refused afterwards (`tests/test_evaluation_governance.py:75`); and an invalid baseline is found out
after the holdout has been opened.

*Retried batches.* A retry notes the failed items, requeues the batch and only then renames the items
noted and saves the whole batch. If the batch ran in between, a published item gets the name of a
revision that was never ingested.

*Replies.* A resumed request whose first run failed behind a reply about the history goes on in the next
run at the answer, while nothing is shown of that reply: the texts differ and the run is refused with
`verification_failed`. What is left in an assembler's buffer by a broken stream is read before the next
one. A unit that does not pass raises inside the stream; the error is no `LLMProviderError` and is taken for a
failure of the transport (`semikb_provider_resilience/__init__.py:145`), so that another attempt, then the other provider,
goes on behind the units already shown, against `docs/T9-4.5Provider韧性验收.md:18`.

*Clients.* With concurrent searches a trace may carry the attempts of another search, since the encoder's and
the reranker's are read after the call has returned (`production_service.py:146,175,235`).

*Search and index.* A switch of the alias that raises after it was made is taken for one that was not, and
the alias stays (`docs/Qwen原生Sparse迁移验收.md:34` has the source restored). The migration compares numbers, so that a publication
and a withdrawal between two of its reads cancel out. A worker still configured with the old version
moves the alias back, and documents of the new version are not found. A withdrawal deletes rows in the
document's own version only; a row that stays elsewhere keeps that collection from being built again
(`_verify_rows`). Filters work in whole seconds; times without a zone are taken for UTC, as the containers run in it.

*Schema.* A roll-back of `mongo_index_migration.py` drops an index of another name that was made meanwhile, which its
comment (line 37) rules out. The script of T9446d rolls one collection back before it refuses the next, where
T9446a looks at all of them first. `t6_mongo_migration.py` takes a missing collection for an empty one; if it fails, the empty
collections it has made stay. `t9431` can lose a message pushed between its read and its replacement.

*Turns.* If every task of a request is put off, the suggested route is still searched and answered.
"Do not use the web" changes the route of the tasks, while the assessment of the evidence may still allow
it. `ingest_request` leaves `answer_mode` as it was; `_reset_task_state` also leaves
`evidence_sufficiency`, `route_decision` and `status`. A message that resumes after a failure in
the middle of the graph goes on there, and its text is dropped. Resumptions, side conversations and
unclear answers count no round. A task planned as reuse that was carried out with the web reports reuse.
The heuristics keep the first three candidates of a text, so that a fourth, be it a refused write, is not
mentioned. A run and scope id read on a resumption are those of the turn that asked.

## 6. Proofs

TLAPS checks every theorem for all values of the constants, under the assumptions the modules
state (distinct names for actors, `None` outside the sets, natural bounds). The bounds of
the runs (`MaxMishaps`, `MaxNow`, `MaxFaults`, `MaxTurns`) stay parameters: nothing depends on their
values.

**MessageRequestsProofs.** `TypeCorrectness`, `NothingSaidTwice`, `TurnsAreUnique`,
`CompletionIsAnswered`, `AnswersFollowQuestions` follow from one inductive invariant, `IInv`,
the conjunction of the type invariant, `OncePerRole`, `CompletedIsAnswered`,
`AnswerFollowsQuestion` and

- `Serving`: a handler past its start serves a request;
- `SeqIssued`, `SeqInTransit`, `SeqOwned`: where a turn number may be. It is below the
  counter; while a handler carries it between the claim and the insert it is that handler's
  alone; afterwards the ledger owns it, and it is on a question of that request or nowhere.
  `TurnSeqUnique` is not inductive without them, since the number is issued by one write and
  used by two later ones of possibly another handler;
- `Backed`: a handler in the run has its question in the thread, one about to complete has
  its answer there, and so has a call that outlived its handler.

The step is split by what it does to the data (`NoNewTurn`, `TurnTaken`, `RecordInserted`,
`QuestionSaid`, `AnswerSaid`, `RecordRewritten`). `LeasePassesThroughFree` (no
step hands the lease from one request to another, which `ThreadLog` says of its writer) and
`HistoryIsPermanent` are action properties that follow from it step by step.

`ThreadKeepsALog` is the refinement of `ThreadLog`, in which a request says its question under a fresh number, has its answer
behind it, and is settled once. Its writer is the holder of the lease; the handlers, the clock
and the ledger's middle states are hidden. `SeqOwned` makes the number
fresh when the question is inserted, long after it was issued; `Backed` puts the question before the answer, and
the answer before the write that settles the request.

**IngestionPublicationProofs.** `IngestionTypes`, by `IType` (types, and that an actor at
work knows its job). The other three assume `Serial`, that there is one worker process.
`RevisionsKeepTheirSource` needs `Checked`: a worker at the replacement of the record found there nothing
or its own source. With two workers the check and the replacement come apart and it is false.
`FailedRunsAreUnpublished` and `SuccessorsAreServed` follow from `RunsInv`:

- `StoresAgree`: rows come from the source of the catalog's record;
- `AtCall`: what the call a worker makes next tells of the stores. Up to the publication the records are the
  run's own (`IsStaged`); records are published before rows, and rows before the previous revision is retired
  (`IsPublished`); a compensation that deletes no rows has found no records, and one that has returned has left none
  beside the job's rows (`IsCleared`);
- a job that has failed in a worker is `Cleared`: its rows have no chunk records.

That a failed job is not served says nothing of the rows it leaves behind, which a later run could publish, so
the invariant follows both stores through every call that may raise or lose its worker.

**DocumentLifecycleProofs.** `LifecycleTypes`, by `LType` (types, a client knows its
operation, a task under way has been sent, a worker has decided on what it saves).
`OperationsAreExclusive`, for any number of workers: `Exclusive` says that a task is in one place,
waiting or with one worker (`OnePlace`), and that a worker on an operation holds its claim
in the name of its task (`Holds`). `Holds` alone is not inductive: the claim admits its own
task, so that two copies of a task would both pass and the first to finish would release it.
`WithdrawalsAreClean` and `RestorationsAreServed` follow from `RecordInv`, whose part `Courses` says what a
lone worker knows of document, chunks and rows at each call. Clients write to the same stores: a request for a
withdrawal blocks the revision itself. `Blocks` says that it does so for an operation that is recorded, and
`Ran` and `Fresh` that one recorded as withdrawn has had another request's task, so that whoever is
still blocking has asked a second time. Nothing is assumed of the order of operations, retries and faults.

**BackgroundJobsProofs.** The theorems are about `ServicesSpec`, the services without the bounds and the fairness
of the runs. One service is at work in a behaviour, and each has an inductive invariant:

- `QueueInv`, which all need: an actor that has begun knows its record, a task under way has been sent. `OnePlace`: as
  long as no answer of the broker was lost and no task sent twice, a task is in one place. The lemmas
  about the queue are shared by the three services;
- `HoldoutInv`: a request past the opening has the dataset's one opening in hand, and its release is marked. From it
  `HoldoutIsOpenedOnce`;
- `EvaluationInv`, `JobInv`, `BatchInv`: the types, what holds of an actor at each call, and that a worker at work has
  its record to itself unless that has been disturbed. An evaluation's claim is its task's, so that this needs
  `OnePlace`; a batch's claim admits QUEUED only, so that it needs that no batch at work is queued again;
  a standardization has no claim. From these `WorkersAreAlone`;
- `ServedInv`: what is stored, in a worker's copy, noted by a retry and served agrees. It is about copies
  since records are saved whole: a batch saved as completed is one whose copy was complete while its rows were served.
  From it `RecordsAreTrue`.

The lemma of a step (`EvaluationGoal`, `JobGoal`, `BatchGoal`) gives the invariant again and says how far the step may
move one record; these moves are steps of `BackgroundJob`, which is `ServicesImplementJobs`.

**AgentTurnsProofs.** These theorems use nothing of what messages bear (`Said`), of what a model answers
(`Raws`), of what is found, judged or claimed, except that `None` is no route and not an outcome of a web
search (`NoneAssumption`). So `CallsAlwaysCleared`, `ControlledAlwaysInternal` and `WritesNeverPlanned` say that the
server's own checks suffice, whatever the model proposes. They follow from `GraphInv`, that the
checkpoint is `Good(at, s)`: the state has its fields (`IsState`); a plan that calls something lacks nothing and
refuses every task that writes (`PlanFits`); a new request has no frame, and one that is validated
asks again for a frame still open (`Decided`); evidence comes from the nodes that consult and
stays to the end of the turn (`EvidenceComesLate`); and `Cleared` and `Controlled`, which are the two
properties of any node and state. `Cleared` is not inductive alone: the edge into the nodes
that consult looks at what is missing, at the route and at the round, and only `PlanFits` and
`Decided` tell from these that no frame is open. `WritesNeverPlanned` is about the plan; the results have a theorem of their own below.
`CorrectionAlwaysInvalidates` has an invariant of the thread: the sources of slots and references are
messages already there.

**AgentClarificationProofs.** `FramesAlwaysKeepTheirLife`: every step of `AgentTurns` is a step of
`ClarificationLife` or leaves the frame alone, for any `MaxRounds` the settings allow (`RoundsAssumption`, `config.py:95`). `LifeInv` adds to
`GraphInv` what a frame's status and round may be at each node (`Placed`: a node that asks has a
waiting frame with rounds left), that these are numbers (`Named`), and that a frame is named for a
message before the one that runs for as long as a new one may be named for that (`Numbered`),
so that a new frame is another one. The lemmas say for each node how it moves the frame, and the refinement is their case split.

`WritesAlwaysRefused` and `ResultsAlwaysEarned` by `ResultInv`, with `GraphInv` and `LifeInv`: what is understood is a
list of at most three tasks whose ids differ and which depend on earlier ones only (`IsRead`, `IsTasks`); the plan has a
decision for each, with a route if it is to be executed (`Follows`); an open frame holds such an understanding, since its answers
are merged into it (`Based`); from the audit on the results are those of this plan. The last is not
inductive without the others: an answer resumed from a checkpoint plans anew from what the frame holds. The lemmas
in `AgentTurnsProofs` go through everything a message may be read by, the fixed forms, the model and the
heuristics (`UnderstoodIsRead`), through the plan (`PlanFollows`) and through the results, each of which sees those before
it (`EachIsFinalized`). As no list is longer than three, the recursion over the decisions is unfolded and needs no
induction. `RawsAssumption` says what the schema of the model's answer enforces (`understanding.py:238-283`): at most three
tasks, and members of the enumerations. An answer that does not fit is sent back or given up there, and nothing
else is assumed of the model: the theorems on results need of it the tasks with their policies, the types all of it.

`QuestionsAskOnlyTheRest` by `AskInv`. The plan asks for keys that its understanding leaves open (`MissingIsUnanswered`, through the
cut after three keys); so does an open frame of its base, except between the merging of an answer and
the validation, where the base is what is understood (`Remaining`). Laying an answer over the base drops no slot
(`MergingForgetsNothing`). The attempt at a proof corrected the property: that an open frame asks for no key it did not
ask for before is false. Keys are cut off after three (`routing.py:382`, `clarification.py:66`), and a question about what is
meant has none, so that its answer is followed by questions about slots. A run with such an answer is now
part of the instance. What holds, and what an engineer sees, is that nothing told is forgotten and nothing known asked for.

`TypesAlwaysOK` by `TypeInv`, with the four invariants above and that of the thread. `TypeOK` is not inductive: it speaks of
the fields that are compared, and says nothing of the context a message is read with or of the fields a frame's question is
resumed from. `TypeInv` (`TypedState`, `Filed`, `Counted`) says that an understanding, a plan, a frame and a context have
all their fields, of their types, at each node; that a log names messages; that the slots of a thread and of a
context have sources in it, which stay there as the log grows and is cut to its recent turns. It goes through every
value the nodes put together: slots read from a text, corrected and inherited (`SaidAssumption`: a pattern of the
text gives only slots of the context), the model's answer normalized, tasks grounded and numbered anew,
decisions combined, questions and answers merged, results. Where what is left of a filtered list has
to be typed, it is written as the members at chosen places (`Picked`), as the provers know nothing of `SelectSeq`.

**StreamedReplyProofs.** Nothing is assumed of what a provider streams or when it fails, but what
`StreamedReply` assumes of its constants.
`ReplyHasOneVoice` by `VoiceInv`: units come from the stream that is listened to and that has brought content, since
no other is opened behind such a stream. `SlotsAreAskedOnce` by `AskInv`, for a request that asks for what is missing:
what is shown consists of questions about disjoint sets of missing slots (`Asking`, `Apart`), it is what the
assembler has taken, and a reply that is whole asks for all of them. `AsksEachOnce` is not inductive, as a unit is
taken by comparing it with the assembler's units and not with what is shown.
`ShownAlwaysBeginsText` and `ShownAlwaysGrounded` by `ReplyInv`: what is shown is, at each node, the text that node
and checkpoint hold (`ShownFollows`); a reply is put together from the parts that were shown, and the text of an answer is
rendered anew with every unit, so that it must grow at its end. It does since a unit comes behind all kinds before it
(`InOrder`), and since the server's own fact is added before the first part that is none (`WithFactGrows`, `UnitGrows`): the check
in `StreamAnswer` never fails. All parts are of `Told(ledger)`: facts cite evidence of the ledger. The verification,
whose `SelectSeq` the provers do not know, takes nothing back (`VerifiedIsSame`): a fact refused there would have been refused when it was
streamed, as a controlled question has no evidence of the web (`RequestsAssumption`).

`AuditsAreWhole`, about the clients of providers (`ClientsSpec`, without fairness), by `AuditInv`: the log and the
round at work together account for every request sent (`SoFar`). The entries of a round say "retrying" while
it is at work, and the last is rewritten as it ends, so that the invariant splits the requests where the round began.

**IndexAndSearchProofs.** `EvidenceIsServed`, by `SearchInv`: what a request has read in one catalog was published there
at a moment since it began, and after the second read in both (`ReadIsServed`). It quantifies over all writers and the
migration, whose steps only shrink what has been unpublished or barred ever since. `SelectionKeepsProtected` is about
the operators of the selection.

`ProtectedStaysFound` assumes that a route may return as many rows as there are documents
(`Cardinality(Docs) <= RecallK`), as the run does: beyond that the nearest rows crowd out the rest. By `HeldOn`: what could be found ever since
the request began passes its filter, is in the union of the routes searched so far, and the protected part of it passes the selection.
The filter compares the dates of a document with the point in time the request asks for, the check of the records with the
clock; `FactsAssumption` says what the dates are.

`PublishedStaysFound` and `FailedPublishesRestore` are about `IndexMigration` among its writers, for any number of
documents, writes, builds, publishes and mishaps:

- `Reverting`: while the services have the source version, every command starts from it, and a roll-back has put back
  at each of its steps what comes before, so that what another writer puts in meanwhile is in that version, too;
- `Hiding`: a document under way is hidden before its rows are deleted and has its row before it is published;
- `Sourcing` and `Holding`, as long as nothing is excused: until the switch all documents are in the source version
  and the source collection has the rows of all that are published; from the comparison of the counts on the target
  collection has them. `PublishedIsFound` speaks of the alias alone and says nothing of the collection that the next switch, or
  its roll-back, makes the active one.

`ScriptsAreUndone`, for any `NumCollections` above 0 and indexes beside the foreign one, by `SchemaInv`: what a script that
only adds has yet to make was not there (`Acting`); what the look ahead of all collections found still holds
(`LookedAhead`); of the collection whose indexes are being put back every index without a change to come is as it was
(`Undoing`), and so are all those gone through (`PuttingBack`), in whatever order; a collection that the script made
is gone if the script removes such, and has no index of the contract otherwise.

**Only model-checked.** Liveness (`LeaseIsReleased`, `RunsEnd`, `OperationsEnd`, `WorkEnds`, `TurnsEnd`,
`RunsAndCallsEnd`), which needs fairness and is outside the prover's reach. Every other property of a passing run is
stated by a theorem.

## 7. What is not modelled

*In the modelled components.* Requests: listing and reading endpoints, the synchronous message endpoint,
audit and trace records, access checks, the identity check of a repeated request. Ingestion: the
parser's audit; the index release record (it is part of `IndexMigration`). Corpus and evaluation: what a stage makes of files, the
registration of datasets, metrics. Agent: prompts, the words of queries and answers, summaries and
approved preferences (nothing is decided by them), the migration of old frames, signatures and audit
records. Replies: layout, how a text is matched with unsafe words and identifiers, delays between
attempts. Search: how scores are computed, the wording of traces, the demo repository. Celery, LangGraph and the stores are modelled by what the code relies on.

*Without a module.*

- Parsers, artifact storage: conversions and calls of external services; success, failure and answer are choices.
- Intent experiments, metrics: offline, sequential and numeric.
- Governed records: construction and validation of records; a gate's refusal is a choice of
  `IngestionPublication`.
- Demo stores, provisioning, API wiring, verification scripts, web frontend: one-off, single-process or without
  control of their own. The deployment runs one worker process (`--concurrency=1`,
  `docker-compose.prod.yml:253`); runs with two workers are about the claims that are there for them.

## 8. What is left

1. A composition of ingestion and lifecycle on one revision. They share the filter (`Serves` and `Served`
   are the same), and are checked apart.
