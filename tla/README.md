# CrushPilot: verification of the service

TLA+ models of the CrushPilot backend (`src/backend/app`), the runs of TLC that
check them and the theorems that TLAPS proves about them.

## The system

CrushPilot is a FastAPI service around one LangGraph graph. A request names a
device (owner) and a conversation (`thread_id`); an answer is an event stream
`start, complete | error, end`. Behind it are three stores (metadata rows,
graph checkpoints, a PostgreSQL corpus) and one remote model.

| Part | State | Operations | Hard behaviour |
| --- | --- | --- | --- |
| Conversation locks (`chat_service.py` 39-87) | registry of lock objects, user counts | acquire, hold, release | entries dropped and made anew under waiting threads |
| Chat session service (`chat_service.py` 90-260, `routes.py`) | leases, graph lock, draining flag, running generators | stream_chat, get_thread, delete_thread, local_trace, begin_draining | disconnects in any state, checks that are stale when used, bounded thread pool |
| Thread store (`thread_store.py`) | rows with owner and tombstone | claim, owns, begin/cancel/finalize_delete, pending_deletions | two stores without a common transaction |
| Application runtime (`bootstrap/runtime.py`) | started, shutdown, closers, readiness errors | start, shutdown, readiness, clean-up of deletions | crash and restart, degraded modes, lazy start |
| Corpus lifecycle (`publisher.py`, `postgres.py` 167-355, 421-465, 539-593, `scripts/`) | versions with status, chunks, embeddings, links, published_at | publish_corpus, rollback_corpus | overlapping runs, crash between transactions, clock order |
| Retrieval (`retrieval/service.py` and the stages beside it) | one shared connection with its transaction | retrieve: search, fuse, rerank, resolve, select, expand, fit, assess, assemble | stages that degrade, aborted transactions, two budgets |
| Retrieval trace (`postgres.py` 595-690) | one row per retrieval | write_trace, mark_trace_failure | a trace fails while its turn goes on, or the other way round |
| Agent graph (`agents/assistant`) | messages in the checkpointer, plan | build_context, analyze_scene_and_plan, retrieve_evidence, generate_answer, validate_output | failures after the user's message is kept; policies against the model |
| Context building (`retrieval/context_builder.py`) | | build_context | priorities within a token budget |
| Model client (`infrastructure/model_client.py`) | | call_json, probe | retry with the graph lock held |
| Skill runtime (`knowledge/skill`) | skill.yaml, compiled file, loaded artifact | compile, readiness, load, view | files replaced in place; artifact swapped or dropped during a turn |
| Ingestion (`knowledge/ingestion`) | | parse_markdown, chunk_sections, ingest_document, build_corpus | sizes at limits, overlap, recurring headings |
| Research CLI (`research.py`) | checkpoint file | analyze_full_corpus | resume, edits, crash |
| Frontend, evaluation, deployment | | | outside the service |

Interaction: a route calls ChatService; ChatService takes the conversation's
lease, then the graph lock, then the thread store, the graph and the
checkpointer. The response object pulls events with one pool thread per
`next()`. AppRuntime makes all of these, closes them under the graph lock, and
at start finishes deletions that a crash interrupted. The publishing scripts
share only the database with the service.

What makes each part correct is stated by its properties below; PROJECT.json
lists every hazard at its line, with the properties that cover it or a note.

## Modules

| Module | Models | How |
| --- | --- | --- |
| `ConversationMutex` | the promise of ThreadExecutionLocks | abstract: Ask, Enter, Leave |
| `ThreadLocks` | ThreadExecutionLocks, `_ThreadLease` | a section under `_guard` is one step (Register, Deregister); taking and freeing the entry's lock are steps of their own (Obtain, ReleaseLock); a dropped entry may be allocated again |
| `ThreadLocksProofs` | | proofs about ThreadLocks |
| `ChatSessionProofs` | | proofs about ChatSession |
| `ChatSession` | ChatService, ThreadStore, streams, drain, close, crash, restart | one action per step between two points where another thread can act: a wait for a lease, the graph lock, a pool thread, or a store call that may fail. Leases are taken through an instance of `ConversationMutex` |
| `SkillRuntime` | `knowledge/skill/runtime.py`, `compiler.py`, `loader.py` | a skill is a value; the compiled file is torn between truncation and writing |
| `AppRuntime` | `bootstrap/runtime.py` | EXTENDS SkillRuntime; `stage` is the line start or close has come to, and each assembly step may raise |
| `Lists` | `sorted` with a key, comprehensions, slices, `sum`, and the pass that takes what fits | stated of places in a list; EXTENDED by ContextWindow and EvidenceRanking |
| `ContextWindow` | `append_recent`, `build_context` | pure operators over messages with a token count |
| `ScenePlan` | `nodes.py` 230-293 and the plans made without a model | pure operators over records of sets |
| `AgentTurn` | the five nodes, `call_json`, `RetrievalService.retrieve` over its connection, the traces | EXTENDS the four above: turns in a process that starts, degrades, closes and dies; one action per node, model attempt or database statement |
| `Ingestion` | `markdown.py`, `chunker.py`, `pipeline.py` | one step per line and per unit; a text is a span of token numbers, a chunk the spans it was put together from |
| `EvidenceRanking` | the stages from candidates to prompt | one step per stage, and per candidate, chunk or context that is considered |
| `Knowledge` | | EXTENDS Ingestion, EvidenceRanking, ContextWindow, ScenePlan: a behaviour is one corpus, one retrieval, one plan or one context |
| `IngestionProofs`, `ContextWindowProofs`, `KnowledgeProofs`, `AssistantProofs` | | proofs about Ingestion; Lists and ContextWindow; EvidenceRanking, plans and contexts; AgentTurn |
| `CorpusLifecycle` | publish and rollback scripts, CorpusPublisher, repository | a transaction is one step at its commit; the swap of the published version has a step for BEGIN, which fixes `now()`, and one under the table lock |
| `CorpusLifecycleProofs` | | proofs about CorpusLifecycle |
| `ResearchRun` | analyze_full_corpus | one step per file, two for saving (temporary file, replace) |
| `ResearchRunProofs` | | proofs about ResearchRun |
| `MC...` | | instances for TLC |

`ThreadLocks` implements `ConversationMutex` (checked and proved), so
`ChatSession` composes the two by using the abstract actions: what it shows holds
for the registry with its recycled entries.

ChatSession has many requests and treats a turn as one step under the graph
lock; AgentTurn has one conversation and opens that step up. `graphHeld` of
AppRuntime is the lock that ties them: BeginTurn is ChatSession's entry into the
turn, FinishClose its close. `Publish` of AppRuntime is the effect of
CorpusLifecycle's publish and rollback on the service, and the records of
Ingestion are what a publishing run stages.

AgentTurn keeps the transaction state of the repository's connection in `tx`
(`idle`, `open`, `aborted`, `lost`, `closed`): no SELECT of the searches commits, so a
turn's transaction ends with its trace, and `Repository.readiness` leaves the
connection in a transaction that the first turn inherits. A trace is reduced to its turn and
the outcome it tells. In EvidenceRanking a score is an integer in units of
1/1000000000, weights are tenths and hundredths as in the code, and what a query
finds is an input: `case.lexical` and `case.vector`, one list per query.

In ChatSession `pc[r]` says where a request is: `waiting` for its lease,
`leased`, `checked` (before claim), then for a stream `open`, `started`, `turn`
(its generator is resumed and waits for the graph lock), `thinking` (in
`graph.invoke`), `told`, `ended`; for a delete `tombstoned`, `wiped`, `undo`;
`done`, or `gone` when closed, crashed or abandoned. In `open, started, told,
ended` it keeps its lease but no pool thread. The life of a row counts the
conversations that had the same `thread_id` one after the other; `claimed`,
`deleted` and `seen` are history for the properties.

Definitions commented "Slip" are mistakes the code could make; no action uses
them. Each is put in the place of the definition that follows it to see that a
property notices.

## Runs

| Run | Instance | Shows |
| --- | --- | --- |
| `locks` | 4 callers, 2 conversations, 4 lock objects | mutual exclusion, exact books, no idle entry, no lost lock, refinement of the mutex |
| `chat_safety` | 4 requests, 2 devices, 1 thread_id, 3 pool threads, 1 restart | ownership of turns and messages, deletion that lasts, settled reads, leases of streams, nothing after close |
| `chat_liveness` | 3 requests, a pool thread each (a pool that is too small is `chat_pool`) | every request and stream ends, shutdown closes |
| `corpus` | 3 publishing runs, 1 rollback, 3 versions, 3 builds | one complete version served, one kept, published content frozen, leftovers block nobody |
| `research` | 3 files, 3 runs, 2 edits, 1 crash | ok means analysed on this content; a kill loses the analysis being saved and, of earlier runs, those behind the file analysed last, and no others |
| `assistant` | 2 turns, 2 starts, 1 edit of the skill (valid or not), 2 corpus versions, 4 settings | nothing leaks, degraded assemblies serve nobody, transactions end, traces and history are true, close ends |
| `knowledge` | 11133 corpora (every document of up to four lines, longer ones, pairs), 5856 retrievals over three libraries of five chunks, 24576 plans, 8192 contexts | chunks fit and lose nothing, admission holds for context, the stages keep their promises, plans honour policies, boundaries come first |
| `chat_serial` (violated) | 3 requests | a closed stream's turn is written into a later conversation of the same id |
| `chat_pool` (violated) | 3 requests, 2 pool threads | the pool is full of requests waiting for the lease of a stream that needs a pool thread |
| `corpus_retention` (violated) | 3 publishing runs, 3 versions | the version published just before is dropped |
| `corpus_links` (violated) | 2 publishing runs | superseded chunks are of a version no search returns |
| `research_redone` (violated) | no crash, 1 edit | unchanged files are analysed again |

The five violated runs are disagreements between the code and what its
comments, docstrings or documents say; PROJECT.json quotes them under
"findings".

Bounds. Four requests are a stream that lost its lease, a delete, a new
conversation and one more; two devices and one `thread_id` let ids be reused
across owners (conversations meet only in the graph lock, so a second id adds
states and no new conflict: it was tried with three requests). One restart
leaves something to find, and a second start is like the first. Three
publishing runs are two that race and one that prunes after them; with three
versions there is one to prune. Of the three `Builds` one is a single new chunk
that is kept for research, which leaves nothing to serve, one a single original chunk
that is online, and one has both, so that foreign key, primary key, count mismatch,
emptiness and a missing collection all occur. In
ResearchRun three files leave one before and one after an edited one.

In `assistant` a second turn inherits the connection, the messages and the
traces of the first; a third adds nothing that a later one could inherit. A
second start follows a failed one, a close or a crash; the one edit of the
skill may make it invalid or contradictory, and compiling is not bounded. A
window of three messages overflows in the second turn. The four settings are one for each
mode, production twice: with a model and perhaps without an encoder, and the other way
round. The context budget is ample here, as `knowledge` is about budgets.

In `knowledge` the sizes keep the proportions of the code (an overlap shorter
than a unit, `TargetMin + TargetMax <= MaxTokens + 1`) while every comparison is met
with less, equal and more: blocks of 1, 4 and 9 tokens against units of 6, and
chunks of 8. Five chunks in two or five documents, with limits of three and two
per document, fill the selection and a document's share; every order of the five
and every assignment of three scores is tried. A third library has more required
topics than places, so that a full selection leaves one out. The budgets are such that
some of what is selected does not fit. In the instance a token count and the
prompt's own count of a context differ, as they may in the code.

Deadlock is not checked where the bound on requests, runs or jobs makes the
system stop. TLC uses symmetry for safety only; the instance of `locks`, which
checks liveness, uses none.

Fairness. `ThreadLocks!Fairness`: a holder gives its lock back (every path of
the code does: except, finally, close) and of the waiters of a free lock some
one gets it; `threading.Lock` promises it to no one in particular.
`ChatSession!Fairness`: each step of a request that the process itself has to
do is weakly fair, as model calls and database calls end (25 s timeouts) and a
client reads or disconnects; closing after draining is fair. Nothing makes a
client send, a client hang up, or the process stop. Since a behaviour has
finitely many requests, weak fairness is enough for leases; with an endless
stream of requests for one conversation, a single waiter could starve.
`AgentTurn!Fairness`: a turn goes on, because its calls of the model have a
timeout and its statements end, and so does a close that has found the graph lock free.
That some step is taken is all it asks for: which one, a success, a retry or a failure, is open,
so that `ClosesEnd` needs the bound on attempts.

## Proofs

`ThreadLocksProofs` proves for every finite set of callers and any sets of
conversations and lock objects (`CallerAssumption`, `NoneAssumption`):

- `AccountingInvariant`: `Spec => [](TypeOK /\ Accounting)`
- `Types`: `Spec => []TypeOK`
- `MutualExclusion`: `Spec => []Serialized`
- `RegistryReclaimed`: `Spec => []NoIdleEntries`
- `Refinement`: `Spec => Mutex!Spec`

Serialized is not inductive: that two holders of one conversation are one caller
follows only because they use the same entry, which is so because the registry
does not drop an entry with users, which holds because `users` counts
exactly the callers with a reference. Accounting says all of that, and
`IndInv == TypeOK /\ Accounting /\ NoIdleEntries` is inductive; one lemma per
action proves it. Counting is the part that needs care: `ReferrerAdded` and
`ReferrerRemoved` relate the cardinality of the referrers before and after a
step. The refinement maps a caller to "inside" while it holds the lock; leaving
the registry is a stutter.

`ChatSessionProofs` proves for any set of requests, devices and thread ids, any
pool size and any number of restarts (`NobodyAssumption`: "nobody" is neither a
request nor a device; `RestartAssumption`):

- `Types`: `Spec => []TypeOK`
- `TurnsStayOnOwnThread`: `Spec => []TurnsOnOwnThread`
- `ContentStaysOwned`: `Spec => []ContentOwned`
- `DeletionIsForGood`: `Spec => []DeletedForGood`
- `StreamsKeepLease`: `Spec => []StreamsHoldLease`
- `ClosingIsFinal`: `Spec => ClosedIsFinal`
- `ReadsStaySettled`: `Spec => []ReadsAreSettled`

The first four come from `TypeOK /\ Core`. None of the properties is inductive:
a turn stays on its own conversation because nobody else can mark the row while
the turn has the graph lock (`LockHeld`, `TurnsOwned`); a delete that takes its
tombstone back must not have been reported (`DeletesUnderWay`); the row that
`claim` inserts must meet no messages, which is so because every message is of a
request that has arrived and so has an owner (`Authored`, `Known`,
`ContentOwned`); and the next conversation of a thread_id must not count as
deleted from the start (`DeletedPast`). Most steps change nothing that Core is
about: `QuietStep` deals with all of them, and each other step has a lemma.
`StreamsKeepLease` has an invariant of its own, `LeaseKept`; `ClosingIsFinal`
follows from `LockHeld`, which says that the connections are open while anybody
has the graph lock. `ReadsStaySettled` needs `Settled`: a message without an answer
is of a turn that is under way or failed (`TurnsSettled`), no turn is under way when
somebody reads, and a turn that failed stays so, because a request comes to
something only once (`Unconcluded`).

`IngestionProofs` proves for any corpora and sizes (`ChunkAssumption`: the
overlap is at most half a unit, a unit not longer than a chunk, and a chunk long
enough to be left alone leaves room for another unit, as 80, 600, 900 and 250
do):

- `ChunksAlwaysFit`: `IngestSpec => []ChunksFit`
- `NothingIsLost`: `IngestSpec => []NothingLost`
- `ContextIsAdmitted`: `IngestSpec => []OnlineContextIsOnline`

`IngestInv` has the types, the shape of spans and sections (`Shapes`), the sizes
(`Sizes`: the pending text fits as well, since it is closed before a unit that it has
no room for) and where each token read so far is (`AllPlaced`): in the body, a section, the
blocks left, the pending text or a chunk. Every step moves some of them from one
of these to the next, and the lemma of a step says which.

`NothingLost` is about the order of the pieces and how often a token is in one, too.
Its strengthening is `Layout`: the texts that are parsed are apart and in order
(`TextsApart`), pieces begin in the order of the document (`PiecesRise`), no piece overlaps
any but the next one (`Twice`), and what is left to cut comes after all that is cut, except for
the rest of a block, which repeats the overlap of its last piece (`LeftToCut`). With an
overlap of more than half a unit a token would be in three pieces, and without the
fact that only blank lines have no tokens two texts could begin at the same one.

`Admitted` is what the third follows from: a document has a number that none before it
had, all of its chunks one scope, and a parent is named by its document's number.

`ContextWindowProofs` has no theorem about a behaviour: it says, for any lists, costs
and limits, what the operators of `Lists` and `ContextWindow` return. Nearly all of the
stages of a retrieval sort, filter or add up, and so does `build_context`. `Sorted`,
`Those` and `Total` are defined without recursion, so that lemmas can say what they
return: `Places` (the elements of a finite strict order take the places 1 to n),
`SortedIsInOrder`, `PickedAt`, `ThoseOfSet`, and for sums `TotalIsWeight`, by which a
sum is the cardinality of a set of units, so that the library's facts about finite sets
give the others (`TotalGrows`, `TotalOfPlaces`, `TotalAppended`, `TotalOfImage`, ...).

The pass that takes what fits is a recursive function over the items, and an induction
over it is what the provers cannot do. `PassTakes` goes by the least counterexample instead
(`FirstNumber`): were the amount used after some item not the start plus the costs
of what has been taken, there would be a first such item, and the one before it
contradicts that. From there `TriedInOrder` says that whatever is tried before a
message with a boundary has one too and is newer, `KeptMessages` that such a message is left out
only for the current one and newer ones with a boundary, `ItemsThatFit` that facts and preferences
use what the pass before has left, and `ContextWithin` that the context they make keeps
within the budget. `RecentMessages` and `LastMessages` are about the window.

`KnowledgeProofs` proves of a retrieval, for any libraries, searches, verdicts of a
reranker and limits (`RankingAssumption`: attributes and cases are of their types, topics
are finitely many, a context's tokens are no more than retrieval charges for it, and lists
are short enough, about 18900 candidates with k = 60, for two ranks to differ in the
unit of the scores):

- `RankTypesAlways`: `RankSpec => []RankTypes`
- `DominanceIsRespected`: `RankSpec => []FusionRespectsDominance`
- `TopicsAreNotMissed`: `RankSpec => []MissingIsUnavoidable`
- `VerdictIsKept`: `RankSpec => []VerdictIsOfThePrompt`

`Shares` is why fusion keeps dominance: a share is positive, and of two ranks of a list
the better one has a larger share, rounding included. `Selection` says while chunks
are selected that what is not barred is still to come or is kept out for a reason that
lasts, and that as long as a candidate would add a topic, each selected chunk has added one.
`WithinBudget` says that `used` is what the evidence costs, and later that what
the prompt has spent and will spend together fit: the prompt drops nothing,
because it counts no more than retrieval did, and the order does not matter.

Of the whole specification it proves, for any cases (`CasesAssumption`: facts and
preferences are sequences whose costs are numbers, messages are messages):

- `ChunksFitAlways`: `Spec => []ChunksFit`
- `ContextIsAdmittedAlways`: `Spec => []OnlineContextIsOnline`
- `NothingLostAlways`: `Spec => []NothingLost`
- `RetrievalsAreSteps`: `Spec => RankSpec`, and with it
- `DominanceAlways`: `Spec => []FusionRespectsDominance`
- `TopicsAlways`: `Spec => []MissingIsUnavoidable`
- `VerdictAlways`: `Spec => []VerdictIsOfThePrompt`
- `TypesAlways`: `Spec => []TypeOK`
- `PlansHonourPolicies`: `Spec => []PlanHonoursPolicies`
- `BoundariesAlways`: `Spec => []BoundariesFirst`

`PlansHonourPolicies` follows from what the two stages of a plan do: `DirectedPlan`
(scenes and task) and `RuledPlan` (topics) are lemmas about operators, `PlanInvariant`
says that an output is the finished plan of its input. `BoundariesAlways` is built
likewise: `ContextInvariant` says that a context is what `build_context` makes of its
input, and the lemmas of `ContextWindowProofs` say what that is.

`AssistantProofs` proves for any skills, corpora, settings, scenes, requests, plans
and bounds:

- `Types`: `Spec => []TypeOK`
- `NothingLeaks`: `Spec => []NoLeak`
- `CleanStartsAreComplete`: `Spec => []CleanMeansAssembled`
- `TurnsKeepConnections`: `Spec => []TurnsHaveConnections`
- `TracesAreTrue`: `Spec => []TracesTellOutcome`
- `TransactionsAreEnded`: `Spec => TransactionsEnd`
- `HistoryIsKept`: `Spec => []HistoryIsPast`

All but the last come from `Core`, the types with what a view was taken from (`Viewed`)
and the lemma that a finished plan is a plan. That a clean start is complete needs to know what is open
at each step of the assembly (`AtStage`) and that only a failed one keeps an
error; that a turn keeps its connections needs that it holds the graph lock
exactly while it runs (`Held`) and began in a clean process; that a trace is true
needs `Books`, by which a row is of a turn that has begun, a turn has no row before
its retrieval has ended, and `traceOf` names no other turn's row; and that transactions end
needs `Transactions`, by which the connection is in one only while the turn
searches. `HistoryIsKept` has an invariant of its own, `Remembered`: while a turn runs,
its message is the last of the window, and its context is what `build_context` made of
that window. The last message equal to the current one is then the last message, also
when a turn repeats an earlier one, so that `Recent` leaves the conversation before
the turn; and the lemmas about the pass say that all of it is kept if all of it fits.

`CorpusLifecycleProofs` proves for any versions, chunks, builds and jobs
(`NoVersionAssumption`, `JobAssumption`: no job both publishes and rolls back,
`BuildsAssumption`, `NewKbAssumption`):

- `Types`: `Spec => []TypeOK`
- `OneVersionServed`: `Spec => []AlwaysServing`
- `OneVersionKept`: `Spec => []RollbackAvailable`
- `PublishedIsFrozen`: `Spec => ContentFrozen`
- `RerunsSucceed`: `Spec => RerunSucceeds`

The swap is what needs thought. `_prune` keeps the retired version of the latest
time, which is one version only because times are given out once: `Timed` says
that, and that the time of a swap waiting for the table lock is taken by no
version. With `Single` (one published, at most one retired), `Whole` (both are
complete) and `Remembered` (there is one since the first and second publication)
the lemma `SwapInv` follows the tables through the two UPDATEs and the pruning.
`RerunSucceeds` needs `Unhindered` on top: a run that is alone is the only one under
way, and each of its steps finds in the tables what the step before has put there.

`ResearchRunProofs` proves for any number of files, edits, runs and kills
(`DocsAssumption`, `BoundsAssumption`):

- `Types`: `Spec => []TypeOK`
- `RecordsAreEarned`: `Spec => []OkIsEarned`
- `OnlyTheTailIsLost`: `Spec => []KillLosesTheTail`

`Earned` follows a record around: from the analysis into the results and the
checkpoint, out of it into the next run's `completed`, and back into its results. `Current`
says that what a run has of a file is of the content it read.

A kill leaves the checkpoint and nothing else, so that what it loses is what the
checkpoint does not have. It does not cost one analysis only: `save_checkpoint` puts the
records made so far in the place of a longer file, which is the finding
`NothingRedone`. `KillLosesTheTail` draws the line: what was analysed before is still
there, or was for a file behind the one analysed last. `Kept` is its strengthening. Until a
run saves for the first time the checkpoint is that of earlier runs and has all that the
run may take over (`Untouched`); from then on it is the beginning of the run's own results,
ends with an analysis of this run, and has all others but the one being saved (`Own`).
Reuse grows the results but not the checkpoint, and `OwnGrows` says why that does no harm.

Only model-checked: liveness (`Answered`, `DrainCloses`, `LockPassedOn`,
`ClosesEnd`), which is out of the prover's reach. Every invariant and action property of
a passing run, and the refinement, is proved.

## What is left out

- The frontend, metrics, prompts, evaluation and governance scripts and deployment,
  which are outside the service or steer nothing in it.
- What a query matches: SQL, full text search, tokenizing, embeddings and the
  reranker's scores are inputs of EvidenceRanking, and steps that work or fail in
  AgentTurn. Hard filters, which the statements apply, go with them; which
  candidates are unusable is an attribute of a chunk.
- Keyword rules: `contains_unsafe_input`, `explicit_missing_context` and the metadata
  suggested at ingestion are sets or choices. So are the schema checks of a skill
  and of a model's answer.
- The texts of answers, `_shorten_output`, the fields of traces and their
  minimisation, latencies.
- `write_build_artifacts`: it replaces several files one by one, which the
  service does not read.
- That a turn of the graph dies between two checkpoints of its nodes: LangGraph
  would keep the user's message, which AgentTurn does, and nothing resumes a turn.
- `list_threads` and `local_trace` (they change nothing), titles, timestamps of
  rows, the text of events, and readiness errors, which are set at start and
  turn every chat away.
- A commit that takes effect and still raises, except for the deletion of a
  checkpoint; the degraded mode, whose stores are others than those of the
  production mode; requests sent twice (they are two requests).
- That a closed stream's generator may still be running is modelled because the
  code handles it (`chat_service.py` 114-116, test
  `test_close_during_active_generator_still_releases_lease`): anyio normally lets
  the thread finish first, and a forced cancellation does not.
- A constructor of a resource that raises after it has connected: an assembly step in
  AppRuntime either gives a resource, whose closer is then in `_closers`, or none.
- What the encoder itself takes: `ChunksFit` is about the 900 tokens of
  `chunk_sections`, counted by its own pattern. `NothingLost` is about body text;
  headings go into the paths and are not numbered.
- The ranking of the local mode (`local_json.py`): `VerdictIsOfThePrompt` is about
  `RetrievalService`.
- In CorpusLifecycle the embedding model is the same for all runs; the columns of
  chunks are abstracted to whether they are online, and links to the version
  they point into.

## Observations

Behaviour met while modelling that no document promises to be otherwise, and that a
maintainer may want to know of:

- Only the failure of a vector search is tolerated (`service.py` 106); one of a
  lexical search fails the turn, though the comment at line 81 speaks of either.
- An `_resolve_conflicts` winner may be dropped later as not applicable to the scene,
  and the candidate it suppressed does not come back; without a reranker the scores
  are so small that the tolerance of 0.15 always holds.
- Parents and neighbours are not filtered: the text of a chunk that is excluded
  or suppressed may be shown as the neighbour of another.
- `Repository.readiness` leaves the connection idle in a transaction from the start to the
  first turn, and its table lock holds up the `ALTER TABLE`s of a publish.
- After a publish with another embedding model vector searches find nothing, without
  an error; traces name the version of the settings, not the one that was searched.
- A readiness probe that meets the compiled skill while it is written drops the
  artifact, while the errors of the start stay empty: requests are accepted and
  fail, until the next probe. `insufficient_information` is not among the scenes
  that readiness requires, and a view without it raises outside of any try.
- A retrieval that fails in the database has its connection in an aborted
  transaction, so the trace of the failure cannot be written; the rollback of that
  attempt is what frees the connection.

## Plan

Done: every part of the service, and the proofs above. What would come next is one
model of several conversations whose turns are those of AgentTurn, with ChatSession
refined by it; its state space is out of reach of the bounds above.
