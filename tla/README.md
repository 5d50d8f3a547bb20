# codefa: TLA+ models and proofs

codefa is a local proxy between agent command lines (Claude Code, Codex, Pi) and model
providers, with a bridge that lets Telegram and Discord chats drive managed Claude sessions.
It is one asyncio process. What makes it hard is who is doing what when: a conversation tree is
changed by deliveries, commands and finishing tasks; a provider's recovery is shared by executions
that can be cancelled at every await; a generation of provider clients is replaced under running
requests; a delivery queue merges messages while a worker holds them; a timer thread writes the
state the loop is changing; and a stream that breaks is replayed, continued or repaired behind the
back of a client that may have left.

The modules here model those parts. TLC checks them on small instances, TLAPS proves the central
invariants for every instance.

## 1. Inventory

Paths are relative to `src/src/codefa/`.

| Part | State it keeps | Operations | What is hard | What makes it correct |
|---|---|---|---|---|
| `messaging/trees` | trees of prompts and status messages, a queue and an active claim per tree, a repository with a reference index, a task slot per claim | admit, finish and start the next, stop (reply, global), clear (reply, chat), record/complete/fail, restore | tasks cancelled before their body ran; results after a stop; clear under a running task; duplicate delivery | one task per held claim; FIFO; nothing runs in a cleared tree; the index is exact; what is stopped stays stopped |
| `messaging/session` | in-memory state, dirty flag, generation, timer, file; managed-message log | save (delayed), flush, clear, restore | timer threads against the loop, two locks, failing writes | no older snapshot lands; what was flushed or cleared is on disk; changes are saved |
| `messaging/limiter`, `platforms/outbox` | queue of keys, map of functions and futures, worker, background tasks | enqueue, fire and forget, worker step, shutdown | compaction, retries, cancelled callers, shutdown | every caller is answered; the newest version is processed; nothing survives the shutdown |
| `core/rate_limit` | times of acquisitions | acquire, acquire_if | window boundary, late sleepers | at most `rate_limit` acquisitions in any window |
| `providers/admission` | recovery episode, leader, waiters, probe; concurrency slots; per-execution budget | open attempt, succeed, reject, correct, fail, abandon, release | hand-over of leadership, stale permits, cancellation in each await | one probe; no lost wake-up; slots returned; exhaustion shared and final |
| `runtime/provider_manager` | generations, leases, retired and unpublished runtimes, refresh task, cleanup tasks | acquire, release, replace, refresh, close | retirement under leases, failing cleanups, cancelled shutdown | never closes what is in use; closes everything exactly once |
| `messaging/workflow`, `commands`, `turn_intake` | stop and clear generations, active operations | handle a message, stop, clear, close | a prompt admitted across a stop; snapshots saved out of order | generation tokens; the last saved snapshot is the newest |
| `messaging/node_runner`, `node_event_pipeline`, `event_parser`, `ui_updates` | phase of a turn, edit throttle | run the CLI, consume events, settle the claim | cancellation in each phase | the claim is settled exactly once |
| `messaging/transcript` | ordered segments, open subagents | append events, render | out-of-order tool results | segments keep their order and owner |
| `messaging/voice`, `platforms/voice_flow`, `transcription` | pending voice claims | reserve, transcribe, hand off, cancel | cancel against hand-off | exactly one outcome per claim |
| `platforms/telegram*`, `discord*` | vendor clients | start, quiesce, close, send | ingress and delivery stop at different times | delivery outlives ingress |
| `rendering` | none | escape Markdown | - | - |
| `cli/managed`, `process_registry` | pending and real sessions, aliases, processes | get or create, register, remove, stop all | real id learned late; stop during registration | a process is stopped once and never lost |
| `cli` entry points, launchers, background server | server process, restart flag | start, restart, stop | restart request during shutdown | one server at a time |
| `runtime/application`, `asgi` | owned resources | start, close (retryable gates) | failing gates | resources are closed in order, and only once released are they forgotten |
| `application` | none | route, resolve reasoning, execute under a lease | names with slashes, tiers, ids picked from a list that is stale | a client gets the model it picked; the lease is released on every path |
| `api` streams | prefetched event, finalizer | stream, disconnect, clean up | disconnect during prefetch | the finalizer runs once |
| `api` routes, handlers, web tools | none | HTTP surface | - | - |
| `core/anthropic/streaming` | open blocks, indexes | start, delta, stop, recover | interleaved blocks, recovery in the middle | a well-formed event stream |
| `core/anthropic` conversion, `thinking`, `tools` | a ledger of what waits for a result; text held back | map messages; find thinking and calls in text | results out of order or missing; a tag cut by a chunk's end | calls and results stay paired, nothing is lost; what is found does not depend on the chunks |
| `core/openai_responses` | output items in progress | assemble events, complete | nested items, failures in the middle | every started item ends, sequence numbers rise |
| `providers/stream_recovery`, `failure_policy` | held-back events, early-retry state | push, flush, advance failure | failure before or after the first flush | nothing is sent twice |
| `providers/openai_chat`, `anthropic`, vendors | attempt, holdback, ledger; request plan | run a stream, replay, continue, repair; correct a rejected request | a break at any chunk, before or after the client has read something | a retry is invisible; a tool call is whole or absent; a correction is new |
| `providers/runtime` | provider cache, model lists | resolve, discover, cleanup | an answer that arrives after its generation was replaced | the list offers what the current generation can serve |
| `config` | settings, env files | load, migrate, write, apply | partial writes, locked sources, fields that need a restart | what is stored is served, or a restart is owed |

How they interact. An HTTP request takes a lease on the current *generation*
(`provider_manager`), whose provider opens attempts through its *admission* controller, which in
turn acquires from the *sliding window* and a semaphore. A chat message is admitted to a *tree*
by the workflow; the tree's processor runs the node runner, which drives a managed CLI session,
which in turn calls the proxy; status edits go through the *limiter* (which also uses the sliding
window); tree snapshots go to the *session store*. `runtime/application` starts all of this and
shuts it down: ingress, workflow and CLI sessions, delivery, transcriber, generations.

`PROJECT.json` lists every part with its status and, under `hazards`, what can go wrong in it at
which line.

## 2. Modules

| Module | Models | Parts of the source |
|---|---|---|
| `MessageTree` | one tree: graph, queue, active claim, as operators on a record | `messaging/trees/{runtime,graph,queue,node,transitions}.py` |
| `TreeQueueManager` | all trees, the repository, the tasks | `trees/{manager,repository,processor}.py` |
| `TreeSnapshots` | what the store keeps of trees and what a restart makes of it | `trees/snapshot.py`, `from_snapshot` in `graph`, `runtime`, `repository` |
| `ConversationExecutor`, `TreeQueueRefinement` | abstract: one turn at a time per conversation, in order, each at most once; the refinement mapping and `ImplementsExecutor` (proved in `TreeQueueManager_proofs`) | |
| `MessagingWorkflow` | a prompt or command from its delivery to its reply, the store, the managed-message log, restart | `workflow.py`, `commands.py`, `turn_intake.py`, `session/{store,managed_message_log}.py` |
| `NodeRunner` | a turn's runner and the pool of CLI sessions | `node_runner.py`, `node_event_pipeline.py`, `cli/managed/` |
| `Transcript` | the segments of a turn and their rendering | `messaging/transcript/`, `ui_updates.py` |
| `VoiceNotes` | voice notes, their transcription and cancellation | `voice.py`, `platforms/voice_flow.py`, `transcription.py` |
| `MessagingLimiter` | the delivery queue as the outbox uses it | `limiter.py`, `platforms/outbox.py` |
| `PlatformRuntime` | connection, ingress, delivery and shutdown of Telegram and Discord | `platforms/{telegram,discord,outbox,factory}.py` |
| `SessionPersistence` | the writers of the session file | `session/persistence.py`, the writing side of `store.py` |
| `SlidingWindow` | the rate limit | `core/rate_limit.py` |
| `ProviderAdmission` | recovery gate, attempts, slots | `providers/admission.py` with the attempt loop of `openai_chat/provider.py` |
| `ProviderGenerations` | generations of provider clients | `runtime/provider_manager.py` |
| `ModelCatalog` | discovery, the list of models, routing, reasoning | `providers/runtime/`, `api/model_catalog.py`, `application/{routing,reasoning}.py`, `core/gateway_model_ids.py` |
| `ResponseStream` | one request from its lease to the end of its response | `api/{routes,response_streams}.py`, `api/handlers/`, `application/execution.py` |
| `OpenAIChatStream` | one streamed execution of a chat provider | `openai_chat/{provider,tool_calls}.py`, `stream_recovery.py`, `core/anthropic/streaming/{ledger,recovery}.py` |
| `AnthropicRelay` | one streamed execution of the native provider | `providers/anthropic/{client,request,stream}.py` |
| `FailurePolicy` | how an error is judged, told, and judged again | `failure_policy.py`, `stream_recovery.py`, `anthropic/errors.py`, `core/anthropic/errors.py` |
| `TextParsers` | thinking and tool calls written as text | `core/anthropic/{thinking,tools}.py`, `feed` and `flush` in `provider.py` |
| `ChatHistory`, `ResponsesHistory` | a conversation, or the items of a Responses request, as a chat history | `core/anthropic/conversion.py`, `core/openai_responses/input.py` |
| `ResponsesAssembler` | an event stream as the stream of a response | `core/openai_responses/{stream.py,streaming/}` |
| `ApplicationLifecycle` | start-up, shutdown behind gates, supervised restart | `runtime/{application,asgi,bootstrap}.py`, the loop of `cli/commands.py` |
| `BackgroundServer` | the shared background server and `codefa stop` | `cli/{background_server,entrypoints}.py` |
| `AdminConfig` | settings: sources, Apply, commit, restart, migration | `config/admin/`, `env_migrations.py`, `apply_admin_config` |
| `MessagingBridge` | the components of the bridge, one at a time, for all values of their constants; what they promise together | the modules above it is made of |
| `RequestStreams` | the three streams a client may read, one at a time; what they promise together | the modules above it is made of |
| `ProxyServer` | the parts that run the server and serve a request, one at a time, for all values of their constants; what they promise together | the modules above it is made of |
| `*_proofs` | lemmas, inductive invariants, theorems | |

`MC*.tla` name model values, symmetries and small constants, and each `.cfg` is a run.
`MessagingBridge`, `RequestStreams`, `ProxyServer`, `MCRequests` and `MCProgress` put several components into one specification: a behaviour belongs to one
`part`, takes the steps of that part's `Next` and leaves the variables of the others alone, so the states of a run are the
sum of its parts' and not their product. `MCBridge` gives the bridge's constants their values, `MessagingBridge_proofs` proves what it promises for all of them; `RequestStreams_proofs` does that for the
streams and `ProxyServer_proofs` for the server; `MCRequests` puts the two together and adds the conversations and parsers that stay with TLC. The properties of such a run are the ones the modules
define, joined by the question they answer together, each under the condition that it is its part's turn.
Operators with a suffix after an underscore, with a comment that starts "Deviation", are not part
of a model: they are faulty variants of a definition, used to show that a property notices a
plausible bug there. Many were tried beyond those that are kept.

Which components a module takes as given: `MessagingWorkflow` has the trees of `TreeQueueManager` reduced to the
state and root of each prompt; `NodeRunner` relies on `TreeQueueManager` for one live turn per session
(`ResumedSessionIsClosed`); `OpenAIChatStream` draws its attempts from the budget `ProviderAdmission` manages, and
`ResponseStream` its lease from `ProviderGenerations`; `ResponsesHistory` is composed with `ChatHistory`, whose conversation it feeds.

### What an action is

asyncio code runs without interruption between two suspensions, so an action is what runs from one
suspension to the next. Code under an `asyncio.Lock` that awaits only uncontended locks is one
action. Threads (`SessionPersistence`, `VoiceNotes`) interleave between critical sections. Data that no property
distinguishes is left out: prompts, texts and errors are model values or are not there at all.

### Trees

`tree` is a function from tree objects to records: `nodes` (state, parent and the message it
answers, status message, session), `queue` (a ticket per waiting node: `MessageNodeQueue`),
`active`, `activeNode` and `stopping` (`_ActiveExecution`). `published`
and `index` are `TreeRepository._trees` and `_reference_to_tree`; `slot` has the task of each claim
with the phases `created`, `announcing`, `running`. A tree object outlives its place in the
repository, as in the code, where a task keeps the object it was launched for: the same prompt,
delivered again after /clear, founds a second object with the same identity.
`Admit` is `manager.admit`; `StopReply`, `StopAll`, `ClearScope`, `ClearReply` are the commands
as far as the manager lock is held; `ClearReplyRaises` is the exception of a prompt whose status
message is gone. `Enter`, `StartRunner`, `Recover`, `RunnerReturns`, `RunnerRaises` are the
processor's task and `_finish_claim`; `RunnerRecordsSession`, `RunnerCompletes`, `RunnerFails`
what the node runner may do to the tree, at any time and with any outcome.

The bounded wait for cancelled tasks has no action: a cancelled task may take as long as it likes
after the command has returned.

`TreeSnapshots` adds no variable. `SnapshotOf` is what would be stored of a tree in any state, `Accepted` the conditions
under which `from_snapshot` does not refuse it, `Restored` the tree a restart makes; `RestartKeepsEveryTree` asks it of
every reachable state, because the program may be killed in any.

### Workflow

`turn[p]` is where the delivery of a prompt is (`received`, `resolved`, `sent`, `recorded`, ...) with the generations it drew
(`TurnAdmissionToken`), `stopGen` and `clearGen` the counters it is compared with. `cmd` is the command in progress: it holds
`lock` (`_state_lock`) through its transition (`StopAll`, `StopReply`, `ClearReply`, `ClearChat`), the snapshot after the
drain (`Snapshot`) and the writes (`Apply`, `ClearStore`), and not for its deletions and its reply. `node`, `root` and `running` are the trees in memory,
`store` and `file` the snapshots in the store and on disk (`Flush` may come at any time), `log` the managed-message log,
`visible` what the platform shows. `Restart` is a crash and a start-up from `file`. `past` remembers what was stopped and cleared.

### Runners and sessions

`runner[r]` is the await a turn's runner is in, `claim` how its claim is settled. `session`, `pending` (`unnamed` in the runs), `owned` and `alias` are
`ManagedClaudeSessionManager`'s tables, `closing` the session being stopped under the manager's lock (`holder`), `sweep` the progress of `stop_all`.
`Cancel` sets a cancellation that the next step in an await delivers (`Cancelled`); a second one may interrupt the removal itself (`RemoveInterrupted`).

### Voice notes and platforms

`flow[f]` is the await of a delivery of a note, `child` its hand-off task, `pending` the registry (both ids of a note), `ops`
the commands that cancel notes, `service` the transcriber with its threads. `PlatformRuntime` counts failures of SDK calls against one bound, and has the two event paths of the
vendors: updates handled inside Telegram's application, and a task per event for Discord.

### Admission

`exec[s].phase` is the await an execution is suspended in. `episode` is `_RecoveryEpisode`; its clock
is abstracted to whether `ready_at` and `terminal_until` have passed. `ToGate` is one pass of the
loop in `_wait_for_gate`. `FailAndRetry`, `FailFinally`, `Reject`, `Correct`, `Accept` are the
outcomes of an attempt; `Abandon` is the shielded task of `aclose`; `Cancel*` is the client's
disconnect in each await. `MidstreamRecovery` includes the continuation of a broken stream, which
opens a second attempt while the first is still open; `CloseMayRaise` includes a failing close of
that continuation's stream. The run `recovery` includes both; an execution that ended without `aclose` is remembered
in `lost`, so that the invariants can say what still holds of all the others.

### Generations and the catalogue

`gen` are the `_ProviderGeneration` objects, `retired` and `unpublished` the two places where the
manager keeps what it must still close, `task` and `refreshTask` the background refreshes, `pc` and
`arg` the caller inside replace, refresh and close. Each of the three callers can be cancelled where
it waits (`Interrupt`), and close may be called again. `start_model_list_refresh` is part of `Init`: the
application calls it before it serves.

`ModelCatalog` has of this only the number of the current generation. `refresh` and `test` are the two discoveries that can be under way
while it changes; `catalog` notes with each entry who wrote it for which generation. `ModelsList` and `Pick` are a client
that fetched a list some time ago; `Route` resolves any name and reasoning it may ask for. Names are sequences of the parts between slashes,
because where a name is split is what routing can get wrong.

### Streams

`ResponseStream`: `body` is the chain of generators below the response, `source` the provider's stream, `cleanup` the finalizers
that have run; `Cancel` may hit every await. A provider of the Messages API is read on behind its `message_stop` and may break there, which adds an error frame; the Responses adapter stops at its terminal event. `OpenAIChatStream`: `chunks` is how far the current upstream stream has come, `ledger` the blocks
and tools of the current attempt, `holdback` what the client has not been given, `out` what it has. A chunk is thinking, text, a fragment of a tool call or a
finish reason; arguments come in two fragments, so that a break can fall between them. `StreamFails` and `StreamEnds` may happen after any chunk, and lead to
`Replay`, `Rescue`, `Repair`, `Continue` or `GiveUp` as `advance_failure` decides. `AnthropicRelay`: `plan` is the request with its fallbacks, `sender` the upstream message, of which the
relay sees a prefix. `ResponsesAssembler` is fed arbitrary events, well formed or not.

`TextParsers`: a document is a sequence of pieces (text, an opening tag, a bullet, a call, ...), and `Feed` takes any number of its symbols at a time, so every way to cut a document into
chunks is a behaviour. The reference definitions `Split`, `CallsOf` and `TextOf` read the whole document.

`ChatHistory` numbers blocks in the order of the conversation; what becomes of each number is what its properties
are about. `FailurePolicy` enumerates the error classes the policies tell apart; the hop is `Relay`, which reads the failure off the wire and judges it again.

### Persistence

A state is the number of changes made so far; `file` is the state on disk, so "older" is `<`. `at[t]`
is where a timer thread, or the loop, is between critical sections. `promised` is a history variable:
the state for which the last flush or clear returned without an error.

### Limiter

A call delivers version `c` of the message of its key; calls are numbered in the order they are made.
`entry[k]` is what `_queue_map` holds: the newest function and all futures. `shown` is external: what
the platform displays. A failing operation fails for good (`Fail`) or with a connection error
(`Break`), which a detached call retries at most twice.

### Sliding window

`acquired` is the history of all acquisitions; the deque is its part from `first` on. The clock may
tick between the two readings of a round, so that the recorded time can be later than the time
against which the deque was pruned.

### Application, servers and settings

`ApplicationLifecycle`: `own` is what the runtime holds, `pc` the gate it is at, `work` the turns in progress, `supervisor` the loop that
builds another instance. `BackgroundServer`: one server per terminal that started one, of which one gets the port; `pidfile` is what `codefa stop` reads. A server that was
told to end may answer for a while yet, any server may exit, a probe may miss one that runs, and the polling may give up on a server that has just bound its port, because the code does not probe again.
`untracked` is a history variable: a server was started beside another, during a stop, or with nobody left to write its pid; then the one pid file names one of two servers, or none, and `codefa stop` promises nothing.
`AdminConfig`: a value comes from the template, the repository's file, the managed file or a locked source, in that order; `apply` is the
request between its await points, and `owed` what was committed and is not served yet.

## 3. Runs

| Run | Instance | Shows |
|---|---|---|
| `trees` | 3 prompts, 3 status messages, 3 claims, 2 tree objects, 1 chat | tree, index, claim and task agree; stopped is final; no session is resumed while it runs; a restart restores every tree; the manager implements `ConversationExecutor`; global /stop drains everything when no active prompt lost its status |
| `recovery` | 3 executions, 3 attempts each, 2 slots, continuations, failing closes | one probe in living hands, no lost wake-up, slots accounted for, stale results void, exhaustion shared and final |
| `bridge` | eight parts, below | the messaging bridge around the trees |
| `requests` | fourteen parts, below | a request's path, and what runs the server |
| `progress` | five parts, fair | everybody who waits is served |
| `stop_all`, `slot_backoff`, `close_slot`, `limiter_retry`, `task_repair`, `text_calls`, `reasoning_replay` | | *violations*, section 4 |

Parts of `bridge`:

| Part | Instance | Property |
|---|---|---|
| `crashing`, `noticing` | a prompt, a reply to it, a command of the same chat; one crash, or the start-up notice | `NothingOutlivesStop`: what was stopped, or on its way when everything was, never waits or runs again. `ClearedStaysCleared`: what was cleared comes back in no tree, snapshot or file. `RestartsAreHonest`: a runnable turn has a live task, also after a restart; a finished one is stored as finished. `NoOrphans`: a managed message can be found by a later /clear |
| `sessions` | 2 runners, 2 ids the CLI may hand out in any order, 2 cancellations of one runner, 1 stop of all | `SessionsAreOwned`: a process that may live is registered and found; ids agree; replies fail only with the turn they wait for |
| `notes` | 3 deliveries of 2 notes, two of which are spoken commands and cancel as typed ones do | `NotesAreOwned`: a note's ids agree, one owner of its file and status, a cancelled note never reaches the workflow, no join cycle |
| `progress` | 4 events, a tool and the Tasks `task1` and `task12`, whose ids begin alike | `ProgressIsShown`: narration is hidden only while a subagent runs; the message fits |
| `platform` | 2 messages, 3 attempts, 3 failures | `ShutdownIsOrderly`: no handler after delivery is closed, nothing left behind |
| `store` | 3 changes, 1 failing write | `StoreKeepsPromises`: what a flush or clear returned for is on disk; no older snapshot lands |
| `limiter` | 2 messages, 3 calls of both kinds, connection errors | `DeliveriesAreKept`: nobody who waits is forgotten; the newest version is taken while nothing is retried; shutdown is complete |

Parts of `requests`:

| Part | Instance | Property |
|---|---|---|
| `window` | 2 callers, 2 per 3 ticks, 8 ticks, 6 acquisitions | `AtMostRateLimit`, `NobodySleepsBesideCapacity` |
| `response` | every kind of request, 3 frames, 2 cancellations | `FailuresAreToldAsDecided` (how a stream ended, an error being the last thing); `ResourcesAreOwned` (the lease outlives the body) |
| `chat` | a tool and a Task, 3 attempts, 3 chunks per stream | `StreamsAreWellFormed` (the contract of `stream_contracts.py`; no tool call is cut short in a message that ends well without a finish reason), `RetriesAreInvisible` |
| `relay` | 3 reasoning policies, 3 attempts, 2 blocks, 7 frames | `StreamsAreWellFormed`, `RetriesAreInvisible` (one attempt is seen; a correction is new) |
| `responses` | 2 indexes, 4 arbitrary events | `StreamsAreWellFormed` (what is reported complete is whole) |
| `history`, `items` | 3 messages of 2 blocks; 4 items; 3 replay modes | `HistoryIsWhole`: results behind their calls, nothing lost but reasoning behind tags |
| `text` | documents of up to 3 pieces of 10 kinds, every chunking | `TextIsParsed`: the outcome does not depend on the chunks |
| `errors` | every error class, status and marker the policies know | `FailuresAreToldAsDecided`: the client is told what was decided, also behind a second instance |
| `application`, `launcher` | 2 turns, 3 instances; 3 terminals, at once or one after the other, and any number of stops | `ServersDoNotOverlap`; `ResourcesAreOwned` |
| `admin` | 3 fields (captured, applied in place, secret with a retired name), 2 Applies, 2 boots, a crash | `StoredIsServed`: or a restart is owed; a commit changes what it was asked to change |
| `manager` | 2 requests, 3 generations, 1 failed candidate, 1 failing cleanup | `ResourcesAreOwned`: in use is open, retired is owned, closed once, shutdown only drains |
| `catalog` | 2 providers, 2 settings, 2 generations, 1 discovery beside the first | `OfferedIsServed`: a late answer offers nothing that is not served; a picked model is the routed one; reasoning is allowed by the settings |

Parts of `progress`: `generations` (2 requests, 2 generations, 1 failed candidate, 1 failing cleanup): retired generations are closed by their last
lease, shutdown returns. `trees` (2 prompts, 3 claims): every turn is settled. `admission` (2 executions, 3 attempts,
1 slot, no continuations): nobody hangs. `limiter` (2 messages, 2 calls) and `store` (2 changes, 1 failing write): every call is answered, the loop is never
locked out, changes are saved.

**Why the bounds are enough.** Three prompts give a running turn, a waiting one and a reply to
either, which is what the tree code branches on, and a chain of three for the subtree operations; a
second tree object is what a redelivery after /clear needs. Three claims let a task hand over to a
successor while a third turn waits. For admission, three executions are a leader, a follower and a stale
one, and three attempts are a broken stream, a continuation that fails with budget left and one that fails
without. Three generations are current, retired and retired-while-retiring. Three saves are one on its
way, one that supersedes it and one that supersedes that. For the window, the violation of an interval
needs one acquisition more than the limit and a boundary to cross, and six acquisitions over eight ticks
cross it twice. Three deliveries to a key are one being delivered, one queued, one merging. In the workflow a prompt
and its reply are the only relation between turns that its code looks at, and one command meets each of them in every
phase. Two runners can claim each other's session ids. Three notes are one that is cancelled by the command another one speaks while a third is a
duplicate. A stream of three chunks can break before, inside and behind a tool call's arguments, and three attempts are a replay, a continuation
and the failure of both. Four events suffice for two blocks, nested or overlapping, in the assembler and for a Task, its narration and its result
in the transcript. In the parsers a piece reacts to what is held in front of it and behind it: three pieces.

**Deadlock** is not checked (`CHECK_DEADLOCK FALSE`): each instance has a bounded supply of prompts,
executions, generations, changes, calls, notes or chunks and rightly stops when it is used up. That nobody stops *early* is
what `progress` shows for the components where somebody waits for somebody else.

**Fairness**, in `progress` only. Weak fairness on steps of a ready task or fired timer: the event loop and the operating
system run them. Weak fairness on what the upstream, the CLI process or the platform answers: every such
wait in the code has a timeout, or is ended by the kill of the process. Strong fairness appears twice:
`TakeSlot`, because `asyncio.Semaphore` serves its waiters first come, first served, so an execution
that waits gets a slot if slots keep coming free; and `CloseBegin`, because `asyncio.Lock` does the same. No fairness
is assumed of users, deliveries, cancellations or callers.

## 4. Divergences from the documentation

Seven violation runs show where the code does not do what `ARCHITECTURE.md`, a comment or a test says:

- `stop_all`: global `/stop` raises at an active prompt whose status message a reply-/clear removed, and
  later trees keep their queues (`trees/runtime.py:247`).
- `slot_backoff`: an execution that continues a broken stream waits for the gate, the backoff and its
  second slot while it holds the first (`openai_chat/provider.py:551`). When every slot is held by such an
  execution none of them gets a second one, so progress of admission is only checked without
  continuations.
- `close_slot`: when closing a continuation's stream raises, the attempt's own close is skipped: its slot is
  lost, and the recovery it leads has no leader any more (`openai_chat/provider.py:787-789`).
  `SlotsAreAccounted` and `RecoveryIsLed` name that exception (`Lost`) and hold otherwise.
- `limiter_retry`: the retry of a failed detached delivery is enqueued with its old content and replaces
  a newer version that waits under the same key (`limiter.py:297`).
- `task_repair`: the repaired arguments of a Task whose stream broke bypass the normalization of `run_in_background`
  (`openai_chat/provider.py:943`).
- `text_calls`: two calls written in one chunk of text become one with the parameters of both (`core/anthropic/tools.py:143`).
  `ACallIsFound` holds of documents with one call.
- `reasoning_replay`: a provider that replays reasoning between tags gets none of the reasoning that Codex sends with a
  message or a call (`core/anthropic/conversion.py:554`). `ItemsAreKept` excepts it.

Others were met and have no run, because nothing in the repository says otherwise or what they harm is slight:

- `_mark_clean_if_current` decides under its lock that the store is clean and says so after releasing it, when the loop may
  have changed the state again (`session/persistence.py:127`). The dirty flag is then wrong until the scheduled save, which still
  writes the change, as `ChangesAreSaved` shows.
- With two commands of one chat at a time, the reply of a /clear can be recorded between the other's snapshot of the log and its clearing of it, and is then not
  tracked (`NoOrphans` is asked with one command).
- The managed-message log drops its oldest ids at its cap: a later /clear does not delete those messages.
- Two terminals that start a server at once overwrite each other's pid; the loser exits because the port is taken, but `codefa stop` may then read its pid.
- Some local answers ignore `stream=true` and are JSON.
- Whether a stream that broke after its acceptance is retried is decided without the vendor's override; and an upstream failure
  that is not to be retried is an `api_error` on the wire, which an instance behind a hop takes for one that is. `SurvivesTheHop` states what does survive.
- The result of the first of two Tasks that run in parallel ends the narration of the later one too (`Transcript`).
- The text parser drops text held behind a bullet when the stream ends, loses text between a bullet and a later function, ends a call at a chunk of
  blanks between function and parameter, and lets a control token through that comes in three chunks.
- The answer of Admin's provider test is cached for a generation that has been replaced meanwhile; the next discovery corrects it.
- A failed Apply leaves the background discovery it cancelled undone (`provider_manager.py:187`).
- In a server that cannot restart itself, the next Apply empties the list of fields that wait for a restart (`runtime/application.py:208`).

## 5. Proofs

`TreeQueueManager_proofs` proves, for any number of prompts, status messages, claims, tree objects and chats,
from the assumptions on the constants alone (identifiers are naturals or differ from `None`; every
message has a chat): `TypeOK`, `ClaimHasItsTask`, `QueueIsPending`, `WaitingImpliesActive`, `DetachedIsQuiet`,
`GraphIsConnected`, `IndexIsExact`, `RunnableHasStatus`, `IdentityIsUnique`.

The inductive invariant `IInv` puts together what each of them needs from the others. Of every tree
object it says that scheduling is consistent (`Sched`: the queue is the pending nodes, only the active node is in
progress, tickets are distinct) and that the graph is (`Shape`: every node but the root hangs under a message its parent
owns, status messages have one owner). Across objects it says that live tasks and held claims
correspond, that unpublished trees are quiet, and that the index is exact. None of the listed properties is inductive
alone: that a claim has its task depends on the successor's claim being fresh, which depends on slots; that a
cleared tree is quiet depends on the cancellation having reached its queue; that the index is exact
depends on connectedness, because removal only follows references. The proof has three central lemmas:
steps that only *halt* trees keep the invariant (`HaltStep`: stops, failures, results), steps that take
halted trees out of the repository do (`DetachStep`), and steps that replace one tree and the task of its claim do
(`TreeStep`: admission, reply-/clear, finishing). The lemmas about `MessageTree`, at the head of the module, show for each operator
which kind of step it is.

The second part of the module proves on top of it what the trees promise their users.

- `StoppedIsFinal`. A node is *settled* when it is in error and, if its claim is still held, that claim is being stopped; the theorem
  says that no step executes a settled node again or records a session for it. Each operator of `MessageTree` either leaves failed nodes
  alone (`KeepsErrors`) or keeps the settled ones (`KeepsSettled`: results are void while the claim is being stopped; a clear may delete
  the node). `IInv` is needed where an operator would write over such a node: a reply's id is fresh (`IndexIsExact`) and a new tree
  object is empty.
- `ResumedSessionIsClosed`, `RestartKeepsEveryTree` and `StopAllDrainsWhenStatusesLive` need `JInv`, which adds to `IInv` what it does not
  know of sessions and tasks. `Honest`: a deleted message leaves nothing behind, a session comes from a task that is done or from the one that
  holds the tree's claim, a live task has a status message and resumes only sessions of tasks that are done. `Told`: the task of a claim whose tree
  was cleared or whose message was deleted has been cancelled. `JInv` is preserved because every step is of one of three kinds: it admits a
  turn, it only drops turns (`Quiet`: stops, clears, results), or it ends a claim (`Ends`); `NextHonest` has one argument for each kind.
  A snapshot is accepted because connectedness (`GraphIsConnected`) and the exact index give each node its parent and each message one owner;
  global /stop reaches every task because a live task holds a claim of a published tree or, by `Told`, was cancelled before.
- `ImplementsExecutor`, the refinement. The three kinds are the executor's: an admission is `Start` or `Wait` (the turn's ticket is
  greater than any in the queue), dropping turns is `Withdraw`, ending a claim is `Finish` (`FinishCases`: the successor has the least ticket), and the
  status message that is sent for a refused or duplicate prompt is `Refuse`. The refinement mapping names a turn by its status message, so the
  proof needs that two queued nodes never share one (`Shape`).

`ProviderGenerations_proofs` proves, for any number of clients, generations, failed candidates and failing cleanups, `GenerationsAreOwned`, which the part `manager` of `requests` checks (what
is in use is open, what is retired is owned until it is closed, one cleanup at a time and once, a finished shutdown leaves nothing) and the action property `OnlyDrains`.
None of its parts is inductive. What carries it is `LeasesAreCounted` (the counter of a generation is the number of requests and refreshes
that hold it: without it the last release need not find zero), `OnlyTheIdleAreCleaned` (a cleanup runs only for an unleased generation that
nobody can lease any more), `RefreshIsCurrent` and `OperationsAreOrdered` (which of replace, refresh and close can be suspended where at the same time: they
exclude each other by the manager's lock, and a shutdown that was cancelled left its gates half done).

`MessagingBridge_proofs` proves the ten properties of the run `bridge` for all values of the constants of its parts. Its invariant, `BridgeInv`, is the inductive invariant of the
part whose turn it is; `OnePartSteps` says that a step is one of that part, and each theorem follows from what is proved of that part. The runners and the workflow
have proof modules of their own, which the bridge instantiates; the proofs about the store, voice notes, the transcript, the platforms and the limiter stand in the module itself.

- The store, for any number of saves, timer threads and failing writes, keeps `StoreKeepsPromises`: the file never goes back to an older
state, and what a flush or clear returned for stays on disk. The invariant behind it, `WriterIsNewest`, says that whoever passed the generation check
holds the writer's lock and a snapshot that is exactly the generation checked, and not older than the file; `LoopIsCurrent` that the event loop, which waits for that lock with
the store's lock in its hands, writes the current generation.
- Voice notes, for any number of deliveries, notes and commands. What a note's ids lead to is registered by the delivery that holds the claim (`Registered`), and of each delivery `Situated`, `Released` and
  `Settled` say what it may hold at the await it is in, what it no longer holds, and that a cancelled one is on its way out. That nobody waits for himself, `NoJoinCycle`,
  is not a statement about one step: the hand-off a command waits for began to drain after the command did, or the command would have spared it, so the order in which drains
  begin decides (`TakingMakesNoCycle`, with `ThreadIsWaitedFor` for the transcriber's thread).
- The transcript, for any sequence of events. `StackIsExplained` says that a Task on the stack of open subagents still runs, or that another one, whose id it matches, was closed in its place and runs: without the second case
  the property is not inductive, because a result closes the innermost Task that its id matches exactly *or by prefix*. For the renderer `FirstPosition` and `LastPosition` give the ends of the tail that is shown.
- The platforms, for any number of messages, attempts and outages: `IngressStops` and `DeliveryStops` say at each point of the shutdown what has been closed already.

`ProviderAdmission_proofs` proves, for any set of executions (it need not be finite), every budget of attempts and every size of the
bulkhead, with and without midstream recovery and with closes that may fail, `EverybodyIsLed`, `SlotsAreCounted` and the action properties
`OnlyTheProbeDecides` and `ExhaustionHolds`. The invariant `IInv` has four parts besides the types: the slots are counted (`Counted`), the episode is one the
code can make (`SoundEpisode`), and of each execution what it may hold in its phase (`Sound`) and where it stands in the episode
(`Placed`: the leader is on its way to resolve its probe, a registered waiter waits, was woken or is on its way to the gate). None of them is inductive alone: that a waiter has a
leader needs that a probe's permit is the current generation, that a stale permit is void needs the generations in order, and that a slot is
released once needs the phase the release is reached from.

- Each step moves one execution and at most wakes the others, so what remains to show of the others is only what the step did to the episode
  (`StepKeeps`, `OthersStay`). `GateStep` is the argument for the gate, which several steps pass, made once; `ResolveStep` is the one for outcomes.
- The sets of executions that hold slots are finite because a step changes one execution; `CountStep` gives the change of their sizes by the `Weight` of the one
  execution that moved. A slot that is lost (`CloseRaises`) stays in the count; that none is lost, `SlotsAreReturned`, is the property of a violation run.
- `OnlySlotsOpen` says which steps make an attempt and that none forgets an exhaustion, `OnlyProbesDecide` and `OutcomeDecides` which may decide about the episode, `EverybodyIsTold` who is told of its end;
  the action properties follow from them and from `IInv`.

The proof of the limiter, in `MessagingBridge_proofs`, is of the three parts of `DeliveriesAreKept` for any number of messages and calls, awaited and detached, with and without broken
connections: `WaitersAreKnown`, `ShutdownIsComplete` and the action property `LatestIsProcessed`. Nobody is lost because the queue holds exactly the keys that have an entry, each
once (`QueueIsEntries`), and the worker gives up futures only when all of them are answered or asleep (`SettleStep`). The newest version is taken because the tasks of detached
calls come to the queue in the order they were created (`TasksAreInOrder`); an awaited call, or a retry, comes out of that order, which is why `LatestIsProcessed` excludes them and
`AnsweredIsShown` is violated.

`NodeRunner_proofs` proves `SessionsAreOwned`, `IdentitiesAgree` and `OnlyFailuresPropagate` for any number of turns, session ids, cancellations and
stops of all sessions. `SessionsAreOwned` is not inductive: that the last act of a runner stops its own process needs that the id it then uses, the pending one or the one it
was told, leads to its own session. `MapsLead` says that each entry of the manager's three maps is under an id its runner knows, `IdsAreOwn` that an
id of an unfinished runner is nobody else's; `Processes` adds that a session no map knows was closed, so that a runner which is still on its way cannot launch
it again, and `Knows` which ids a runner has at each point. Most steps change one runner and at most shrink the maps (`OwnStep`, of which `SoloStep` and
`GoStep` are the cases that leave the manager alone); `LaunchOwns` and `LearnsOwns` are the two that add to them. What makes an added id fresh is in the code
(`FreshIs`: uuid4, and a parent that leads to no session) and in the CLI, which forks the session it resumes.

`MessagingWorkflow_proofs` proves, for any number of prompts, chats, commands and restarts, what the runs of the bridge check of /stop and /clear: `NothingOutlivesStop`,
`ClearedStaysCleared`, `NoOrphans`, and the two halves of `RestartsAreHonest`, `RunnableHasTask` and `StoredAsFinished`. None is inductive: a command gives the event loop back while
it holds the lock, and what it saves afterwards is a snapshot that runners may have overtaken. `Delivered` says that a turn on its way is in no tree, no snapshot and no file and carries the
generations of its reception, so that a newer generation is all it takes to refuse it; `Kept`, that what was stopped is settled or of an older generation, and what was cleared is absent from
every snapshot still to be saved, or the command that will clear the store of it is on its way; `Commanded`, that only the owner of the lock drains, and that a /clear of a chat has the ids of all that is in the
chat's log but the replies and the status messages that were recorded meanwhile. `Found` is `NoOrphans` without the messages that are on their way only by accident. The four commands share one
step (`EnterKeeps`); a step that moves one turn, or leaves prompts or commands alone, has a lemma for what it leaves alone (`TurnMoves`, `PromptsStay`, `CommandsStay`, `ListedStays`).

`ProxyServer_proofs` proves seven properties of the run `requests` for all values of the constants of its parts. As in the bridge, `ServerInv` joins the inductive invariants of the parts and
`OnePartSteps` says that a step is one of the part whose turn it is. The generations have a proof module of their own; the proofs about the other parts stand in the module.

- The rate window: `AtMostRateLimit` and `NobodySleepsBesideCapacity` for every limit, window and number of callers. Acquisition times are sorted and not in the future, everything dropped is a
  window old, the deque is never longer than the limit, and a sleeper wakes when the oldest entry expires at the latest.
- The background server, for any number of terminals, at once or one after the other. While the history variable `untracked` is false, a terminal that starts a server is alone with it (`StartsAlone`), a server that nobody has told
  to end is watched by its terminal or named in the pid file (`IsTracked`), and a stop, from its signal on, leaves none (`NoneIsLeft`). The three need each other: that the pid file names *the* server needs that there is no other.
- Start and shutdown, for any number of turns and restarts. Resources come in one order and go in the other (`StartIsOrdered`); `WorkIsOwned` says what may still be held at each gate, those that failed and are retried included.
- A response, for any requests and any number of frames and cancellations: where the lease is held (`LeaseIsHeld`), where the body is open (`BodyIsOpen`), and what the client has been sent of the answer against what has been drawn of the
  provider's stream (`StreamIsInOrder`): that an error is the last frame, also where a provider of the Messages API breaks off behind its `message_stop`, needs
  what is on its way to the client (`FrameInOrder`) beside what has been sent (`SentInOrder`).
- The fate of an error: the error is one that can be raised, or, behind a hop, one whose name on the wire another instance wrote (`Heard`), and the decision is the verdict on it (`ErrorInv`). The errors are a finite set,
  but the proof does not enumerate them: it splits on what the policies look at.
- Admin's Apply, for any fields, secrets and sources: between its awaits an Apply holds the target of its own updates (`Prepared`), and a server that is up runs on what is stored but for what is owed (`Served`);
  `CommitIs` computes what is effective after the file was replaced.
- The models on offer, for any providers, models and settings: a refresh under way is of the current generation (`RefreshIsCurrent`), entries are of providers in scope, and what a client picked is an entry that was offered (`Offered`).
  `PickedIsRouted` rests on `RefIs`: a reference parts into its provider and its model in one way.

`RequestStreams_proofs` proves `StreamsAreWellFormed` and `RetriesAreInvisible`, for any tools, policies, indexes, attempts, chunks and events.

- The stream of a chat completion: what was said of the message, to the client, in the holdback buffer or in the recovery, agrees with the ledger (`Agree`: each block of the ledger has its start
  before everything else, and a stop if and only if it is closed), the client has all of it or nothing (`AllOrNothing`), and the open blocks are the current text and thinking and those of the tools (`Current`), which is why closing these
  closes the message. A lemma per emission (`StartIs`, `DeltaIs`, `StopIs`, ...) says what it adds to `Agree`; a step of the runner composes them.
- A relayed message: each correction takes something away that no later one gives back (`CorrectionsCount`), so none is sent twice; what is kept for the client is of the current
  attempt (`OfThisAttempt`); and the renumbering maps the upstream's blocks to those the client has read, in order and without a gap (`RelayFollows`).
- The stream of a response: each item slot that was announced is owned by one active block or committed once (`SlotsOwned`), the events told of it agree with that
  (`AnswerAgrees`), and so the response that ends the stream lists what was told. The flush of the active blocks is a recursive function over the slots; what it keeps is proved by the smallest slot at which it
  could fail, which the well-foundedness of the naturals gives.

The assumptions are the ones the modules name: constants are naturals where the code counts, at least one where it divides or admits
(`GenerationsAssumption`, `PersistenceAssumption`, `WindowAssumption`, `AdmissionAssumption`), and identifiers do not collide (`ReferencesAssumption`, `TreesAssumption`,
`ScopesAssumption`). The theorems of `NodeRunner_proofs` and `MessagingWorkflow_proofs` have their assumptions in their statements, because
`MessagingBridge` instantiates these modules instead of extending them: `RunnerAssumption` (ids
are not runners or commands, pending ids are unique and not ids of the CLI) and `WorkflowAssumption` (prompts come in an order, reply to prompts and stand in a chat each). `MessagingBridge` assumes them
for its instances, with `LimiterAssumption` (there is a message, calls are awaited or detached), `VoiceAssumption` (each delivery has a status message of its own, which is no voice message) and `TranscriptAssumption` (`PartsAssumption`). That of `ProxyServer` says that
requests, models and settings are what their modules take them for (`ResponseAssumption`, `CatalogAssumption`), that the retired name and the fields that wait for a restart are fields (`AdminAssumption`), that no terminal is
called `None`, and that the bounds of the generations are naturals; that of `RequestStreams` (`StreamsAssumption`), that a stream has finitely many tool calls (`ChatAssumption`) and that a
reasoning policy is one of those the request plan knows (`RelayAssumption`). `TranscriptAssumption` asks of the
ids that match by prefix that none matches two others. Real ids have one length, so none begins another; where one did begin two (`task1` with `task12` and `task13`), a result could leave its Task on the stack and
`SuppressedOnlyDuringATask` would fail, as TLC shows at once. The bounds (`MaxGeneration`, `MaxTime`, ...) are parameters: the theorems hold for
each of their values. Most inductive invariants were model-checked on the instance of their run before they were proved. `TypeOK` of `TreeQueueManager` is proved and therefore not part of a run.

Only model-checked, with the reason:

- Liveness under fairness (`GenerationsEnd`, `TurnsSettle`, `ExecutionsEnd`, `EverythingIsDelivered`), which the prover does not treat.
- `HistoryIsWhole`: the conversation it converts is collected by folds over messages, and what a fold yields for every input is an induction over data: the theorems of the library that would give it take an operator as a parameter.
- `TextIsParsed`: its reference definitions are recursive operators.

`BulkheadIdleInBackoff`, `SlotsAreReturned` and the other properties of the violation runs are false.

## 6. Not modelled, and the plan

Left out for good: rendering and wording, the splitting of long messages, tool declarations and system prompts of a request, token estimates, vendor quirks of requests (all
data mapping without state); the HTTP surface, Admin's pages, web tools and launchers (I/O and argument construction); diagnostics.

Left for later: the branch of the session manager that hands out a session again (`manager.py:95`). No two live turns ask for one session (`ResumedSessionIsClosed`), but a turn may ask for one whose removal a second cancellation
interrupted; its process waits for the end of the old one (`_cli_lock`), and the model lets no such turn start. Further: the collection of a stream into one message; the repair of status messages after a restart; the closing of the workflow; the output cap
that is learned from a rejection; the construction of providers.
