# TLA+ specifications of the agent backend

This directory holds the formal models kept beside the code of the agent
platform: a Python backend (`src/backend`, FastAPI and asyncio) that runs
LangGraph agents for chat dialogs and streams their answers to browsers over
WebSockets, and a Next.js front end (`src/web`). Paths below are relative to the
repository unless they start with `src/`.

The models were written from the code. Where the code and a document of the
repository (`openspec/`, docstrings) disagree, the model does what the code does
and the disagreement is listed in [Disagreements](#disagreements).

## 1. The system

A message travels like this:

    browser --POST /api/dialogs/{id}/messages--> route
        route: session manager (store user message), emit AgentExecuteRequest
    QueuedEventBus --consumer task--> _handle_execute_request
        runs the whole turn: deep runtime send_message(), chunk by chunk,
        session manager (start / complete answer), emits progress / complete / error
    QueuedEventBus --consumer task--> progress / complete / error handlers
        container state (status, placeholder), broadcast()
    WebSocketMessageBuffer of every client --sender task--> browser
        onmessage: the agent store folds the event into the snapshot on the screen

Everything on the server runs in one asyncio event loop, and everything in a
browser page in one thread, so what interleaves is not statements but the pieces
of coroutines between two suspensions, or the handlers of two events. A model step
is such a piece.

Beside the chat, a page keeps changes of memories that it could not send yet in
`localStorage` and sends them in batches when it can.

| Component | State | Operations | Hard behaviour |
|---|---|---|---|
| Dialog session manager (`domain/models/dialog`) | table of sessions with status, streaming context, messages, activity time; locks | create with LRU eviction, get, close, transition, add message, start / complete answer, cleanup of expired | calls in any order from routes, turns and the cleanup task; several steps of one call before the one that raises |
| Async queue (`infrastructure/queue`) | items, parked putters | put (blocking, with timeout, non-blocking), get | wake-ups of putters that are cancelled or overtaken |
| Queued event bus (`infrastructure/event_bus/queued_event_bus.py`) | running flag, consumer tasks, subscriptions, queue | start, shutdown, subscribe, unsubscribe, emit, emit_nowait, dispatch | shutdown drains while emitters are parked; start during a drain; consumers that end by themselves; unsubscribe during a dispatch; hanging callbacks |
| Event handlers, deep runtime (`event_bus/handlers.py`, `runtime/deep/mixins/message_handler.py`) | turns in progress, stop requests | run a turn, progress, complete, error | a turn occupies a consumer of the bus it emits to; overlapping turns; failure, stop or deletion in the middle |
| Routes and container (`interfaces/http`, `infrastructure/container.py`) | status and placeholder of each dialog, client buffers | create, delete, post, stop | act on what the screen shows, not on what runs |
| WebSocket buffers (`websocket_buffer/buffer.py`, `interfaces/websocket`) | a buffer and a sender task per client id | connect, broadcast, subscribe, send, cleanup | shared client ids, reconnects during a cleanup that suspends for seconds |
| Agent task queue (`infrastructure/agent_queue`) | queue, worker, semaphore, futures | start, shutdown, submit, execute | caller cancels while the worker runs; shutdown cuts a task |
| Agent store and chat view (`src/web/src/agent`, `hooks/useWebSocket.ts`, `components/chat`) | the snapshot on the screen, deltas seen, the dialog selected, the socket | create, select and subscribe to a dialog; snapshot, delta, status and error events; break and reconnect | snapshots against deltas; a snapshot built in the middle of a turn; events of the dialog shown before |
| Memory sync (`src/web/src/services/memory/sync_manager.ts`) | a queue in `localStorage`, a batch under way, a retry timer, online or not | queue an operation (merge, drop, refuse), flush, retry, go online and offline | the queue is read before the await and overwritten after it; lost answers; reloads |
| Event bus core, skill edit approvals, authentication | - | - | not modelled, see the plan |
| Other stores, optimistic updates, monitoring, memory cache (`src/web/src`) | - | - | not modelled, see section 5 |

`PROJECT.json` lists every component, also the ones without a model, each with
the reason, and the hazards, each at its line.

What makes each component correct:

- *sessions*: never more than `max_sessions`; the activity order is an order
  whatever was evicted or touched; a streaming session is never closed under its
  turn; status and streaming context agree; a refused call leaves no trace in the status.
- *queue*: bounded, in order, once; no lost wake-up; no starvation.
- *bus*: `emit()` tells the truth; a dispatch skips nobody and calls nobody twice;
  accepted events are dispatched; a timed emit ends whatever hangs.
- *turns*: an answer is stored once, and before it is announced; screen and session
  follow the turn and come to rest with it; every message comes to an end.
- *buffers*: an open connection is served, in order, privately; a closed one leaves
  nothing behind; connections that share a client id harm nobody but each other.
- *tasks*: run once, settled once, answered in the end.
- *screen*: once everything has arrived it shows the status, the running answer and
  the finished answers the server has; no chunk of an answer is missing; no answer is
  listed twice.
- *memory sync*: a queued operation is not lost; the queue keeps moving; merging never
  makes an update of something the server has never seen.

## 2. The modules

| Module | Models | State |
|---|---|---|
| `SessionRegistry` | abstract: a bounded table some entries of which are busy | `open`, `busy` |
| `DialogSessionManager` | `manager.py`, `session_lifecycle.py`, `session.py` | `status`, `ctx`, `history`, `locks` are the fields of the code; `recency` is the order of `last_activity_at`, `created` the insertion order of `_sessions`, `stale` what has passed the TTL; `forced` and `result` are history |
| `DialogSessionManagerProofs` | the theorems | |
| `MCDialogSessionManager` | symmetry for TLC | |
| `FifoChannel` | abstract: a bounded channel | `entered`, `left` |
| `AsyncQueue` | `queue/memory.py` on `asyncio.Queue` | `queue`, `waiting` (the `_putters`), `woken` (putters that have been woken and have not run) |
| `AsyncQueueProofs` | the theorems | |
| `QueuedEventBus` | `queued_event_bus.py`, on `AsyncQueue` (EXTENDS) | `running`, `listed` (`_consumer_tasks`) against `alive`, the lists `_subscribers` was bound to (`versions`), what each consumer holds and where it is in its list |
| `QueuedEventBusProofs` | the theorems | |
| `MCQueuedEventBus` | constants for TLC | |
| `TurnPipeline` | `handlers.py`, `message_handler.py`, `stop_handler.py`, the routes of dialogs, messages and agent, on `DialogSessionManager` (INSTANCE) | the session manager's variables, the container's `display` and `placeholder`, `stops`, the bus as a bounded FIFO, and where each turn is |
| `TurnPipelineProofs` | the theorems | |
| `ClientBuffers` | `buffer.py`, `broadcast.py`, `handler.py` of the WebSocket | handlers (`conn`), the registry of buffers, their queues and sender tasks |
| `ClientBuffersProofs` | the theorems | |
| `AgentTaskQueue` | `task_queue.py`, on `AsyncQueue` (EXTENDS) | workers, semaphore holders, futures |
| `AgentTaskQueueProofs` | the theorems | |
| `DialogView` | `handlers.py` and `dialog_service.py` as far as they make events, one buffer and socket, `useWebSocket.ts`, `agent-store.ts`, `ChatShell.tsx` | turns (`pc`, `said`, `stored`), the container (`display`, `placeholder`, `partial`, `acc`, `numbers`), the way to the browser (`buffer`, `wire`, `uplink`, `up`), the page (`active`, `snapshot`, `seen`) |
| `DialogViewProofs` | the theorems | |
| `MCDialogView` | symmetry for TLC | |
| `MemorySync` | `sync_manager.ts` | `queue` (what `localStorage` holds), `flight` (what a flush has read), `timer`, `online` |
| `MemorySyncProofs` | the theorems | |

How the state corresponds to the code where that is not obvious:

- **Sessions.** No coroutine of the two session classes ever suspends (the
  per-session `asyncio.Lock` is taken and released without a suspension inside),
  so a call is one step. A call that raises is a step too: it records the
  exception in `result` and everything the call changed before it raised.
  `start_ai_response` replaces the context, `complete_ai_response` stores the
  answer and clears the context before `transition()` may refuse.
- **Queue.** A put on a full `asyncio.Queue` parks; a get moves the first parked
  task to `woken`; it has to run (`Resume`) before it puts, and somebody else may
  take the slot first. `Abandon` is a `wait_for` timeout, which in `asyncio.Queue`
  passes a wake-up on.
- **Bus.** A task that `create_task()` made runs later: it is `fresh` until
  `BeginLoop`, where `_consumer_loop` looks at `_running`, and returns at once when a
  `shutdown()` came first. It never looks again, since `consume()` does not end: `Take`,
  `Deliver` and `Finish` are the loop between the suspensions of the callbacks.
  `Fall` is a callback that raises `CancelledError`, which the `except Exception` of the
  dispatch lets through and the loop answers with `break`; `_handle_execute_request` passes
  one on (`handlers.py:314`). Nothing in the application raises one into a turn except the
  cancellation of the consumer itself, so `Fall` is what the bus allows its callbacks, not what
  today's do. `quit` remembers the tasks that ended in one of these two ways and that no
  `shutdown()` has listed since. `unsubscribe()` builds a new list while a dispatch
  keeps walking the old one; `subscribe()` appends in place.
- **Turns.** `pc[m]` is where the turn of message `m` is. `Begin` is everything up
  to the first chunk; `EndStream` and `FailStream` are the two ends of
  `send_message`, saving included; `EmitEvent` is an `emit(..., timeout=0.5)` whose
  result nobody looks at. Messages are identified with their answers.
- **Buffers.** The buffer that the handler of socket `s` creates is named `s`.
  `HandlerEnds`, `CancelSender` and `RemoveBuffer` are `cleanup_client()` cut at its
  suspensions. `SenderQuits` is a sender task that runs for the first time after
  `shutdown()` and returns, as the consumers of the bus do. Any number of connections may
  have one client id, at any time (`Sharing = "tabs"`): the default id of the page is a
  constant, and the page opens a second socket under its id (`useAgentApi.ts:66`).
  `shared` is history: the connections that ever had another one of their id beside them,
  its cleanup included. Buffers have the DROP strategy, so a broadcast is one step.
- **Tasks.** `BeginLoop`, `fresh` and `quit` are those of the bus; an exception of a task
  becomes its result, so a worker ends by itself in no other way.
- **Screen.** The events are plain dicts, so a snapshot that waits in the buffer
  holds the placeholder of the running answer by reference: in `buffer` its `stream`
  is a message id, and `Send`, where `send_json()` serialises it, replaces that by the
  text the placeholder has then (`partial`). A text is a sequence of chunks
  `<<message, number>>`, so a chunk that is missing, doubled or from another answer is
  visible. The store lists a finished answer under the id of the placeholder and the
  session manager under an id of its own: the `form` of an entry. `window` marks a
  snapshot that was built after an answer was stored and before its completion was
  handled, `missed` a screen whose connection broke since its last snapshot.
  `TurnPipeline` drops, overlaps and stops turns and has no texts; `DialogView` has
  texts and the browser, and turns that do not overlap.
- **Memory sync.** An item of the queue is known by its `place`, the number of the call
  that opened it, and its `content`, the number of the call its data came with;
  merging keeps the first and replaces the second. `flushQueue()` is cut at its
  `await`: `StartFlush` (also at the end of `QueueOperation`, `GoOnline`, `RetryTimer`)
  and `BatchAnswered`, `BatchFailed`, `BatchMalformed`. `settled`, `overlapped`,
  `known` and `stranded` are history.

Every module carries, next to the definitions they mutate, a few operators marked
*(mutant)*: plausible mistakes (a dropped guard, a missing reset, a swapped order).
`PROJECT.json` names for each property one that breaks it.

## 3. The runs

Run one with `tlc -workers 2 -config <name>.cfg <Module>`.

| Run | Instance | Shows |
|---|---|---|
| `session` | 3 dialogs, 2 sessions, one message per session, callers that force ERROR, CLOSING, CLOSED | `TableInv`, `ContextInv`, `StreamingSurvives`, `RefusedKeepsStatus`, and that the manager implements `SessionRegistry` |
| `bus` | 3 events, one of each way to emit, 2 subscribers, maxsize 1, one start of two consumers, shutdowns | `EventsAccounted`, `NobodySkipped`, `CalledOnce`; the queue inside the bus keeps `QueueInv` (contents, bound, no lost wake-up) and implements `FifoChannel` |
| `bus_live` | the same events, one subscriber, two starts of one consumer, shutdowns | `RunningHasConsumer`, `AcceptedIsDispatched`, `TimedEmitEnds` |
| `turn_patient` | 2 dialogs, 3 messages, ample bus, deletions | `TurnOwnsSession`, `ScreenFollowsTurn`, `ThinkingEnds`, `StreamingEnds`, `SavedBeforeAnnounced` |
| `turn_storm` | 1 dialog, 2 messages, a bus of one place; overlap, stop, delete, failure, reasoning-only answers | `AnswerOnce`, `ScreenConsistent`, `EveryTurnEnds` |
| `turn_overlap` | two overlapping turns | *violated*: `SavedBeforeAnnounced` |
| `ws` | 2 connections under 2 ids or one, at any time, 2 messages, buffers of one place | `OpenIsServed`, `DeliveredInOrder`, `SnapshotIsPrivate`, `ClosedLeavesNothing`, `AcceptedArrives`, `BrokenIsCleanedUp` |
| `ws_reconnect` | a reconnect before the server noticed the break | *violated*: `RestoredIsServed` |
| `tasks` | 3 tasks, 2 starts | `TasksAccounted`, `ConcurrencyBounded`, `SettledForGood`, `SubmittedIsAnswered` |
| `view` | 2 dialogs, 2 messages, 2 chunks, 2 events in the buffer, one on the socket in each direction; selections, new chats, breaks | `StatusConverges`, `TextExact`, `NoChunkMissing`, `AnswerShownOnce`, `ShowsWhatIsStored` |
| `view_other` | the same | *violated*: `SelectedIsShown` |
| `sync` | 2 memories, 3 operations, a queue of 2, 2 retries; offline, reload, lost requests and answers, bad answers | `NothingLost`, `PendingIsDriven`, `UpdateFollowsSave`, `Drains` |

`turn_patient` is the contract of a well-behaved user and model: users wait for an
answer before they post to the same dialog again (`Post` without `"impatient"`), and
nothing fails. `turn_storm` drops all of that and checks what must hold even so.
`turn_overlap` and `ws_reconnect` each add one move to a tiny instance and show what
that move breaks: they delimit the contract. `view_other` shows a disagreement that no
precondition of a user avoids.

`RunningHasConsumer`, `AcceptedIsDispatched` and `SubmittedIsAnswered` exempt a bus or queue
whose consumers ended by themselves, because the code replaces none (see
[Disagreements](#disagreements)). `RunningHasConsumer` says exactly how many may be missing;
the other two speak of a bus that is not `Deserted`. What they show is that no overlap of
`start()` and `shutdown()` takes a consumer away in any other manner. In `ws`,
`OpenIsServed`, the second half of `ClosedLeavesNothing` and the sharers of a snapshot
exempt connections whose client id another one used beside them; the order of
delivery, the end of every cleanup and the registry exempt nobody.

What the properties of `view` exempt is as telling as what they promise. A screen
that missed events while the connection was down (`missed`) may stay behind for ever:
nobody subscribes again. An answer that was joined half way may show chunks twice
(`exact`), and one listed in the window between saving and completing is listed twice.

Deadlock is not checked where the system really may stop (`CHECK_DEADLOCK FALSE`):
every finite set of messages or tasks is used up in the end. `session` is checked
for deadlock.

### Bounds

| Bound | Why it is enough |
|---|---|
| `MaxHistory`: messages of one session | properties compare a history with its successor, one append suffices; in `TurnPipeline` the bound is never reached |
| `Tasks`, `Workers`: consumer tasks ever created | two starts make an overlap of `start()` with a drain; the theorems have any number |
| `Sockets`, `Clients` of `ws` | two connections are beside each other, after each other or one in the other's cleanup; what needs three (see [Disagreements](#disagreements)) the theorems include |
| one `shutdown()` of a bus at a time | a second call returns early unless `start()` came in between; two overlapping drains are left out |
| every event, item and message is sent once | naming the task by its item; identity is what makes loss and duplication visible |
| `MaxText`: text chunks of an answer (in `DialogView` of all answers together) | "none", "the first" and "another one" are what `send_message` distinguishes; two chunks in one answer show doubling and order, one in each of two answers shows mixing |
| `MaxBuffer`, `MaxWire`, `MaxUplink` of `DialogView` | a handler announces at most two events at once; with a third on the socket a snapshot can wait behind, before and between others; the proofs of `StatusConverges` and `AnswerShownOnce` do without these bounds |
| a connection that breaks again before a snapshot has arrived | shows nothing new: the screen is what it was at the first break |
| `MaxOps` of `MemorySync` | one operation in the batch, one queued meanwhile, one that merges or overflows |
| `Capacity` of the bus in `TurnPipeline` | 1 makes every emit race for room (`turn_storm`); 12 is `Ample` (section 4), so that losses are excluded (`turn_patient`) |
| `MaxSize` of queues and buffers | 1: empty, full (a buffer drops), and full with a woken putter under way occur |
| `MaxSessions` in `TurnPipeline` | the number of dialogs, so a turn that recreates its session never finds the table full; eviction and refusal at the limit are in `session` |
| TTL, activity times | only their order is kept: sessions become `stale` in order of activity, at any time |

### Fairness

Safety runs assume none. For the liveness runs:

- *the event loop runs every ready task*: weak fairness of the steps of woken tasks,
  spawned tasks, handlers and the cleanup; asyncio's ready queue is FIFO.
- *timers fire*: weak fairness of `TimeOut`, `StopDraining`, `EmitRequest` and
  `EmitEvent` (5 s, 0.1 s, 0.5 s).
- *a new task runs* (`BeginLoop`): as any ready task.
- *callbacks return*: **not** assumed of the bus. It is a premise of
  `AcceptedIsDispatched` alone, and `TimedEmitEnds` holds without it.
- *the model's stream goes on, ends or fails* (`Turn` in `TurnPipeline`): the HTTP
  client of the provider has a timeout.
- *a dead connection is noticed* (`HandlerEnds`): the WebSocket server pings.
- *a fetch comes to an end and retry timers fire* (`WF(Flush)`, `WF(RetryTimer)` in
  `MemorySync`): the browser gives up on a dead connection. Nothing is assumed of
  the server's answer, the network or the user; `Drains` holds when every request
  fails.
- strong fairness is used once, for the semaphore of `AgentTaskQueue`, whose waiters
  are served in FIFO order.
- `<>[](running /\ ~Deserted)` is a premise of `AcceptedIsDispatched` and
  `SubmittedIsAnswered`: a bus that is being shut down again and again promises nothing,
  nor does one whose last consumer ended by itself.
- `view` has no liveness property: after a break nothing in the code brings the
  screen up to date, and while the connection lasts the safety properties already say
  what the screen shows when everything has arrived.

## 4. The proofs

`tlapm M.tla` for M each of `DialogSessionManagerProofs`, `AsyncQueueProofs`,
`QueuedEventBusProofs`, `TurnPipelineProofs`, `ClientBuffersProofs`,
`AgentTaskQueueProofs`, `DialogViewProofs` and `MemorySyncProofs`. The
theorems hold for every set of dialogs, messages, items, tasks, connections,
clients and memories and every limit; they use the assumptions next to the CONSTANTS
(`MaxSessions` a positive number, `NoMsg` not a message id, transition targets are
statuses, `MaxSize` a natural number, `None` not a streaming answer, ...) and nothing
else, but for part of `TurnPipelineProofs`, whose theorems name their hypothesis. The types are proved and not among the invariants of the runs:
what they say holds by induction on the shape of the actions.

**Session manager.** `TypeOK /\ TableInv` is inductive: the capacity bound needs
that evicting removes exactly one session, which needs that the activity order is
total (there *is* a least recently used one) and that `recency`, `created` and `stale`
speak of existing sessions only. Every operation changes the two orders in one of
three ways - nothing, `Latest` (touch), `Replace` (close, evict, create) - so the
proof has one lemma about strict orders for each, and each action cites the one it
needs. `ContextInv` is not inductive as it stands: a session that the facade has
touched only through `start` and `complete` could be in ERROR, CLOSING or CREATING,
where `start_ai_response` sets a context and is then refused. `ContextIInv` adds
that only `forced` sessions leave ACTIVE, STREAMING and COMPLETED; a session in
ERROR really does keep a context, which is why the property excludes sessions
moved by callers of `transition()`. The
refinement theorem maps `open` to the dialogs with a session and `busy` to the
streaming ones, and shows that each action is an `Open`, `Drop`, `Begin`, `End` or a
stutter; the interesting cases are eviction (closing and opening in one step) and
`cleanup_expired`, which drops only the sessions its loop reaches.

| Theorem | States |
|---|---|
| `TypeCorrect` | `Spec => []TypeOK` |
| `TableCorrect` | `Spec => []TableInv` |
| `ContextCorrect` | `Spec => []ContextInv` |
| `StreamingIsSafe` | `Spec => StreamingSurvives` |
| `RefusalIsClean` | `Spec => RefusedKeepsStatus` |
| `RegistryImplemented` | `Spec => ImplementsRegistry` |

**Queue.** `QInv == QTypeOK /\ QueueInv` is inductive. There is one lemma per
operation (`PutKeeps`, `ParkKeeps`, `ResumeKeeps`, `AbandonKeeps`, `GetKeeps`), each
saying that the operation keeps `QInv` and is a step of `FifoChannel` or a stutter;
the modules built on the queue can cite them. Everything rests on
one counting argument: a get frees one slot and wakes one putter, a put or a resumed
putter uses one slot, and a putter that gives up hands its wake-up on, so
`MaxSize - Len(queue) <= Len(woken)` while anybody is parked.

| Theorem | States |
|---|---|
| `QueueTypeCorrect` | `QSpec => []QTypeOK` |
| `QueueCorrect` | `QSpec => []QueueInv` |
| `ChannelImplemented` | `QSpec => ImplementsChannel` |

**Bus.** `BusInv` is `QInv` with three parts. `Places`, of the queue, is about
*where* an item is: parked, woken or entered, once. `Told` relates what each emitter
was answered to that place; it is what makes the race of a timeout with the
consumer that makes room harmless, since a putter that was resumed is no longer
there to be abandoned. `Dispatched` says that what was handed out is held by one
consumer, done or cut. `LifeInv` (a running bus has `NumConsumers` tasks that live or
ended by themselves) needs nothing of the others. It rests on what a drain can cancel:
`shutdown()` cancels the listed tasks, and a `start()` during the drain lists new ones
beside those it found, so a running bus that is being drained has `NumConsumers` tasks
that are *not* listed, each alive or ended by itself.
`WalkInv` is about a dispatch that walks a list while the list
changes: the lists `_subscribers` was ever bound to have no entry twice, only the
current one grows, and only at its end, so what a consumer has walked stays the
front of its list, and the event has been given to exactly those; no event is
walked by two consumers. `NobodySkipped` and `CalledOnce` follow; with an `unsubscribe()` that
removes in place the first step of the argument fails, as does the run's mutant. The refinement of `FifoChannel` holds because each action
of the bus is one operation of the queue or leaves it alone.

**Task queue.** `TInv` adds `BornInv` (a worker holds no task before it has run),
`WorkersInv` (who holds, executes and has the semaphore)
and `TasksInv` (where the tasks handed out are, and that a future exists exactly for
the submitted ones and is settled for the ended ones). Futures are settled once
because a submission creates a new future, and a worker answers only one that is
still pending: its caller may have given up meanwhile.

**Buffers.** `CInv == TypeOK /\ OwnInv /\ ServedInv /\ OrderInv`, with no assumption about
who uses which client id. `OwnInv` says that buffers, registrations and cleanups
stay within one client id, and that two connections alive under one id are both in
`shared`; so whoever is not has its id to itself. `ServedInv` says for each stage of such a
connection where its buffer is registered and what still runs for it; the steps of another
handler can only touch it if that one has the same id, and then it is in `shared`.
`OrderInv` holds for every connection: what was received is the first of what was
accepted, and while the sender lives received, in flight and queued make up all of it; when
another connection shuts the buffer down, the first part is what remains. `PrivateInv`
follows a message through the same places: a snapshot is new when it is given to the
handler's own buffer, or that of the connection it shares its id with, and from there it
only moves on.

**Turns.** Two invariants. `OnceInv` makes no assumption about users, models or the
bus: the answers of a history are distinct (`Distinct`), no history has an answer its
turn may still save (`Unsaved`), and a message that is queued is requested by the bus
once (`Requested`); the last part is what keeps a second consumer from running the turn
again. Of the session manager the proof uses what each call does to status, context
and history, one lemma per call. `PatientInv` needs
`Patient == Moves \subseteq {"delete"}`: users wait for the screen, nothing is stopped
and the model answers. Then at most one message of a dialog is under way, its
completion included (`Alone`), which with `Owned` (the turn that streams has its
session, its context and its screen) gives ownership, and with `Closed` (until a
completion is handled nobody can post) keeps the next turn out. `Held` adds that a
STREAMING session has such a turn. The hypothesis is needed: `turn_overlap` breaks
`SavedBeforeAnnounced` with impatient users, and a stopped or failed turn leaves its
session STREAMING. `ThinkingEnds` needs in addition that no completion is lost:
`Thought` says that a dialog that shows "thinking" has a turn that streams or
an announcement of its end on the bus, and it is kept while `Room` holds, which says
just that an emitted completion finds a place. `AmpleBusEndsThinking`
discharges it: `Spaced` gives every event on the bus a slot of its own, numbered by its
message and by how many events that message's turn emitted before, so `Ample`, a
capacity of `MaxText + 2` places for each message, suffices. `turn_patient` has such a bus.

**Screen.** `StatusConverges` is an argument about the last event of a dialog that is
under way, deltas aside: wherever it is, it tells what the server has now
(`BufferCurrent`, `WireCurrent`), and when there is none the screen does
(`ScreenCurrent`). A handler announces its new state with its last event, so it
restores the invariant whatever was under way before; sending and receiving move the
last event on. `Down` says that a broken connection has nothing under way.
`AnswerShownOnce` rests on `SingleInv`: a message is executed once (`ExecuteOnce`), so
its answer is stored once (`StoredOnce`), and every snapshot built outside the window,
in the buffer, on the socket or on the screen, lists each answer once and not the one
that is running, which the browser therefore appends at most once.

The other three need the order of everything that happens to a dialog. On the bus,
`TurnsInv` says that the events of a turn are in their order and that a turn of the
same dialog comes behind another only when nothing but the other's failure is left
(`Sequels`): while a dialog has a running answer nobody else's event takes it away. `ChunksInv`
follows the chunks: they are handled in the order the model sent them, each once, and what
is accumulated when one is announced ends before it. Behind the bus, place 0 is the screen
and the places 1, 2, ... are those of the events on socket and buffer, the next to
arrive first. A step of the system adds events at the end, moves one from the buffer to the
socket, or takes the first one; what holds of the snapshot of every place therefore
holds of the screen, and each invariant has one lemma for each of these three moves.

- `ListInv`: the last snapshot of a dialog lists, together with the completion that
  is behind it, what the session has stored, in order. `ShowsWhatIsStored` is the case
  that nothing is behind it.
- `DeltaInv`: each delta on its way has a number the dialog was given and the browser has
  not seen, and the deltas of one answer have growing numbers and growing chunks; this is
  why the browser's check for seen numbers never drops a chunk.
- `MixInv`: the deltas between a snapshot with a running answer and the next snapshot
  of its dialog belong to that answer, though a delta names only its dialog to
  the browser.
- `TextInv`: each chunk that was handled is in the text of a snapshot on the socket or
  the screen, or arrives behind it; a text that was empty when its snapshot was
  sent is a prefix of what was handled, and the rest arrives behind it. A snapshot
  that still waits in the buffer has no text yet, which is why `Send`, where the
  placeholder is serialised, is the step that has to establish it.

None of the theorems needs the buffer, the socket or the number of consumers to be bounded.

**Memory sync.** `Typed` has the shape of the queue: one item per memory, retries within
the limit. `NothingLost` needs `Accounting`: what a flush has read is still stored or
settled, and what the store has beyond it was queued during the flush; so overwriting
the queue loses exactly the operations the property names. `UpdateFollowsSave` needs
`Updates`: a memory that exists for the user is known or has its creation or deletion
in the queue.

| Theorem | States |
|---|---|
| `EventsCorrect`, `BusTypeCorrect` | `Spec => []EventsAccounted`, `[]BusTypeOK` |
| `ConsumersCorrect` | `Spec => []RunningHasConsumer` |
| `BusImplementsChannel` | `Spec => ImplementsChannel` |
| `DispatchReachesAll`, `CallbacksCalledOnce` | `Spec => []NobodySkipped`, `[]CalledOnce` |
| `TurnTypeCorrect`, `ScreenCorrect`, `AnswerOnceCorrect` | `Spec => []Types`, `[]ScreenConsistent`, `[]AnswerOnce` |
| `OwnershipCorrect`, `FollowsCorrect`, `StreamingEndsCorrect` | `Patient => (Spec => []TurnOwnsSession)`, `[]ScreenFollowsTurn`, `[]StreamingEnds` |
| `SavedFirst` | `Patient => (Spec => SavedBeforeAnnounced)` |
| `ThinkingEndsCorrect` | `Patient => (Spec /\ []Room => []ThinkingEnds)` |
| `AmpleBusEndsThinking` | `Patient /\ Ample => (Spec => []ThinkingEnds)` |
| `TasksCorrect` | `Spec => []TasksAccounted` |
| `ConcurrencyCorrect` | `Spec => []ConcurrencyBounded` |
| `SettledOnce` | `Spec => SettledForGood` |
| `BuffersTypeCorrect`, `ServedCorrect` | `Spec => []TypeOK`, `[]OpenIsServed` |
| `CleanupCorrect`, `OrderCorrect` | `Spec => []ClosedLeavesNothing`, `[]DeliveredInOrder` |
| `SnapshotPrivate` | `Spec => []SnapshotIsPrivate` |
| `ViewTypeCorrect`, `StatusCorrect`, `AnswerShownCorrect` | `Spec => []Types`, `[]StatusConverges`, `[]AnswerShownOnce` |
| `StoredIsShown`, `ChunksCorrect`, `TextCorrect` | `Spec => []ShowsWhatIsStored`, `[]NoChunkMissing`, `[]TextExact` |
| `SyncTypeCorrect`, `NothingLostCorrect` | `Spec => []Typed`, `[]NothingLost` |
| `PendingDriven`, `UpdateFollowsSaveCorrect` | `Spec => []PendingIsDriven`, `[]UpdateFollowsSave` |

Every invariant and every action property that a passing run checks is proved. Only
model-checked is liveness (`AcceptedIsDispatched`, `TimedEmitEnds`, `EveryTurnEnds`,
`AcceptedArrives`, `BrokenIsCleanedUp`, `SubmittedIsAnswered`, `Drains`): fairness is
outside the prover. Two definitions are written so that they can be reasoned about without a
recursive filter: `unsubscribe()` removes the one entry that has the id, and
`TextExact` speaks of the places of the deltas on their way.

## Disagreements

Three are kept as runs (`turn_overlap`, `ws_reconnect`, `view_other`) and
described in `PROJECT.json` under `findings`. The others were met while modelling:
the models contain the behaviour unless the entry says otherwise, no property speaks
about it.

- `domain/models/dialog/manager.py:273`: `cleanup_expired` has no `try` around
  `close_session`; the first expired session that is streaming ends the loop and
  the later ones stay (`Reached`).
- `domain/models/dialog/session_lifecycle.py:187`: at the limit only the least
  recently used session is tried; if it streams, nobody can create a session.
- `domain/models/dialog/manager.py:220`: `complete_ai_response` stores the answer
  before the transition that may be refused.
- `infrastructure/event_bus/queued_event_bus.py:189`: `emit_nowait` returns True
  before the put has run; the docstring (:183) promises whether it succeeded.
- `queued_event_bus.py:101`: the drain of `shutdown()` looks at the queue, not at
  parked emits, which enter after it has looked (:42 promises to process all).
- `queued_event_bus.py:106`: `start()` during a drain overwrites the list of tasks
  that `shutdown()` then cancels; the old consumers stay.
- `queued_event_bus.py:196`: after `start()`, an `emit()` and `shutdown()` without a
  suspension in between, the consumers run for the first time with `_running` False and
  return. A `start()` during that drain (:74, "启动消费者任务", starts the consumer tasks)
  creates the only tasks there are, and the drain cancels them: the bus runs on without a
  consumer. `task_queue.py:193` and `:158` do the same to the worker of the task queue
  (`Deserted`).
- `queued_event_bus.py:200`: a callback that raises `CancelledError` ends the consumer that
  called it, and nothing replaces it (`Fall`).
- `infrastructure/agent_queue/task_queue.py:183`: tasks are taken in order of
  arrival; `openspec/specs/agent-task-queue/spec.md:30` wants the priority respected.
- `task_queue.py:158`: `start()` during a drain leaves the old worker running.
- `interfaces/websocket/broadcast.py:27`: tabs with one client id share a buffer
  that sends to the first tab only; `openspec/specs/websocket-message-buffer/spec.md:7`
  wants one buffer for each connection.
- `websocket_buffer/buffer.py:232`: a message whose send failed is dropped; the
  sender goes on with the next one.
- `broadcast.py:119`: with three connections under one id the late cleanup of a stale
  handler also removes the buffer of a newer connection: no broadcast finds it any more,
  and when its connection breaks nothing shuts it down (what `ClosedLeavesNothing`
  exempts under `shared`).
- `message_handler.py:251`: a stop request is kept per dialog; one that comes when
  the turn has just ended stops the next turn.
- `message_handler.py:462`: a failed turn without text leaves its session STREAMING.
- `message_handler.py:443`: an answer that consists of reasoning only is stored and
  never announced: the dialog shows "thinking" for ever.
- `message_handler.py:488`: a failed turn with text announces complete, then error;
  the error may arrive in the user's next turn.
- `message_handler.py:255`: a stopped turn leaves its session STREAMING, against
  `openspec/changes/dialog-session-manager/specs/session-lifecycle/spec.md:56`;
  `StreamingEnds` is checked without stops.
- `handlers.py:80` and `:219`: the accumulated text of a dialog is appended to twice
  and never reset. A screen that followed an answer from its first chunk does not
  notice (`TextExact`); one that joins half way shows chunks twice (`exact`).
- `message_handler.py:413` and `handlers.py:110`: a snapshot built between the two
  carries the answer as a message and as the placeholder, and the browser then lists
  it twice (`window`).
- `hooks/useWebSocket.ts:127`: the connection is restored after 3 seconds and nobody
  subscribes again (`missed`).
- `agent/agent-store.ts:238` reads `e.data.message` of an error event; the server sends
  the text under `error` (`handlers.py:143`). The store's handler raises, and only the
  status event after it reaches the screen (`OnError`).
- `hooks/useAgentApi.ts:50`: `ensureWebSocketReady` opens a second socket under the
  same client id and waits for a snapshot with a `dialog_id`, which the server's
  snapshots lack: it always runs into its 5 seconds. Not modelled; what two sockets
  under one id do to each other is in `ClientBuffers` (`Sharing = "tabs"`, run `ws`).
- `services/memory/sync_manager.ts:306`: operations queued during a flush are
  overwritten by its end (`overlapped`).
- `sync_manager.ts:147`: a full queue drops another memory's operation also when the
  new one would only have been merged (`Dropped`).
- `sync_manager.ts:353`: when the answer is lost the whole batch counts as failed and is
  sent again (`BatchFailed`).
- `sync_manager.ts:492`: after a reload the stored queue waits for the next operation or
  the next `online` event (`stranded`).
- No route of the backend answers `/api/memory/sync`: as the repository stands every
  operation is retried and dropped without a word. The model lets the server
  answer, as the code that reads the answer expects it to.
- `services/memory/client_memory_manager.ts:330`: the comment wants the most recent
  memories kept; the cursor runs in ascending order of `updated_at` and the newest are
  deleted. Not modelled.

## 5. What is not modelled

- Contents of messages but for the chunks of an answer, logging.
- Tool calls and results (in the browser too), reasoning texts, the two-phase turn, the
  switch of the model before a turn.
- The BLOCK and TIMEOUT strategies of the buffers, which the application does not use.
- The periodic scheduling of `cleanup_expired` (the model may clean up at any time).
- The two emits that announce a failed turn with text (`message_handler.py:488`,
  `handlers.py:328`) are one step of `DialogView`: the next turn's request never comes
  between them there, as it may in the code and in `TurnPipeline`.
- Overlapping turns on the screen of a browser: `DialogView` has one turn of a dialog
  at a time, `TurnPipeline` has them overlap and has no browser.
- Of the sync manager: the periodic sync, `clearQueue` and `detectConflict`, which have
  no caller, two pages that share one `localStorage`, and a `localStorage` that is full.
- Threads: nothing modelled here runs outside the event loop.
- The other stores of the browser, the optimistic updates and `sync/connection.ts`: the
  pages use the agent store and the connection of `useWebSocket.ts`.
- Authentication: what two overlapping refreshes of one token see of each other is
  decided by the isolation level of the database.
- The components marked *not_modelled* in `PROJECT.json`: language model prompts,
  database access, file and process tools, rendering, and code the application
  container does not build.
- `study/free-code-main`: a vendored program, which is most of the TypeScript in the
  repository and no part of the application. The share of source lines the models
  cover is small because of it.

## 6. Plan

Done: the session manager, the queue, the bus, the turns, the buffers, the task queue,
the browser's view of a dialog and the memory sync, each with its theorems. Left, in
this order:

1. `TurnPipeline`: the switch of the model during turns (`_ensure_agent_for_dialog`) and
   the two-phase turn.
2. `DialogView` with overlapping turns, and two browsers under one client id: its
   composition with `ClientBuffers`.
3. `SkillEdit` (two decisions of one proposal), `EventBusCore` (thread pool and
   synchronous handlers), `RefreshTokens` (two refreshes of one token).
