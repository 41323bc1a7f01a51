--------------------------- MODULE QueuedEventBus ---------------------------
(***************************************************************************)
(* QueuedEventBus, backend/infrastructure/event_bus/queued_event_bus.py:   *)
(* emitters put events on an AsyncQueue, consumer tasks take them out and  *)
(* call the subscribers one after the other.  A step runs to the next      *)
(* point where the event loop may switch tasks: a callback may suspend, so *)
(* anything can happen between two calls of one dispatch.                  *)
(*                                                                         *)
(* Every event is emitted once.  emit_nowait() only creates the task that  *)
(* will try to put; so does, inside wait_for(), a put with a timeout on    *)
(* Python 3.11, while later versions run it in place: both are allowed.    *)
(***************************************************************************)
EXTENDS AsyncQueue, FiniteSets

CONSTANTS
    Timed,          \* events emitted with a timeout
    NoWait,         \* events emitted with emit_nowait()
    Tasks,          \* the consumer tasks start() may ever create (a bound)
    NumConsumers,   \* num_consumers
    Subscribers,    \* calls of subscribe(), each gets its own sub_id
    Wants,          \* pairs <<s, x>>: x passes the event_types of s
    DrainTimesOut,  \* can shutdown() run out of its five seconds?
    NoItem          \* a consumer holds no event

ASSUME KindsAssumption == Timed \subseteq Items /\ NoWait \subseteq Items \ Timed
ASSUME NoItemAssumption == NoItem \notin Items
ASSUME ConsumersAssumption == NumConsumers \in Nat \ {0} /\ IsFiniteSet(Tasks)

VARIABLES
    running,    \* _running
    shut,       \* how far a call of shutdown() is
    listed,     \* _consumer_tasks
    alive,      \* tasks that run _consumer_loop
    unborn,     \* tasks not created yet
    fresh,      \* live tasks that have not run yet
    quit,       \* history: tasks whose loop ended by itself, not cancelled since
    held,       \* the event each task is dispatching
    cursor,     \* where its loop is: version of the list and next position
    versions,   \* the lists _subscribers was bound to; the last is current
    spawned,    \* events whose put task has not run yet
    answer,     \* what the emitter of each event got
    owed,       \* history: who was subscribed when a task took the event
    calls,      \* history: the callbacks called with the event, in order
    done,       \* history: events dispatched to the end
    cut         \* history: events whose dispatch was cancelled

lifeVars == <<running, shut, listed, alive, unborn, fresh, quit>>
subVars == <<versions>>
emitVars == <<spawned, answer>>
taskVars == <<held, cursor, owed, calls, done, cut>>
vars == <<queueVars, lifeVars, subVars, emitVars, taskVars>>

Current == versions[Len(versions)]
Drained == shut = "draining" /\ (Empty \/ DrainTimesOut)
-----------------------------------------------------------------------------
\* start(): new consumer tasks replace whatever _consumer_tasks was.
Start ==
    /\ ~running /\ running' = TRUE
    /\ \E new \in SUBSET unborn :
        /\ Cardinality(new) = NumConsumers
        /\ listed' = new
        /\ alive' = alive \cup new
        /\ unborn' = unborn \ new
        /\ fresh' = fresh \cup new
    /\ UNCHANGED <<shut, quit, queueVars, subVars, emitVars, taskVars>>

\* Every task of the bus is cancelled, the ones of a later start() and of an
\* earlier one alike (mutant).
CancelAll ==
    /\ alive' = {} /\ fresh' = {} /\ quit' = {}
    /\ cut' = cut \cup ({held[c] : c \in Tasks} \ {NoItem})
    /\ held' = [c \in Tasks |-> NoItem]
    /\ UNCHANGED <<cursor, owed, calls, done>>

\* task.cancel() on the tasks in _consumer_tasks: each ends where it is, a
\* dispatch under way is cut.
CancelListed ==
    /\ alive' = alive \ listed /\ fresh' = fresh \ listed
    /\ quit' = quit \ listed
    /\ cut' = cut \cup ({held[c] : c \in listed} \ {NoItem})
    /\ held' = [c \in Tasks |-> IF c \in listed THEN NoItem ELSE held[c]]
    /\ UNCHANGED <<cursor, owed, calls, done>>

\* gather() suspends unless _consumer_tasks is empty.
Gather == shut' = IF listed = {} THEN "no" ELSE "gathering"

\* shutdown() up to its first suspension (bound: one call at a time); an
\* empty queue ends the drain loop at once.
Shutdown ==
    /\ running /\ shut = "no"
    /\ running' = FALSE
    /\ \/ /\ ~Empty
          /\ shut' = "draining"
          /\ UNCHANGED <<alive, fresh, quit, taskVars>>
       \/ /\ Empty
          /\ Gather
          /\ CancelListed
    /\ UNCHANGED <<listed, unborn, queueVars, subVars, emitVars>>

\* shutdown() wakes up from sleep(0.1) and leaves its drain loop.
StopDraining ==
    /\ Drained
    /\ Gather
    /\ CancelListed
    /\ UNCHANGED <<running, listed, unborn, queueVars, subVars, emitVars>>

\* gather() has returned: _consumer_tasks.clear().
FinishShutdown ==
    /\ shut = "gathering" /\ shut' = "no"
    /\ listed' = {}
    /\ UNCHANGED <<running, alive, unborn, fresh, quit>>
    /\ UNCHANGED <<queueVars, subVars, emitVars, taskVars>>
-----------------------------------------------------------------------------
\* append() to the current list: a dispatch that walks it sees the new entry.
Subscribe(s) ==
    /\ \A v \in DOMAIN versions : s \notin ToSet(versions[v])
    /\ versions' = [versions EXCEPT ![Len(versions)] = Append(@, s)]
    /\ UNCHANGED <<queueVars, lifeVars, emitVars, taskVars>>

\* unsubscribe() removes the entry from the list in place (mutant).
UnsubscribeInPlace(s) ==
    /\ \E i \in DOMAIN Current :
        /\ Current[i] = s
        /\ versions' = [versions EXCEPT ![Len(versions)] = RemoveAt(@, i)]
    /\ UNCHANGED <<queueVars, lifeVars, emitVars, taskVars>>

\* unsubscribe() binds a new list without the one entry that has this sub_id:
\* a dispatch under way keeps the old list.
Unsubscribe(s) ==
    /\ \E i \in DOMAIN Current :
        /\ Current[i] = s
        /\ versions' = Append(versions, RemoveAt(Current, i))
    /\ UNCHANGED <<queueVars, lifeVars, emitVars, taskVars>>
-----------------------------------------------------------------------------
Answer(x, a) == answer' = [answer EXCEPT ![x] = a]

\* emit() and emit_nowait() on a bus that is not running.
Refuse(x) ==
    /\ ~running /\ answer[x] = "none"
    /\ Answer(x, "raised")
    /\ UNCHANGED <<queueVars, spawned, lifeVars, subVars, taskVars>>

\* emit() whose put runs at once.
Emit(x) ==
    /\ running /\ answer[x] = "none" /\ x \notin NoWait
    /\ \/ Put(x) /\ Answer(x, "true")
       \/ Park(x) /\ Answer(x, "waiting")
    /\ UNCHANGED <<spawned, lifeVars, subVars, taskVars>>

\* The put gets a task of its own; emit_nowait() returns True right away.
Spawn(x) ==
    /\ running /\ answer[x] = "none" /\ x \in NoWait \cup Timed
    /\ spawned' = spawned \cup {x}
    /\ Answer(x, IF x \in NoWait THEN "true" ELSE "waiting")
    /\ UNCHANGED <<queueVars, lifeVars, subVars, taskVars>>

\* The task of a put runs; QueueFull ends the task of an emit_nowait().
RunSpawned(x) ==
    /\ x \in spawned
    /\ spawned' = spawned \ {x}
    /\ \/ Put(x) /\ Answer(x, "true")
       \/ x \in Timed /\ Park(x) /\ UNCHANGED answer
       \/ x \in NoWait /\ Full /\ UNCHANGED <<queueVars, answer>>
    /\ UNCHANGED <<lifeVars, subVars, taskVars>>

\* A woken put goes on; the emitter learns that it succeeded.
ResumeEmit(x) ==
    /\ Resume(x)
    /\ IF Full THEN UNCHANGED answer ELSE Answer(x, "true")
    /\ UNCHANGED <<spawned, lifeVars, subVars, taskVars>>

\* The timeout only ends the wait; the put stays in the queue (mutant).
TimeOutForgets(x) ==
    /\ x \in Timed /\ Putting(x)
    /\ Answer(x, "false")
    /\ UNCHANGED <<queueVars, spawned, lifeVars, subVars, taskVars>>

\* enqueue() drops its timeout argument (mutant).
TimeOutIgnored(x) == FALSE /\ UNCHANGED vars

\* The timeout of an emit() that still waits for room.
TimeOut(x) ==
    /\ x \in Timed
    /\ Abandon(x)
    /\ Answer(x, "false")
    /\ UNCHANGED <<spawned, lifeVars, subVars, taskVars>>
-----------------------------------------------------------------------------
\* _consumer_loop ends by itself.
Quit(c) == alive' = alive \ {c} /\ quit' = quit \cup {c}

\* A consumer task runs for the first time: it looks at _running once, and
\* from then on waits for events whatever _running becomes.
BeginLoop(c) ==
    /\ c \in fresh /\ fresh' = fresh \ {c}
    /\ IF running THEN UNCHANGED <<alive, quit>> ELSE Quit(c)
    /\ UNCHANGED <<running, shut, listed, unborn>>
    /\ UNCHANGED <<queueVars, subVars, emitVars, taskVars>>

\* An idle consumer gets an event and starts to dispatch it.
Take(c) ==
    /\ c \in alive \ fresh /\ held[c] = NoItem
    /\ \E x \in Items :
        /\ Get(x)
        /\ held' = [held EXCEPT ![c] = x]
        /\ owed' = [owed EXCEPT ![x] = {s \in ToSet(Current) : <<s, x>> \in Wants}]
    /\ cursor' = [cursor EXCEPT ![c] = [version |-> Len(versions), next |-> 1]]
    /\ UNCHANGED <<calls, done, cut, lifeVars, subVars, emitVars>>

AtEnd(c) == cursor[c].next > Len(versions[cursor[c].version])

\* The subscriber the loop over the list is at.
At(c) == versions[cursor[c].version][cursor[c].next]

\* One turn of the loop over the subscribers: skip, or call the callback; an
\* Exception it raises is logged, to no effect.
Deliver(c) ==
    /\ c \in alive /\ held[c] # NoItem /\ ~AtEnd(c)
    /\ calls' = IF <<At(c), held[c]>> \in Wants
                THEN [calls EXCEPT ![held[c]] = Append(@, At(c))] ELSE calls
    /\ cursor' = [cursor EXCEPT ![c].next = @ + 1]
    /\ UNCHANGED <<held, owed, done, cut, queueVars, lifeVars, subVars, emitVars>>

\* The callback raises CancelledError, which is no Exception: it leaves the
\* dispatch and ends the consumer.
Fall(c) ==
    /\ c \in alive /\ held[c] # NoItem /\ ~AtEnd(c)
    /\ <<At(c), held[c]>> \in Wants
    /\ calls' = [calls EXCEPT ![held[c]] = Append(@, At(c))]
    /\ held' = [held EXCEPT ![c] = NoItem]
    /\ cut' = cut \cup {held[c]}
    /\ Quit(c)
    /\ UNCHANGED <<cursor, owed, done, running, shut, listed, unborn, fresh>>
    /\ UNCHANGED <<queueVars, subVars, emitVars>>

\* The consumer task ends after its first event (mutant).
FinishAndDie(c) ==
    /\ c \in alive /\ held[c] # NoItem /\ AtEnd(c)
    /\ held' = [held EXCEPT ![c] = NoItem]
    /\ done' = done \cup {held[c]}
    /\ alive' = alive \ {c}
    /\ UNCHANGED <<cursor, owed, calls, cut, running, shut, listed, unborn, fresh>>
    /\ UNCHANGED <<quit, queueVars, subVars, emitVars>>

Finish(c) ==
    /\ c \in alive /\ held[c] # NoItem /\ AtEnd(c)
    /\ held' = [held EXCEPT ![c] = NoItem]
    /\ done' = done \cup {held[c]}
    /\ UNCHANGED <<cursor, owed, calls, cut, queueVars, lifeVars, subVars, emitVars>>
-----------------------------------------------------------------------------
Init ==
    /\ QInit
    /\ running = FALSE /\ shut = "no"
    /\ listed = {} /\ alive = {} /\ unborn = Tasks
    /\ fresh = {} /\ quit = {}
    /\ held = [c \in Tasks |-> NoItem]
    /\ cursor = [c \in Tasks |-> [version |-> 1, next |-> 1]]
    /\ versions = << <<>> >>
    /\ spawned = {} /\ answer = [x \in Items |-> "none"]
    /\ owed = [x \in Items |-> {}] /\ calls = [x \in Items |-> <<>>]
    /\ done = {} /\ cut = {}

Emitter(x) ==
    Refuse(x) \/ Emit(x) \/ Spawn(x) \/ RunSpawned(x) \/ ResumeEmit(x) \/ TimeOut(x)

Consumer(c) == BeginLoop(c) \/ Take(c) \/ Deliver(c) \/ Fall(c) \/ Finish(c)

Next ==
    \/ Start \/ Shutdown \/ StopDraining \/ FinishShutdown
    \/ \E s \in Subscribers : Subscribe(s) \/ Unsubscribe(s)
    \/ \E x \in Items : Emitter(x)
    \/ \E c \in Tasks : Consumer(c)

Spec == Init /\ [][Next]_vars

\* The event loop runs what is ready and fires the timers; callbacks may hang.
FairSpec ==
    /\ Spec
    /\ WF_vars(StopDraining) /\ WF_vars(FinishShutdown)
    /\ \A x \in Items :
        WF_vars(RunSpawned(x)) /\ WF_vars(ResumeEmit(x)) /\ WF_vars(TimeOut(x))

CallbacksReturn == \A c \in Tasks : WF_vars(Consumer(c))
-----------------------------------------------------------------------------
BusTypeOK ==
    /\ running \in BOOLEAN /\ shut \in {"no", "draining", "gathering"}
    /\ unborn \subseteq Tasks
    /\ alive \subseteq Tasks \ unborn /\ listed \subseteq Tasks \ unborn
    /\ fresh \subseteq alive /\ quit \subseteq Tasks \ (unborn \cup alive)
    /\ held \in [Tasks -> Items \cup {NoItem}]
    /\ cursor \in [Tasks -> [version : Nat \ {0}, next : Nat \ {0}]]
    /\ versions \in Seq(Seq(Subscribers)) /\ versions # <<>>
    /\ spawned \subseteq Timed \cup NoWait
    /\ answer \in [Items -> {"none", "waiting", "true", "false", "raised"}]
    /\ owed \in [Items -> SUBSET Subscribers]
    /\ calls \in [Items -> Seq(Subscribers)]
    /\ done \subseteq Items /\ cut \subseteq Items

Accepted == ToSet(entered)
HandedOut == ToSet(SubSeq(entered, 1, left))
Held == {held[c] : c \in Tasks} \ {NoItem}

\* The emitter is told the truth and nothing is lost or doubled on the way:
\* an event is in one place only, one that emit() accepted got into the queue,
\* one that timed out or was refused never does, even when the timeout races
\* the consumer that makes room, and an event that was handed out is held by
\* one consumer, or was dispatched to the end, or its dispatch was cut.
EventsAccounted ==
    /\ Cardinality(Accepted) = Len(entered)
    /\ \A x \in Items :
        /\ answer[x] \in {"none", "raised", "false"} =>
              x \notin Accepted \cup spawned /\ ~Putting(x)
        /\ answer[x] = "waiting" =>
              x \notin Accepted /\ (x \in spawned <=> ~Putting(x))
        /\ answer[x] = "true" /\ x \notin NoWait => x \in Accepted
    /\ \A c, b \in Tasks : held[c] = held[b] /\ held[c] # NoItem => c = b
    /\ HandedOut = Held \cup done \cup cut
    /\ Held \cap done = {} /\ Held \cap cut = {} /\ done \cap cut = {}

\* Whatever is subscribed or unsubscribed while an event is dispatched, a
\* finished dispatch has called every subscriber that wanted the event and was
\* there when it began.
NobodySkipped == \A x \in done : owed[x] \subseteq ToSet(calls[x])

\* No callback gets an event twice, or one it did not ask for.
CalledOnce ==
    \A x \in Items :
        /\ Cardinality(ToSet(calls[x])) = Len(calls[x])
        /\ \A s \in ToSet(calls[x]) : <<s, x>> \in Wants

\* start() and shutdown() may overlap in any way: no consumer that a running bus
\* should have was cancelled, so it has num_consumers of them but for those whose
\* loop ended by itself (it first ran while the bus was stopped, or a callback
\* raised CancelledError), which nothing replaces.
RunningHasConsumer ==
    running => Cardinality(alive \cup quit) >= NumConsumers

Deserted == alive = {} /\ quit # {}

\* An event emit() accepted is dispatched, unless its dispatch is cut, provided
\* callbacks return and the bus is finally running with a consumer left: the
\* events a shutdown left in the queue as well.
AcceptedIsDispatched ==
    CallbacksReturn /\ <>[](running /\ ~Deserted) =>
        \A x \in Items : x \in Accepted ~> x \in done \cup cut

\* An emit() with a timeout ends even if every callback hangs and nobody
\* consumes: a handler that emits cannot block its consumer for ever.
TimedEmitEnds == \A x \in Timed : answer[x] = "waiting" ~> answer[x] # "waiting"
=============================================================================
