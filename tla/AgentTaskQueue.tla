--------------------------- MODULE AgentTaskQueue ---------------------------
(***************************************************************************)
(* AgentTaskQueue, backend/infrastructure/agent_queue/task_queue.py: tasks *)
(* with a future, an unbounded AsyncQueue, one worker task per start() and *)
(* a semaphore around the execution.                                       *)
(***************************************************************************)
EXTENDS AsyncQueue, FiniteSets

CONSTANTS
    Workers,        \* the worker tasks start() may ever create (a bound)
    NoWorker,       \* _worker_task before the first start()
    NoTask,         \* a worker holds no task
    MaxConcurrent   \* initial value of the semaphore

ASSUME UnlimitedAssumption == MaxSize = 0
ASSUME NothingAssumption == NoTask \notin Items /\ NoWorker \notin Workers
ASSUME SemaphoreAssumption == MaxConcurrent \in Nat \ {0}

VARIABLES
    running,    \* _running
    shut,       \* how far a call of shutdown() is
    current,    \* _worker_task
    alive,      \* workers that run _worker_loop
    unborn,     \* workers not created yet
    fresh,      \* live workers that have not run yet
    quit,       \* history: workers whose loop ended by itself, not cancelled since
    held,       \* the task each worker took from the queue
    executing,  \* workers that hold the semaphore
    future,     \* of each task
    ended,      \* history: the tasks whose execution ended, in order
    cut         \* history: tasks whose worker was cancelled

lifeVars == <<running, shut, current, alive, unborn, fresh, quit>>
workVars == <<held, executing, future, ended, cut>>
vars == <<queueVars, lifeVars, workVars>>
-----------------------------------------------------------------------------
Start ==
    /\ ~running /\ running' = TRUE
    /\ \E w \in unborn :
        /\ current' = w
        /\ alive' = alive \cup {w}
        /\ unborn' = unborn \ {w}
        /\ fresh' = fresh \cup {w}
    /\ UNCHANGED <<shut, quit, queueVars, workVars>>

\* _worker_task.cancel(): the worker ends where it is and gives the semaphore
\* back; the future of its task is left alone.
CancelWorker ==
    /\ alive' = alive \ {current} /\ fresh' = fresh \ {current}
    /\ quit' = quit \ {current}
    /\ cut' = cut \cup ({held[w] : w \in {current}} \ {NoTask})
    /\ held' = [held EXCEPT ![current] = NoTask]
    /\ executing' = executing \ {current}
    /\ UNCHANGED <<future, ended>>

\* shutdown() up to its first suspension (bound: one call at a time).
Shutdown ==
    /\ running /\ shut = "no"
    /\ running' = FALSE
    /\ \/ ~Empty /\ shut' = "draining" /\ UNCHANGED <<alive, fresh, quit, workVars>>
       \/ Empty /\ shut' = "joining" /\ CancelWorker
    /\ UNCHANGED <<current, unborn, queueVars>>

\* The queue is empty, or ten seconds are over.
StopDraining ==
    /\ shut = "draining" /\ shut' = "joining"
    /\ CancelWorker
    /\ UNCHANGED <<running, current, unborn, queueVars>>

FinishShutdown ==
    /\ shut = "joining" /\ shut' = "no"
    /\ UNCHANGED <<running, current, alive, unborn, fresh, quit, queueVars, workVars>>
-----------------------------------------------------------------------------
\* submit() on a running queue; on a stopped one it raises.  The priority is
\* stored beside the task and nothing ever looks at it.
Submit(x) ==
    /\ running /\ ~Called(x)
    /\ Put(x)
    /\ future' = [future EXCEPT ![x] = "pending"]
    /\ UNCHANGED <<lifeVars, held, executing, ended, cut>>

\* The caller gives up and cancels the future.
GiveUp(x) ==
    /\ future[x] = "pending"
    /\ future' = [future EXCEPT ![x] = "cancelled"]
    /\ UNCHANGED <<queueVars, lifeVars, held, executing, ended, cut>>

\* A worker task runs for the first time: it looks at _running once, and from
\* then on waits for tasks whatever _running becomes.
BeginLoop(w) ==
    /\ w \in fresh /\ fresh' = fresh \ {w}
    /\ IF running THEN UNCHANGED <<alive, quit>>
       ELSE alive' = alive \ {w} /\ quit' = quit \cup {w}
    /\ UNCHANGED <<running, shut, current, unborn, queueVars, workVars>>

Take(w) ==
    /\ w \in alive \ fresh /\ held[w] = NoTask
    /\ \E x \in Items : Get(x) /\ held' = [held EXCEPT ![w] = x]
    /\ UNCHANGED <<lifeVars, executing, future, ended, cut>>

\* A worker executes its task without the semaphore (mutant).
ExecuteFreely(w) ==
    /\ w \in alive \ executing /\ held[w] # NoTask
    /\ executing' = executing \cup {w}
    /\ UNCHANGED <<queueVars, lifeVars, held, future, ended, cut>>

\* async with self._semaphore
Execute(w) ==
    /\ w \in alive \ executing /\ held[w] # NoTask
    /\ Cardinality(executing) < MaxConcurrent
    /\ executing' = executing \cup {w}
    /\ UNCHANGED <<queueVars, lifeVars, held, future, ended, cut>>

\* The result is set although the caller may have cancelled (mutant).
FinishBlindly(w) ==
    /\ w \in executing
    /\ held' = [held EXCEPT ![w] = NoTask]
    /\ executing' = executing \ {w}
    /\ ended' = Append(ended, held[w])
    /\ future' = [future EXCEPT ![held[w]] = "result"]
    /\ UNCHANGED <<queueVars, lifeVars, cut>>

\* A failed task never answers its caller (mutant).
FinishMute(w) ==
    /\ w \in executing
    /\ held' = [held EXCEPT ![w] = NoTask]
    /\ executing' = executing \ {w}
    /\ ended' = Append(ended, held[w])
    /\ \/ UNCHANGED future
       \/ future' = [future EXCEPT ![held[w]] = "result"]
    /\ UNCHANGED <<queueVars, lifeVars, cut>>

\* _execute_task() returns a success or a failure, which becomes the result of
\* a future that is not done.
Finish(w) ==
    LET x == held[w] IN
    /\ w \in executing
    /\ held' = [held EXCEPT ![w] = NoTask]
    /\ executing' = executing \ {w}
    /\ ended' = Append(ended, x)
    /\ \E outcome \in {"result", "exception"} :
        future' = IF future[x] = "pending" THEN [future EXCEPT ![x] = outcome]
                  ELSE future
    /\ UNCHANGED <<queueVars, lifeVars, cut>>
-----------------------------------------------------------------------------
Init ==
    /\ QInit
    /\ running = FALSE /\ shut = "no" /\ current = NoWorker
    /\ alive = {} /\ unborn = Workers /\ fresh = {} /\ quit = {}
    /\ held = [w \in Workers |-> NoTask]
    /\ executing = {}
    /\ future = [x \in Items |-> "none"]
    /\ ended = <<>> /\ cut = {}

Worker(w) == BeginLoop(w) \/ Take(w) \/ Execute(w) \/ Finish(w)

Next ==
    \/ Start \/ Shutdown \/ StopDraining \/ FinishShutdown
    \/ \E x \in Items : Submit(x) \/ GiveUp(x)
    \/ \E w \in Workers : Worker(w)

Spec == Init /\ [][Next]_vars

\* The event loop runs every ready task, and tasks end.
FairSpec ==
    /\ Spec
    /\ WF_vars(StopDraining) /\ WF_vars(FinishShutdown)
    /\ \A w \in Workers :
        /\ WF_vars(BeginLoop(w)) /\ WF_vars(Take(w))
        /\ SF_vars(Execute(w)) /\ WF_vars(Finish(w))
-----------------------------------------------------------------------------
Held == {held[w] : w \in Workers} \ {NoTask}

\* A submitted task is in one place only - queued, held by one worker, ended,
\* or cut by a shutdown - and its future is settled when it has ended: no task
\* runs twice and no caller waits for a task that nobody has, however start()
\* and shutdown() overlap, but for the tasks a shutdown has cut.
TasksAccounted ==
    /\ Cardinality(ToSet(entered)) = Len(entered)
    /\ Cardinality(ToSet(ended)) = Len(ended)
    /\ \A v, w \in Workers : held[v] = held[w] /\ held[v] # NoTask => v = w
    /\ ToSet(ended) \cap (Held \cup cut) = {} /\ Held \cap cut = {}
    /\ ToSet(SubSeq(entered, 1, left)) = Held \cup ToSet(ended) \cup cut
    /\ \A x \in Items : future[x] = "none" <=> x \notin ToSet(entered)
    /\ \A x \in ToSet(ended) : future[x] \in {"result", "exception", "cancelled"}

\* No more than max_concurrent tasks execute, though workers of earlier starts
\* may still be there.
ConcurrencyBounded ==
    /\ Cardinality(executing) <= MaxConcurrent
    /\ \A w \in executing : held[w] # NoTask /\ w \in alive

\* What a caller was told never changes.
SettledForGood ==
    [][\A x \in Items : future[x] \in {"result", "exception", "cancelled"}
        => future'[x] = future[x]]_vars

\* Every worker left ended by itself, and nothing replaces it.
Deserted == alive = {} /\ quit # {}

\* A submitted task gets its answer, unless a shutdown cuts it, provided the
\* queue is finally running with a worker left: also a task that a shutdown left
\* in the queue, and no overlap of start() and shutdown() cancels the last worker
\* but when an earlier one ended because it first ran on a stopped queue.
SubmittedIsAnswered ==
    <>[](running /\ ~Deserted) =>
        \A x \in Items : future[x] = "pending" ~> future[x] # "pending" \/ x \in cut
=============================================================================
