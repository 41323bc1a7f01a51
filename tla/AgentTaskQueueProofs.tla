------------------------ MODULE AgentTaskQueueProofs ------------------------
(***************************************************************************)
(* Proofs about AgentTaskQueue for any tasks, workers and number of        *)
(* permits.  The lemmas of AsyncQueueProofs say what the queue does; here  *)
(* every task is followed from the queue through a worker to its future.   *)
(***************************************************************************)
EXTENDS AgentTaskQueue, AsyncQueueProofs

Settled == {"result", "exception", "cancelled"}

\* Only a worker that has run holds a task.
BornInv ==
    /\ fresh \subseteq alive /\ alive \cap unborn = {}
    /\ \A w \in fresh \cup unborn : held[w] = NoTask

\* Workers and the semaphore.
WorkersInv ==
    /\ unborn \subseteq Workers /\ alive \subseteq Workers
    /\ running \/ shut = "draining" => current \in Workers
    /\ held \in [Workers -> Items \cup {NoTask}]
    /\ executing \subseteq alive /\ IsFiniteSet(executing)
    /\ Cardinality(executing) <= MaxConcurrent
    /\ \A w \in executing : held[w] # NoTask
    /\ BornInv

\* Tasks and their futures.
TasksInv ==
    /\ future \in [Items -> Settled \cup {"none", "pending"}]
    /\ Parked = {}
    /\ ended \in Seq(Items) /\ Once(ended)
    /\ \A v, w \in Workers : held[v] = held[w] /\ held[v] # NoTask => v = w
    /\ HandedOutSet = Held \cup ToSet(ended) \cup cut
    /\ ToSet(ended) \cap (Held \cup cut) = {} /\ Held \cap cut = {}
    /\ \A x \in Items : future[x] = "none" <=> x \notin ToSet(entered)
    /\ \A x \in ToSet(ended) : future[x] \in Settled

TInv == QInv /\ Places /\ WorkersInv /\ TasksInv
-----------------------------------------------------------------------------
LEMMA TQueueKept ==
    ASSUME QInv, Places, UNCHANGED queueVars
    PROVE  /\ QInv' /\ Places'
           /\ Parked' = Parked /\ entered' = entered /\ HandedOutSet' = HandedOutSet
  BY DEF queueVars, QInv, QTypeOK, QueueInv, Contents, Bounded, NoLostWakeup,
         Places, Parked, HandedOutSet

LEMMA HandedOutEntered ==
    ASSUME QInv, Places
    PROVE  HandedOutSet \subseteq ToSet(entered)
<1>1. /\ Len(entered) \in Nat /\ left \in 0..Len(entered)
      /\ DOMAIN entered = 1..Len(entered)
  BY LenProperties DEF QInv, QTypeOK
<1> QED
  BY <1>1 DEF HandedOutSet, ToSet
-----------------------------------------------------------------------------
LEMMA StartKeeps == TInv /\ Start => TInv'
<1> SUFFICES ASSUME TInv, Start PROVE TInv'
  OBVIOUS
<1> USE DEF TInv
<1>1. UNCHANGED queueVars /\ UNCHANGED workVars /\ shut' = shut
  BY DEF Start
<1>2. PICK w \in unborn : /\ current' = w /\ alive' = alive \cup {w}
                          /\ unborn' = unborn \ {w} /\ fresh' = fresh \cup {w}
  BY DEF Start
<1>3. QInv' /\ Places' /\ Parked' = Parked /\ entered' = entered
      /\ HandedOutSet' = HandedOutSet
  BY <1>1, TQueueKept
<1>4. WorkersInv'
  <2>1. BornInv'
    BY <1>1, <1>2 DEF WorkersInv, BornInv, workVars
  <2> QED
    BY <1>1, <1>2, <2>1 DEF WorkersInv, workVars
<1>5. TasksInv'
  BY <1>1, <1>3 DEF TasksInv, workVars, Held
<1> QED
  BY <1>3, <1>4, <1>5

\* The worker that shutdown() cancels lets go of its task and its permit.
LEMMA CancelKeeps ==
    ASSUME TInv, current \in Workers, CancelWorker, UNCHANGED <<queueVars, current, unborn>>,
           shut' # "draining", running' = FALSE \/ running' = running
    PROVE  TInv'
<1> USE DEF TInv
<1>1. /\ alive' = alive \ {current} /\ fresh' = fresh \ {current}
      /\ cut' = cut \cup ({held[current]} \ {NoTask})
      /\ held' = [held EXCEPT ![current] = NoTask]
      /\ executing' = executing \ {current}
      /\ UNCHANGED <<future, ended>>
  BY DEF CancelWorker
<1>2. QInv' /\ Places' /\ Parked' = Parked /\ entered' = entered
      /\ HandedOutSet' = HandedOutSet
  BY TQueueKept
<1>3. WorkersInv'
  <2>1. /\ IsFiniteSet(executing') /\ Cardinality(executing') <= Cardinality(executing)
        /\ Cardinality(executing) \in Nat /\ Cardinality(executing') \in Nat
    BY <1>1, FS_Subset, FS_CardinalityType DEF WorkersInv
  <2>2. Cardinality(executing') <= MaxConcurrent
    BY <2>1, SemaphoreAssumption DEF WorkersInv
  <2>3. BornInv'
    BY <1>1 DEF WorkersInv, BornInv
  <2> QED
    BY <1>1, <2>1, <2>2, <2>3 DEF WorkersInv
<1>4. Held' = Held \ {held[current]}
  BY <1>1 DEF Held, WorkersInv, TasksInv
<1>5. held[current] \in Held \cup {NoTask} /\ NoTask \notin Held
  BY DEF Held
<1>6. \A v, w \in Workers : held'[v] = held'[w] /\ held'[v] # NoTask => v = w
  BY <1>1 DEF TasksInv, WorkersInv
<1>7. TasksInv'
  <2>1. HandedOutSet' = Held' \cup ToSet(ended') \cup cut'
    BY <1>1, <1>2, <1>4, <1>5 DEF TasksInv
  <2>2. ToSet(ended') \cap (Held' \cup cut') = {} /\ Held' \cap cut' = {}
    BY <1>1, <1>4, <1>5 DEF TasksInv
  <2> QED
    BY <1>1, <1>2, <1>6, <2>1, <2>2 DEF TasksInv
<1> QED
  BY <1>2, <1>3, <1>7

\* Steps that leave queue, workers' tasks and futures alone.
LEMMA OthersKeep ==
    ASSUME TInv, UNCHANGED <<queueVars, workVars, current, alive, unborn, fresh>>,
           running' \/ shut' = "draining" => running \/ shut = "draining"
    PROVE  TInv'
<1> USE DEF TInv
<1>1. QInv' /\ Places' /\ Parked' = Parked /\ entered' = entered
      /\ HandedOutSet' = HandedOutSet
  BY TQueueKept
<1>2. WorkersInv' /\ TasksInv'
  BY <1>1 DEF WorkersInv, BornInv, TasksInv, workVars, Held
<1> QED
  BY <1>1, <1>2

LEMMA ShutdownKeeps ==
    TInv /\ (Shutdown \/ StopDraining \/ FinishShutdown) => TInv'
<1> SUFFICES ASSUME TInv, Shutdown \/ StopDraining \/ FinishShutdown PROVE TInv'
  OBVIOUS
<1>1. CASE Shutdown
  <2>1. UNCHANGED <<current, unborn, queueVars>> /\ running' = FALSE /\ running
    BY <1>1 DEF Shutdown
  <2>2. CASE shut' = "draining" /\ UNCHANGED <<alive, fresh, quit, workVars>>
    BY <2>1, <2>2, OthersKeep
  <2>3. CASE shut' = "joining" /\ CancelWorker
    BY <2>1, <2>3, CancelKeeps DEF TInv, WorkersInv
  <2> QED
    BY <1>1, <2>2, <2>3 DEF Shutdown
<1>2. CASE StopDraining
  BY <1>2, CancelKeeps DEF StopDraining, TInv, WorkersInv
<1>3. CASE FinishShutdown
  BY <1>3, OthersKeep DEF FinishShutdown
<1> QED
  BY <1>1, <1>2, <1>3
-----------------------------------------------------------------------------
LEMMA SubmitKeeps ==
    ASSUME TInv, NEW x \in Items, Submit(x)
    PROVE  TInv'
<1> USE DEF TInv
<1>1. /\ ~Called(x) /\ Put(x) /\ future' = [future EXCEPT ![x] = "pending"]
      /\ UNCHANGED <<lifeVars, held, executing, ended, cut>>
  BY DEF Submit
<1>2. QInv'
  BY <1>1, PutKeeps
<1>3. /\ Places' /\ Parked' = Parked
      /\ ToSet(entered') = ToSet(entered) \cup {x}
  BY <1>1, PutPlaces DEF QInv
<1>4. HandedOutSet' = HandedOutSet
  BY <1>1, EnterHandsOutNothing DEF Put, QInv
<1>5. WorkersInv'
  BY <1>1 DEF WorkersInv, BornInv, lifeVars
<1>6. x \notin ToSet(ended)
  BY <1>1, HandedOutEntered, CalledIsPlaced DEF TasksInv
<1>7. TasksInv'
  BY <1>1, <1>3, <1>4, <1>6 DEF TasksInv, Held
<1> QED
  BY <1>2, <1>3, <1>5, <1>7

LEMMA GiveUpKeeps ==
    ASSUME TInv, NEW x \in Items, GiveUp(x)
    PROVE  TInv'
<1> USE DEF TInv
<1>1. /\ future[x] = "pending" /\ future' = [future EXCEPT ![x] = "cancelled"]
      /\ UNCHANGED <<queueVars, lifeVars, held, executing, ended, cut>>
  BY DEF GiveUp
<1>2. QInv' /\ Places' /\ Parked' = Parked /\ entered' = entered
      /\ HandedOutSet' = HandedOutSet
  BY <1>1, TQueueKept
<1>3. WorkersInv' /\ TasksInv'
  BY <1>1, <1>2 DEF WorkersInv, BornInv, TasksInv, lifeVars, Held, Settled
<1> QED
  BY <1>2, <1>3

LEMMA BeginLoopKeeps ==
    ASSUME TInv, NEW w \in Workers, BeginLoop(w)
    PROVE  TInv'
<1> USE DEF TInv
<1>1. /\ w \in fresh /\ alive \ {w} \subseteq alive' /\ alive' \subseteq alive
      /\ fresh' = fresh \ {w}
      /\ UNCHANGED <<running, shut, current, unborn, queueVars, workVars>>
  BY DEF BeginLoop
<1>2. QInv' /\ Places' /\ Parked' = Parked /\ entered' = entered
      /\ HandedOutSet' = HandedOutSet
  BY <1>1, TQueueKept
<1>3. executing' \subseteq alive'
  BY <1>1 DEF WorkersInv, BornInv, workVars
<1>4. BornInv'
  BY <1>1 DEF WorkersInv, BornInv, workVars
<1>5. WorkersInv' /\ TasksInv'
  BY <1>1, <1>2, <1>3, <1>4 DEF WorkersInv, TasksInv, workVars, Held
<1> QED
  BY <1>2, <1>5

LEMMA TakeKeeps ==
    ASSUME TInv, NEW w \in Workers, Take(w)
    PROVE  TInv'
<1> USE DEF TInv
<1>1. PICK x \in Items : Get(x) /\ held' = [held EXCEPT ![w] = x]
  BY DEF Take
<1>2. /\ w \in alive \ fresh /\ held[w] = NoTask
      /\ UNCHANGED <<lifeVars, executing, future, ended, cut>>
  BY DEF Take
<1>3. QInv'
  BY <1>1, GetKeeps
<1>4. Places' /\ Parked' = Parked /\ entered' = entered
  BY <1>1, GetPlaces DEF QInv
<1>5. x \notin HandedOutSet /\ HandedOutSet' = HandedOutSet \cup {x}
  BY <1>1, GetHandsOut
<1>6. Held' = Held \cup {x}
  BY <1>1, <1>2, NothingAssumption DEF Held, WorkersInv
<1>7. WorkersInv'
  <2>1. BornInv'
    BY <1>1, <1>2 DEF WorkersInv, BornInv, lifeVars
  <2> QED
    BY <1>1, <1>2, <2>1, NothingAssumption DEF WorkersInv, lifeVars
<1>8. TasksInv'
  <2>1. x \notin Held /\ x \notin ToSet(ended) /\ x \notin cut
    BY <1>5 DEF TasksInv
  <2>2. \A u, v \in Workers : held'[u] = held'[v] /\ held'[u] # NoTask => u = v
    BY <1>1, <2>1, NothingAssumption DEF TasksInv, WorkersInv, Held
  <2> QED
    BY <1>2, <1>4, <1>5, <1>6, <2>1, <2>2 DEF TasksInv
<1> QED
  BY <1>3, <1>4, <1>7, <1>8

LEMMA ExecuteKeeps ==
    ASSUME TInv, NEW w \in Workers, Execute(w)
    PROVE  TInv'
<1> USE DEF TInv
<1>1. /\ w \in alive \ executing /\ held[w] # NoTask
      /\ Cardinality(executing) < MaxConcurrent
      /\ executing' = executing \cup {w}
      /\ UNCHANGED <<queueVars, lifeVars, held, future, ended, cut>>
  BY DEF Execute
<1>2. QInv' /\ Places' /\ Parked' = Parked /\ entered' = entered
      /\ HandedOutSet' = HandedOutSet
  BY <1>1, TQueueKept
<1>3. WorkersInv'
  <2>1. /\ IsFiniteSet(executing') /\ Cardinality(executing') = Cardinality(executing) + 1
        /\ Cardinality(executing) \in Nat
    BY <1>1, FS_AddElement, FS_CardinalityType DEF WorkersInv
  <2>2. Cardinality(executing') <= MaxConcurrent
    BY <1>1, <2>1, SemaphoreAssumption
  <2> QED
    BY <1>1, <2>1, <2>2 DEF WorkersInv, BornInv, lifeVars
<1>4. TasksInv'
  BY <1>1, <1>2 DEF TasksInv, Held
<1> QED
  BY <1>2, <1>3, <1>4

LEMMA FinishKeeps ==
    ASSUME TInv, NEW w \in Workers, Finish(w)
    PROVE  TInv'
<1> USE DEF TInv
<1> DEFINE x == held[w]
<1>1. /\ w \in executing /\ held' = [held EXCEPT ![w] = NoTask]
      /\ executing' = executing \ {w} /\ ended' = Append(ended, x)
      /\ UNCHANGED <<queueVars, lifeVars, cut>>
  BY DEF Finish
<1>2. PICK outcome \in {"result", "exception"} :
        future' = IF future[x] = "pending" THEN [future EXCEPT ![x] = outcome]
                  ELSE future
  BY DEF Finish
<1>3. x \in Items /\ x \in Held /\ x # NoTask
  BY <1>1 DEF WorkersInv, Held
<1>4. QInv' /\ Places' /\ Parked' = Parked /\ entered' = entered
      /\ HandedOutSet' = HandedOutSet
  BY <1>1, TQueueKept
<1>5. WorkersInv'
  <2>1. /\ IsFiniteSet(executing') /\ Cardinality(executing') <= Cardinality(executing)
        /\ Cardinality(executing) \in Nat /\ Cardinality(executing') \in Nat
    BY <1>1, FS_Subset, FS_CardinalityType DEF WorkersInv
  <2>2. Cardinality(executing') <= MaxConcurrent
    BY <2>1, SemaphoreAssumption DEF WorkersInv
  <2> QED
    BY <1>1, <2>1, <2>2 DEF WorkersInv, BornInv, lifeVars
<1>6. Held' = Held \ {x}
  BY <1>1, <1>3 DEF Held, WorkersInv, TasksInv
<1>7. /\ ended' \in Seq(Items) /\ Once(ended')
      /\ ToSet(ended') = ToSet(ended) \cup {x}
  <2>1. ended \in Seq(Items) /\ Once(ended) /\ x \notin ToSet(ended)
    BY <1>3 DEF TasksInv
  <2> HIDE DEF x
  <2> QED
    BY <1>1, <1>3, <2>1, AppendSet, AppendProperties
<1>8. future[x] \in Settled \cup {"pending"}
  <2>1. x \in ToSet(entered)
    BY <1>3, HandedOutEntered DEF TasksInv
  <2> QED
    BY <1>3, <2>1 DEF TasksInv
<1>9. /\ future' \in [Items -> Settled \cup {"none", "pending"}]
      /\ future'[x] \in Settled
      /\ \A y \in Items : y # x => future'[y] = future[y]
  BY <1>2, <1>3, <1>8 DEF TasksInv, Settled
<1>10. \A u, v \in Workers : held'[u] = held'[v] /\ held'[u] # NoTask => u = v
  BY <1>1 DEF TasksInv, WorkersInv
<1>11. ToSet(ended) \subseteq Items
  BY DEF TasksInv, ToSet
<1>12. \A y \in Items : future'[y] = "none" <=> y \notin ToSet(entered')
  BY <1>3, <1>4, <1>8, <1>9 DEF TasksInv, Settled
<1>13. \A y \in ToSet(ended') : future'[y] \in Settled
  BY <1>7, <1>9, <1>11 DEF TasksInv
<1>14. TasksInv'
  <2> HIDE DEF x
  <2> QED
    BY <1>1, <1>3, <1>4, <1>6, <1>7, <1>9, <1>10, <1>12, <1>13 DEF TasksInv
<1> QED
  BY <1>4, <1>5, <1>14
-----------------------------------------------------------------------------
LEMMA Init_TInv == Init => TInv
<1> SUFFICES ASSUME Init PROVE TInv
  OBVIOUS
<1>1. QInv
  BY QInit_QInv DEF Init
<1>2. ToSet(<<>>) = {} /\ Once(<<>>) /\ <<>> \in Seq(Items)
  BY DEF ToSet, Once
<1>3. Places /\ Parked = {} /\ ToSet(entered) = {}
  BY <1>2 DEF Init, QInit, Places, Parked
<1>4. HandedOutSet = {} /\ Held = {}
  BY DEF Init, QInit, HandedOutSet, Held
<1>5. WorkersInv
  BY FS_EmptySet, SemaphoreAssumption DEF Init, WorkersInv, BornInv
<1>6. TasksInv
  BY <1>2, <1>3, <1>4 DEF Init, TasksInv
<1> QED
  BY <1>1, <1>3, <1>5, <1>6 DEF TInv

LEMMA Next_TInv == TInv /\ [Next]_vars => TInv'
<1> SUFFICES ASSUME TInv, [Next]_vars PROVE TInv'
  OBVIOUS
<1>1. CASE Start
  BY <1>1, StartKeeps
<1>2. CASE Shutdown \/ StopDraining \/ FinishShutdown
  BY <1>2, ShutdownKeeps
<1>3. ASSUME NEW x \in Items, Submit(x) \/ GiveUp(x) PROVE TInv'
  BY <1>3, SubmitKeeps, GiveUpKeeps
<1>4. ASSUME NEW w \in Workers, Worker(w) PROVE TInv'
  BY <1>4, BeginLoopKeeps, TakeKeeps, ExecuteKeeps, FinishKeeps DEF Worker
<1>5. CASE UNCHANGED vars
  BY <1>5, OthersKeep DEF vars, lifeVars
<1> QED
  BY <1>1, <1>2, <1>3, <1>4, <1>5 DEF Next

LEMMA TInv_Accounted == TInv => TasksAccounted
<1> SUFFICES ASSUME TInv PROVE TasksAccounted
  OBVIOUS
<1> USE DEF TInv
<1>1. Cardinality(ToSet(entered)) = Len(entered)
  BY OnceCardinality DEF QInv, QTypeOK, Places
<1>2. Cardinality(ToSet(ended)) = Len(ended)
  BY OnceCardinality DEF TasksInv
<1>3. ToSet(SubSeq(entered, 1, left)) = HandedOutSet
  BY HandedOutBySubSeq DEF QInv
<1> QED
  BY <1>1, <1>2, <1>3 DEF TasksAccounted, TasksInv, Settled

\* Every submitted task is in one place, runs at most once, and has a settled
\* future when it has ended, however start() and shutdown() overlap.
THEOREM TasksCorrect == Spec => []TasksAccounted
  BY Init_TInv, Next_TInv, TInv_Accounted, PTL DEF Spec

\* No more than max_concurrent tasks execute, whatever the number of workers.
THEOREM ConcurrencyCorrect == Spec => []ConcurrencyBounded
<1>1. TInv => ConcurrencyBounded
  BY DEF TInv, WorkersInv, ConcurrencyBounded
<1> QED
  BY <1>1, Init_TInv, Next_TInv, PTL DEF Spec

\* A future is settled once: neither a late result nor a new submission
\* changes what a caller was told.
THEOREM SettledOnce == Spec => SettledForGood
<1> DEFINE A == \A x \in Items : future[x] \in {"result", "exception", "cancelled"}
                    => future'[x] = future[x]
<1>1. TInv /\ [Next]_vars => [A]_vars
  <2> SUFFICES ASSUME TInv, Next PROVE A
    OBVIOUS
  <2> USE DEF TInv
  <2>1. CASE Start \/ Shutdown \/ StopDraining \/ FinishShutdown
    BY <2>1 DEF Start, Shutdown, StopDraining, FinishShutdown, CancelWorker, workVars
  <2>2. ASSUME NEW y \in Items, Submit(y) PROVE A
    <3>1. future[y] = "none"
      BY <2>2, CalledIsPlaced DEF Submit, TasksInv
    <3> QED
      BY <2>2, <3>1 DEF Submit, TasksInv
  <2>3. ASSUME NEW y \in Items, GiveUp(y) PROVE A
    BY <2>3 DEF GiveUp, TasksInv
  <2>4. ASSUME NEW w \in Workers, BeginLoop(w) \/ Take(w) \/ Execute(w) PROVE A
    BY <2>4 DEF BeginLoop, Take, Execute, workVars
  <2>5. ASSUME NEW w \in Workers, Finish(w) PROVE A
    <3>1. PICK outcome \in {"result", "exception"} :
            future' = IF future[held[w]] = "pending"
                      THEN [future EXCEPT ![held[w]] = outcome] ELSE future
      BY <2>5 DEF Finish
    <3> QED
      BY <3>1 DEF TasksInv
  <2> QED
    BY <2>1, <2>2, <2>3, <2>4, <2>5 DEF Next, Worker
<1> QED
  BY <1>1, Init_TInv, Next_TInv, PTL DEF Spec, SettledForGood
=============================================================================
