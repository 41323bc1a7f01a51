------------------------ MODULE QueuedEventBusProofs ------------------------
(***************************************************************************)
(* Proofs about QueuedEventBus for any events, subscribers, consumers and  *)
(* limits.  What the queue does is settled by the lemmas of                *)
(* AsyncQueueProofs; here it is related to what emitters are told and to   *)
(* what the consumers hold, have dispatched or were cut from.              *)
(***************************************************************************)
EXTENDS QueuedEventBus, AsyncQueueProofs

\* What emit() has answered, and where the event is then.
Told ==
    /\ answer \in [Items -> {"none", "waiting", "true", "false", "raised"}]
    /\ spawned \subseteq Timed \cup NoWait
    /\ Parked \cap NoWait = {}
    /\ (Parked \cup ToSet(entered)) \cap spawned = {}
    /\ \A x \in Items :
        /\ answer[x] \in {"none", "raised", "false"} =>
              x \notin Parked \cup ToSet(entered) \cup spawned
        /\ answer[x] = "waiting" =>
              x \notin ToSet(entered) /\ x \in Parked \cup spawned
        /\ answer[x] = "true" /\ x \notin NoWait => x \in ToSet(entered)
        /\ answer[x] = "waiting" => x \notin NoWait

\* What was handed out is held by one consumer, dispatched or cut.
Dispatched ==
    /\ held \in [Tasks -> Items \cup {NoItem}]
    /\ listed \subseteq Tasks
    /\ \A c, b \in Tasks : held[c] = held[b] /\ held[c] # NoItem => c = b
    /\ HandedOutSet = Held \cup done \cup cut
    /\ Held \cap done = {} /\ Held \cap cut = {} /\ done \cap cut = {}

BusInv == QInv /\ Places /\ Told /\ Dispatched
-----------------------------------------------------------------------------
\* The parts of the invariant that an action leaves alone.
LEMMA QueueKept ==
    ASSUME QInv, Places, UNCHANGED queueVars
    PROVE  /\ QInv' /\ Places' /\ ChannelStep
           /\ Parked' = Parked /\ entered' = entered /\ HandedOutSet' = HandedOutSet
  BY DEF queueVars, QInv, QTypeOK, QueueInv, Contents, Bounded, NoLostWakeup,
         ChannelStep, Channel!vars, Places, Parked, HandedOutSet

LEMMA ToldKept ==
    ASSUME Told, UNCHANGED emitVars, Parked' = Parked, entered' = entered
    PROVE  Told'
  BY DEF Told, emitVars

LEMMA DispatchedKept ==
    ASSUME Dispatched, UNCHANGED <<held, done, cut>>, HandedOutSet' = HandedOutSet,
           listed' \subseteq Tasks
    PROVE  Dispatched'
  BY DEF Dispatched, Held
-----------------------------------------------------------------------------
\* Emitters.
LEMMA EmitterKeeps ==
    ASSUME BusInv, NEW x \in Items, Emitter(x)
    PROVE  BusInv' /\ ChannelStep
<1> USE DEF BusInv
<1>1. QTypeOK
  BY DEF QInv
<1>2. listed' = listed /\ UNCHANGED <<held, done, cut>>
  BY DEF Emitter, Refuse, Emit, Spawn, RunSpawned, ResumeEmit, TimeOut,
         lifeVars, taskVars
<1>3. listed' \subseteq Tasks
  BY <1>2 DEF Dispatched
<1>4. ASSUME answer[x] = "none" PROVE ~Called(x)
  BY <1>4, CalledIsPlaced DEF Told
<1>5. CASE Refuse(x)
  <2>1. UNCHANGED queueVars /\ UNCHANGED spawned
    BY <1>5 DEF Refuse
  <2>2. QInv' /\ Places' /\ ChannelStep /\ Parked' = Parked
        /\ entered' = entered /\ HandedOutSet' = HandedOutSet
    BY <2>1, QueueKept
  <2>3. Told'
    BY <1>5, <2>1, <2>2 DEF Told, Refuse, Answer
  <2> QED
    BY <1>2, <1>3, <2>2, <2>3, DispatchedKept
<1>6. ASSUME Emit(x), Put(x), Answer(x, "true")
      PROVE  BusInv' /\ ChannelStep
  <2>1. answer[x] = "none" /\ x \notin NoWait /\ UNCHANGED spawned
    BY <1>6 DEF Emit
  <2>2. QInv' /\ ChannelStep
    BY <1>6, PutKeeps
  <2>3. /\ Places' /\ Parked' = Parked
        /\ ToSet(entered') = ToSet(entered) \cup {x}
    BY <1>1, <1>4, <1>6, <2>1, PutPlaces
  <2>4. HandedOutSet' = HandedOutSet
    BY <1>1, <1>6, EnterHandsOutNothing DEF Put
  <2>5. Told'
    BY <1>6, <2>1, <2>3 DEF Told, Answer
  <2> QED
    BY <1>2, <1>3, <2>2, <2>3, <2>4, <2>5, DispatchedKept
<1>7. ASSUME Emit(x), Park(x), Answer(x, "waiting")
      PROVE  BusInv' /\ ChannelStep
  <2>1. answer[x] = "none" /\ x \notin NoWait /\ UNCHANGED spawned
    BY <1>7 DEF Emit
  <2>2. QInv' /\ ChannelStep
    BY <1>7, ParkKeeps
  <2>3. Places' /\ Parked' = Parked \cup {x} /\ entered' = entered
    BY <1>1, <1>4, <1>7, <2>1, ParkPlaces
  <2>4. HandedOutSet' = HandedOutSet
    BY <1>7 DEF Park, HandedOutSet
  <2>5. Told'
    BY <1>7, <2>1, <2>3 DEF Told, Answer
  <2> QED
    BY <1>2, <1>3, <2>2, <2>3, <2>4, <2>5, DispatchedKept
<1>8. CASE Spawn(x)
  <2>1. UNCHANGED queueVars
    BY <1>8 DEF Spawn
  <2>2. QInv' /\ Places' /\ ChannelStep /\ Parked' = Parked
        /\ entered' = entered /\ HandedOutSet' = HandedOutSet
    BY <2>1, QueueKept
  <2>3. Told'
    BY <1>8, <2>2 DEF Told, Spawn, Answer
  <2> QED
    BY <1>2, <1>3, <2>2, <2>3, DispatchedKept
<1>9. ASSUME x \in spawned PROVE ~Called(x)
  BY <1>9, CalledIsPlaced DEF Told
<1>10. ASSUME RunSpawned(x), Put(x), Answer(x, "true")
       PROVE  BusInv' /\ ChannelStep
  <2>1. x \in spawned /\ spawned' = spawned \ {x}
    BY <1>10 DEF RunSpawned
  <2>2. QInv' /\ ChannelStep
    BY <1>10, PutKeeps
  <2>3. /\ Places' /\ Parked' = Parked
        /\ ToSet(entered') = ToSet(entered) \cup {x}
    BY <1>1, <1>9, <1>10, <2>1, PutPlaces
  <2>4. HandedOutSet' = HandedOutSet
    BY <1>1, <1>10, EnterHandsOutNothing DEF Put
  <2>5. Told'
    BY <1>10, <2>1, <2>3 DEF Told, Answer
  <2> QED
    BY <1>2, <1>3, <2>2, <2>3, <2>4, <2>5, DispatchedKept
<1>11. ASSUME RunSpawned(x), x \in Timed, Park(x), UNCHANGED answer
       PROVE  BusInv' /\ ChannelStep
  <2>1. x \in spawned /\ spawned' = spawned \ {x} /\ x \notin NoWait
    BY <1>11, KindsAssumption DEF RunSpawned
  <2>2. QInv' /\ ChannelStep
    BY <1>11, ParkKeeps
  <2>3. Places' /\ Parked' = Parked \cup {x} /\ entered' = entered
    BY <1>1, <1>9, <1>11, <2>1, ParkPlaces
  <2>4. HandedOutSet' = HandedOutSet
    BY <1>11 DEF Park, HandedOutSet
  <2>5. Told'
    BY <1>11, <2>1, <2>3 DEF Told
  <2> QED
    BY <1>2, <1>3, <2>2, <2>3, <2>4, <2>5, DispatchedKept
<1>12. ASSUME RunSpawned(x), x \in NoWait, UNCHANGED <<queueVars, answer>>
       PROVE  BusInv' /\ ChannelStep
  <2>1. QInv' /\ Places' /\ ChannelStep /\ Parked' = Parked
        /\ entered' = entered /\ HandedOutSet' = HandedOutSet
    BY <1>12, QueueKept
  <2>2. Told'
    BY <1>12, <2>1 DEF Told, RunSpawned
  <2> QED
    BY <1>2, <1>3, <2>1, <2>2, DispatchedKept
<1>13. CASE ResumeEmit(x)
  <2>1. /\ Resume(x) /\ UNCHANGED spawned
        /\ Full => UNCHANGED answer
        /\ ~Full => Answer(x, "true")
    BY <1>13 DEF ResumeEmit
  <2>2. QInv' /\ ChannelStep
    BY <2>1, ResumeKeeps
  <2>3. /\ Places' /\ x \in Parked
        /\ ~Full => /\ Parked' = Parked \ {x}
                    /\ ToSet(entered') = ToSet(entered) \cup {x}
        /\ Full => Parked' = Parked /\ entered' = entered
    BY <1>1, <2>1, ResumePlaces
  <2>4. HandedOutSet' = HandedOutSet
    <3>1. CASE Full
      BY <2>1, <2>3, <3>1 DEF Resume, HandedOutSet
    <3>2. CASE ~Full
      BY <1>1, <2>1, <3>2, EnterHandsOutNothing DEF Resume
    <3> QED
      BY <3>1, <3>2
  <2>5. Told'
    <3>1. CASE Full
      BY <2>1, <2>3, <3>1 DEF Told
    <3>2. CASE ~Full
      BY <2>1, <2>3, <3>2 DEF Told, Answer, Places
    <3> QED
      BY <3>1, <3>2
  <2> QED
    BY <1>2, <1>3, <2>2, <2>3, <2>4, <2>5, DispatchedKept
<1>14. CASE TimeOut(x)
  <2>1. Abandon(x) /\ Answer(x, "false") /\ UNCHANGED spawned
    BY <1>14 DEF TimeOut
  <2>2. QInv' /\ ChannelStep
    BY <2>1, AbandonKeeps
  <2>3. /\ Places' /\ x \in Parked /\ Parked' = Parked \ {x}
        /\ entered' = entered
    BY <1>1, <2>1, AbandonPlaces
  <2>4. HandedOutSet' = HandedOutSet
    BY <2>1 DEF Abandon, HandedOutSet
  <2>5. Told'
    BY <2>1, <2>3 DEF Told, Answer, Places
  <2> QED
    BY <1>2, <1>3, <2>2, <2>3, <2>4, <2>5, DispatchedKept
<1> QED
  BY <1>5, <1>6, <1>7, <1>8, <1>10, <1>11, <1>12, <1>13, <1>14
  DEF Emitter, Emit, RunSpawned
-----------------------------------------------------------------------------
\* Consumers.
LEMMA TakeKeeps ==
    ASSUME BusInv, NEW c \in Tasks, Take(c)
    PROVE  BusInv' /\ ChannelStep
<1> USE DEF BusInv
<1>1. PICK x \in Items : Get(x) /\ held' = [held EXCEPT ![c] = x]
  BY DEF Take
<1>2. /\ held[c] = NoItem /\ UNCHANGED <<listed, done, cut, emitVars>>
  BY DEF Take, lifeVars
<1>3. QInv' /\ ChannelStep
  BY <1>1, GetKeeps
<1>4. Places' /\ Parked' = Parked /\ entered' = entered
  BY <1>1, GetPlaces DEF QInv
<1>5. x \notin HandedOutSet /\ HandedOutSet' = HandedOutSet \cup {x}
  BY <1>1, GetHandsOut
<1>6. Held' = Held \cup {x}
  <2>1. x # NoItem
    BY NoItemAssumption
  <2>2. held \in [Tasks -> Items \cup {NoItem}]
    BY DEF Dispatched
  <2> QED
    BY <1>1, <1>2, <2>1, <2>2 DEF Held
<1>7. Dispatched'
  <2>1. x \notin Held /\ x \notin done /\ x \notin cut
    BY <1>5 DEF Dispatched
  <2>2. held' \in [Tasks -> Items \cup {NoItem}]
    BY <1>1 DEF Dispatched
  <2>3. \A a, b \in Tasks : held'[a] = held'[b] /\ held'[a] # NoItem => a = b
    BY <1>1, <2>1, NoItemAssumption DEF Dispatched, Held
  <2> QED
    BY <1>2, <1>5, <1>6, <2>1, <2>2, <2>3 DEF Dispatched
<1>8. Told'
  BY <1>2, <1>4, ToldKept
<1> QED
  BY <1>3, <1>4, <1>7, <1>8

LEMMA FinishKeeps ==
    ASSUME BusInv, NEW c \in Tasks, Finish(c)
    PROVE  BusInv' /\ ChannelStep
<1> USE DEF BusInv
<1>1. UNCHANGED queueVars /\ UNCHANGED emitVars /\ UNCHANGED <<listed, cut>>
  BY DEF Finish, lifeVars
<1>2. /\ held[c] # NoItem /\ held' = [held EXCEPT ![c] = NoItem]
      /\ done' = done \cup {held[c]}
  BY DEF Finish
<1>3. QInv' /\ Places' /\ ChannelStep /\ Parked' = Parked
      /\ entered' = entered /\ HandedOutSet' = HandedOutSet
  BY <1>1, QueueKept
<1>4. held[c] \in Held /\ Held' = Held \ {held[c]}
  BY <1>2 DEF Held, Dispatched
<1>5. Dispatched'
  <2>1. held' \in [Tasks -> Items \cup {NoItem}]
    BY <1>2 DEF Dispatched
  <2>2. \A a, b \in Tasks : held'[a] = held'[b] /\ held'[a] # NoItem => a = b
    BY <1>2 DEF Dispatched
  <2> QED
    BY <1>1, <1>2, <1>3, <1>4, <2>1, <2>2 DEF Dispatched
<1>6. Told'
  BY <1>1, <1>3, ToldKept
<1> QED
  BY <1>3, <1>5, <1>6

LEMMA FallKeeps ==
    ASSUME BusInv, NEW c \in Tasks, Fall(c)
    PROVE  BusInv' /\ ChannelStep
<1> USE DEF BusInv
<1>1. UNCHANGED queueVars /\ UNCHANGED emitVars /\ UNCHANGED <<listed, done>>
  BY DEF Fall
<1>2. /\ held[c] # NoItem /\ held' = [held EXCEPT ![c] = NoItem]
      /\ cut' = cut \cup {held[c]}
  BY DEF Fall
<1>3. QInv' /\ Places' /\ ChannelStep /\ Parked' = Parked
      /\ entered' = entered /\ HandedOutSet' = HandedOutSet
  BY <1>1, QueueKept
<1>4. held[c] \in Held /\ Held' = Held \ {held[c]}
  BY <1>2 DEF Held, Dispatched
<1>5. Dispatched'
  <2>1. held' \in [Tasks -> Items \cup {NoItem}]
    BY <1>2 DEF Dispatched
  <2>2. \A a, b \in Tasks : held'[a] = held'[b] /\ held'[a] # NoItem => a = b
    BY <1>2 DEF Dispatched
  <2> QED
    BY <1>1, <1>2, <1>3, <1>4, <2>1, <2>2 DEF Dispatched
<1>6. Told'
  BY <1>1, <1>3, ToldKept
<1> QED
  BY <1>3, <1>5, <1>6

\* The consumers that shutdown() cancels let go of what they hold.
LEMMA CancelKeeps ==
    ASSUME BusInv, CancelListed, UNCHANGED <<queueVars, emitVars, listed>>
    PROVE  BusInv' /\ ChannelStep
<1> USE DEF BusInv
<1> DEFINE lost == {held[c] : c \in listed} \ {NoItem}
<1>1. /\ cut' = cut \cup lost /\ UNCHANGED done
      /\ held' = [c \in Tasks |-> IF c \in listed THEN NoItem ELSE held[c]]
  BY DEF CancelListed
<1>2. QInv' /\ Places' /\ ChannelStep /\ Parked' = Parked
      /\ entered' = entered /\ HandedOutSet' = HandedOutSet
  BY QueueKept
<1>3. lost \subseteq Held /\ Held' = Held \ lost
  BY <1>1 DEF Held, Dispatched
<1>4. Dispatched'
  <2>1. held' \in [Tasks -> Items \cup {NoItem}]
    BY <1>1 DEF Dispatched
  <2>2. \A a, b \in Tasks : held'[a] = held'[b] /\ held'[a] # NoItem => a = b
    BY <1>1 DEF Dispatched
  <2> HIDE DEF lost
  <2> QED
    BY <1>1, <1>2, <1>3, <2>1, <2>2 DEF Dispatched
<1>5. Told'
  BY <1>2, ToldKept
<1> QED
  BY <1>2, <1>4, <1>5

\* Steps that touch neither the queue nor what consumers hold.
LEMMA OthersKeep ==
    ASSUME BusInv, UNCHANGED <<queueVars, emitVars, held, done, cut>>,
           listed' \subseteq Tasks
    PROVE  BusInv' /\ ChannelStep
  BY QueueKept, ToldKept, DispatchedKept DEF BusInv
-----------------------------------------------------------------------------
LEMMA Init_BusInv == Init => BusInv
<1> SUFFICES ASSUME Init PROVE BusInv
  OBVIOUS
<1>1. QInv
  BY QInit_QInv DEF Init
<1>2. ToSet(<<>>) = {} /\ Once(<<>>)
  BY DEF ToSet, Once
<1>3. Places /\ Parked = {} /\ ToSet(entered) = {}
  BY <1>2 DEF Init, QInit, Places, Parked
<1>4. Told
  BY <1>3 DEF Init, Told
<1>5. HandedOutSet = {}
  BY DEF Init, QInit, HandedOutSet
<1>6. Dispatched
  BY <1>5 DEF Init, Dispatched, Held
<1> QED
  BY <1>1, <1>3, <1>4, <1>6 DEF BusInv

\* The tasks of the bus: those of a start() during a drain are cancelled with
\* the drain, but then the ones from before it are left, or have quit.
LifeInv ==
    /\ running \in BOOLEAN /\ shut \in {"no", "draining", "gathering"}
    /\ unborn \subseteq Tasks /\ listed \subseteq Tasks /\ alive \subseteq Tasks
    /\ fresh \subseteq alive /\ quit \subseteq Tasks
    /\ held \in [Tasks -> Items \cup {NoItem}]
    /\ \A c \in Tasks : held[c] # NoItem => c \in alive \ fresh
    /\ listed \cap unborn = {}
    /\ alive \cap unborn = {} /\ quit \cap unborn = {} /\ quit \cap alive = {}
    /\ running \/ shut = "draining" => Cardinality(alive \cup quit) >= NumConsumers
    /\ running /\ shut = "draining" =>
          Cardinality((alive \cup quit) \ listed) >= NumConsumers

\* A set of tasks is as large as any part of it.
LEMMA MoreTasks ==
    ASSUME NEW S \in SUBSET Tasks, NEW T \in SUBSET S,
           Cardinality(T) >= NumConsumers
    PROVE  Cardinality(S) >= NumConsumers
<1>1. IsFiniteSet(S)
  BY ConsumersAssumption, FS_Subset
<1>2. IsFiniteSet(T) /\ Cardinality(T) <= Cardinality(S)
  BY <1>1, FS_Subset
<1>3. Cardinality(S) \in Nat /\ Cardinality(T) \in Nat
  BY <1>1, <1>2, FS_CardinalityType
<1> QED
  BY <1>2, <1>3, ConsumersAssumption

LEMMA Init_LifeInv == Init => LifeInv
  BY DEF Init, LifeInv

LEMMA LifeKept ==
    ASSUME LifeInv, UNCHANGED <<lifeVars, held>>
    PROVE  LifeInv'
  BY DEF LifeInv, lifeVars

LEMMA Next_LifeInv == LifeInv /\ [Next]_vars => LifeInv'
<1> SUFFICES ASSUME LifeInv, [Next]_vars
             PROVE  LifeInv'
  OBVIOUS
<1> USE DEF LifeInv
<1>1. CASE Start
  <2>1. PICK new \in SUBSET unborn :
            /\ Cardinality(new) = NumConsumers
            /\ listed' = new
            /\ alive' = alive \cup new
            /\ unborn' = unborn \ new
    BY <1>1 DEF Start
  <2>2. shut' = shut /\ running' = TRUE /\ fresh' = fresh \cup new /\ quit' = quit
        /\ ~running
    BY <1>1, <2>1 DEF Start
  <2>3. new \subseteq alive' \cup quit' /\ alive' \cup quit' \subseteq Tasks
    BY <2>1, <2>2
  <2>4. Cardinality(new) >= NumConsumers
    BY <2>1, ConsumersAssumption
  <2>5. Cardinality(alive' \cup quit') >= NumConsumers
    BY <2>3, <2>4, MoreTasks
  <2>7. UNCHANGED held
    BY <1>1 DEF Start, taskVars
  <2>6. ASSUME shut = "draining"
        PROVE  Cardinality((alive' \cup quit') \ listed') >= NumConsumers
    <3>1. Cardinality(alive \cup quit) >= NumConsumers
      BY <2>6
    <3>2. /\ alive \cup quit \subseteq (alive' \cup quit') \ listed'
          /\ (alive' \cup quit') \ listed' \subseteq Tasks
      BY <2>1, <2>2, <2>3
    <3> QED
      BY <3>1, <3>2, MoreTasks
  <2> QED
    BY <2>1, <2>2, <2>5, <2>6, <2>7
<1>2. CASE Shutdown
  BY <1>2 DEF Shutdown, Gather, CancelListed, taskVars
<1>3. CASE StopDraining
  <2>1. alive' \cup quit' = (alive \cup quit) \ listed
    BY <1>3 DEF StopDraining, CancelListed
  <2>2. running => Cardinality(alive' \cup quit') >= NumConsumers
    BY <1>3, <2>1 DEF StopDraining, Drained
  <2> QED
    BY <1>3, <2>2 DEF StopDraining, Gather, CancelListed
<1>4. CASE FinishShutdown
  BY <1>4 DEF FinishShutdown, taskVars
<1>5. ASSUME NEW s \in Subscribers, Subscribe(s) \/ Unsubscribe(s)
      PROVE  LifeInv'
  BY <1>5, LifeKept DEF Subscribe, Unsubscribe, taskVars
<1>6. ASSUME NEW x \in Items, Emitter(x)
      PROVE  LifeInv'
  BY <1>6, LifeKept DEF Emitter, Refuse, Emit, Spawn, RunSpawned, ResumeEmit, TimeOut,
                         taskVars
<1>7. ASSUME NEW c \in Tasks, Consumer(c)
      PROVE  LifeInv'
  <2>1. ASSUME c \in alive, Quit(c), fresh' = fresh \ {c},
               UNCHANGED <<running, shut, listed, unborn>>,
               held' \in [Tasks -> Items \cup {NoItem}], held'[c] = NoItem,
               \A b \in Tasks : b # c => held'[b] = held[b]
        PROVE  LifeInv'
    <3>1. alive' \cup quit' = alive \cup quit
      BY <2>1 DEF Quit
    <3> QED
      BY <2>1, <3>1 DEF Quit
  <2>2. CASE BeginLoop(c)
    <3>1. /\ c \in fresh /\ fresh' = fresh \ {c} /\ UNCHANGED held
          /\ UNCHANGED <<running, shut, listed, unborn>>
      BY <2>2 DEF BeginLoop, taskVars
    <3>2. CASE running
      BY <2>2, <3>1, <3>2 DEF BeginLoop
    <3>3. CASE ~running
      BY <2>1, <2>2, <3>1, <3>3 DEF BeginLoop
    <3> QED
      BY <3>2, <3>3
  <2>3. CASE Take(c)
    BY <2>3 DEF Take, lifeVars
  <2>4. CASE Deliver(c)
    BY <2>4, LifeKept DEF Deliver
  <2>5. CASE Fall(c)
    <3>1. /\ c \in alive \ fresh /\ Quit(c) /\ fresh' = fresh \ {c}
          /\ UNCHANGED <<running, shut, listed, unborn>>
          /\ held' = [held EXCEPT ![c] = NoItem]
      BY <2>5 DEF Fall
    <3> QED
      BY <2>1, <3>1
  <2>6. CASE Finish(c)
    BY <2>6 DEF Finish, lifeVars
  <2> QED
    BY <1>7, <2>2, <2>3, <2>4, <2>5, <2>6 DEF Consumer
<1>8. CASE UNCHANGED vars
  BY <1>8, LifeKept DEF vars, taskVars
<1> QED
  BY <1>1, <1>2, <1>3, <1>4, <1>5, <1>6, <1>7, <1>8 DEF Next

LEMMA Next_BusInv == BusInv /\ LifeInv /\ [Next]_vars => BusInv' /\ ChannelStep
<1> SUFFICES ASSUME BusInv, LifeInv, [Next]_vars
             PROVE  BusInv' /\ ChannelStep
  OBVIOUS
<1>0. listed' \subseteq Tasks
  BY Next_LifeInv DEF LifeInv
<1>1. CASE Start
  BY <1>0, <1>1, OthersKeep DEF Start, taskVars
<1>2. CASE Shutdown
  <2>1. UNCHANGED <<queueVars, emitVars, listed>>
    BY <1>2 DEF Shutdown
  <2>2. CASE UNCHANGED taskVars
    BY <1>0, <2>1, <2>2, OthersKeep DEF taskVars
  <2>3. CASE CancelListed
    BY <2>1, <2>3, CancelKeeps
  <2> QED
    BY <1>2, <2>2, <2>3 DEF Shutdown
<1>3. CASE StopDraining
  BY <1>3, CancelKeeps DEF StopDraining
<1>4. CASE FinishShutdown
  BY <1>0, <1>4, OthersKeep DEF FinishShutdown, taskVars
<1>5. ASSUME NEW s \in Subscribers, Subscribe(s) \/ Unsubscribe(s)
      PROVE  BusInv' /\ ChannelStep
  BY <1>0, <1>5, OthersKeep DEF Subscribe, Unsubscribe, taskVars
<1>6. ASSUME NEW x \in Items, Emitter(x)
      PROVE  BusInv' /\ ChannelStep
  BY <1>6, EmitterKeeps
<1>7. ASSUME NEW c \in Tasks, Consumer(c)
      PROVE  BusInv' /\ ChannelStep
  <2>1. CASE Deliver(c)
    BY <1>0, <2>1, OthersKeep DEF Deliver
  <2>2. CASE BeginLoop(c)
    BY <1>0, <2>2, OthersKeep DEF BeginLoop, taskVars
  <2> QED
    BY <1>7, <2>1, <2>2, TakeKeeps, FallKeeps, FinishKeeps DEF Consumer
<1>8. CASE UNCHANGED vars
  BY <1>0, <1>8, OthersKeep DEF vars, taskVars
<1> QED
  BY <1>1, <1>2, <1>3, <1>4, <1>5, <1>6, <1>7, <1>8 DEF Next
-----------------------------------------------------------------------------
(***************************************************************************)
(* The walk over the subscribers.  A task that dispatches an event is at a *)
(* position of one version of the list; a version only grows, at its end,  *)
(* so the entries behind the position stay those the task has passed, and  *)
(* the ones it owes a call are behind it or still ahead.                   *)
(***************************************************************************)
Walking(c) ==
    LET list == versions[cursor[c].version] IN
    /\ cursor[c].version \in DOMAIN versions
    /\ cursor[c].next <= Len(list) + 1
    /\ owed[held[c]] \subseteq {s \in ToSet(list) : <<s, held[c]>> \in Wants}
    /\ \A i \in 1..(cursor[c].next - 1) :
          <<list[i], held[c]>> \in Wants => list[i] \in ToSet(calls[held[c]])
    /\ \A s \in ToSet(calls[held[c]]) :
          \E i \in 1..(cursor[c].next - 1) : list[i] = s

ListsInv ==
    /\ versions \in Seq(Seq(Subscribers)) /\ versions # <<>>
    /\ \A v \in DOMAIN versions : Once(versions[v])

CallsInv ==
    /\ cursor \in [Tasks -> [version : Nat \ {0}, next : Nat \ {0}]]
    /\ owed \in [Items -> SUBSET Subscribers]
    /\ calls \in [Items -> Seq(Subscribers)]
    /\ \A x \in Items :
        /\ Once(calls[x])
        /\ \A s \in ToSet(calls[x]) : <<s, x>> \in Wants
        /\ x \notin HandedOutSet => calls[x] = <<>>

WalkInv ==
    /\ ListsInv /\ CallsInv /\ NobodySkipped
    /\ \A c \in Tasks : held[c] # NoItem => Walking(c)

LEMMA HandedOutItems ==
    ASSUME BusInv
    PROVE  HandedOutSet \subseteq Items /\ done \subseteq Items /\ cut \subseteq Items
<1>1. HandedOutSet \subseteq Items
  BY LenProperties, ElementOfSeq DEF BusInv, QInv, QTypeOK, HandedOutSet
<1> QED
  BY <1>1 DEF BusInv, Dispatched

\* Steps that neither walk nor touch the lists.
LEMMA WalksKept ==
    ASSUME BusInv, BusInv', WalkInv,
           UNCHANGED <<versions, cursor, owed, calls, done>>,
           Held' \cup cut' = Held \cup cut,
           \A c \in Tasks : held'[c] \in {held[c], NoItem}
    PROVE  WalkInv'
<1>1. HandedOutSet' = HandedOutSet
  BY DEF BusInv, Dispatched
<1>2. ListsInv' /\ NobodySkipped'
  BY DEF WalkInv, ListsInv, NobodySkipped
<1>3. CallsInv'
  BY <1>1 DEF WalkInv, CallsInv
<1>4. ASSUME NEW c \in Tasks, held'[c] # NoItem PROVE Walking(c)'
  BY <1>4 DEF WalkInv, Walking
<1> QED
  BY <1>2, <1>3, <1>4 DEF WalkInv

\* A version that grows at its end, or a new version.
LEMMA ListsChange ==
    ASSUME BusInv, BusInv', WalkInv, ListsInv',
           UNCHANGED <<held, cursor, owed, calls, done, cut>>,
           DOMAIN versions \subseteq DOMAIN versions',
           \A v \in DOMAIN versions :
                /\ Len(versions[v]) <= Len(versions'[v])
                /\ \A i \in DOMAIN versions[v] : versions'[v][i] = versions[v][i]
    PROVE  WalkInv'
<1>1. HandedOutSet' = HandedOutSet
  BY DEF BusInv, Dispatched, Held
<1>2. NobodySkipped'
  BY DEF WalkInv, NobodySkipped
<1>3. CallsInv'
  BY <1>1 DEF WalkInv, CallsInv
<1>4. ASSUME NEW c \in Tasks, held'[c] # NoItem PROVE Walking(c)'
  <2> DEFINE v == cursor[c].version
             n == cursor[c].next
             old == versions[v]
             new == versions'[v]
  <2>1. Walking(c) /\ v \in DOMAIN versions /\ n <= Len(old) + 1
    BY <1>4 DEF WalkInv, Walking
  <2>2. old \in Seq(Subscribers) /\ new \in Seq(Subscribers) /\ n \in Nat \ {0}
    BY <2>1, ElementOfSeq, LenProperties DEF WalkInv, ListsInv, CallsInv
  <2>3. /\ DOMAIN old = 1..Len(old) /\ DOMAIN new = 1..Len(new)
        /\ Len(old) \in Nat /\ Len(new) \in Nat
    BY <2>2, LenProperties
  <2>4. Len(old) <= Len(new) /\ \A i \in 1..Len(old) : new[i] = old[i]
    BY <2>1, <2>3
  <2>5. ToSet(old) \subseteq ToSet(new)
    BY <2>3, <2>4 DEF ToSet
  <2>6. \A i \in 1..(n - 1) : i \in 1..Len(old)
    BY <2>1, <2>2, <2>3
  <2>7. v \in DOMAIN versions'
    BY <2>1
  <2>8. n <= Len(new) + 1
    BY <2>1, <2>2, <2>3, <2>4
  <2>9. owed[held[c]] \subseteq {s \in ToSet(new) : <<s, held[c]>> \in Wants}
    BY <2>1, <2>5 DEF Walking
  <2>10. \A i \in 1..(n - 1) :
            <<new[i], held[c]>> \in Wants => new[i] \in ToSet(calls[held[c]])
    BY <2>1, <2>4, <2>6 DEF Walking
  <2>11. \A s \in ToSet(calls[held[c]]) : \E i \in 1..(n - 1) : new[i] = s
    BY <2>1, <2>4, <2>6 DEF Walking
  <2> QED
    BY <2>7, <2>8, <2>9, <2>10, <2>11 DEF Walking
<1> QED
  BY <1>2, <1>3, <1>4 DEF WalkInv

LEMMA SubscribeWalks ==
    ASSUME BusInv, BusInv', WalkInv, NEW s \in Subscribers, Subscribe(s)
    PROVE  WalkInv'
<1> DEFINE n == Len(versions)
           grown == Append(versions[n], s)
<1>1. /\ versions \in Seq(Seq(Subscribers)) /\ versions # <<>>
      /\ \A v \in DOMAIN versions : Once(versions[v])
  BY DEF WalkInv, ListsInv
<1>2. n \in Nat \ {0} /\ DOMAIN versions = 1..n /\ n \in DOMAIN versions
  BY <1>1, LenProperties, EmptySeq
<1>3. versions[n] \in Seq(Subscribers)
  BY <1>1, <1>2, ElementOfSeq
<1>4. /\ versions' = [versions EXCEPT ![n] = grown]
      /\ s \notin ToSet(versions[n])
      /\ UNCHANGED <<held, cursor, owed, calls, done, cut>>
  BY <1>2 DEF Subscribe, taskVars
<1>5. grown \in Seq(Subscribers) /\ Once(grown)
  BY <1>1, <1>2, <1>3, <1>4, AppendSet, AppendProperties
<1>6. /\ Len(grown) = Len(versions[n]) + 1 /\ Len(versions[n]) \in Nat
      /\ \A i \in DOMAIN versions[n] : grown[i] = versions[n][i]
  BY <1>3, AppendProperties, LenProperties
<1> HIDE DEF grown
<1>7. versions' \in Seq(Seq(Subscribers)) /\ DOMAIN versions' = DOMAIN versions
  BY <1>1, <1>2, <1>4, <1>5, ExceptSeq
<1>8. ASSUME NEW v \in DOMAIN versions
      PROVE  /\ Once(versions'[v])
             /\ Len(versions[v]) <= Len(versions'[v])
             /\ \A i \in DOMAIN versions[v] : versions'[v][i] = versions[v][i]
  <2>1. CASE v = n
    BY <1>2, <1>4, <1>5, <1>6, <2>1
  <2>2. CASE v # n
    <3>1. versions'[v] = versions[v]
      BY <1>2, <1>4, <2>2
    <3>2. Len(versions[v]) \in Nat
      BY <1>1, ElementOfSeq, LenProperties
    <3> QED
      BY <1>1, <3>1, <3>2
  <2> QED
    BY <2>1, <2>2
<1>9. ListsInv'
  BY <1>2, <1>7, <1>8, EmptySeq DEF ListsInv
<1> QED
  BY <1>4, <1>7, <1>8, <1>9, ListsChange

LEMMA UnsubscribeWalks ==
    ASSUME BusInv, BusInv', WalkInv, NEW s \in Subscribers, Unsubscribe(s)
    PROVE  WalkInv'
<1> DEFINE n == Len(versions)
<1>1. /\ versions \in Seq(Seq(Subscribers)) /\ versions # <<>>
      /\ \A v \in DOMAIN versions : Once(versions[v])
  BY DEF WalkInv, ListsInv
<1>2. n \in Nat \ {0} /\ DOMAIN versions = 1..n /\ n \in DOMAIN versions
  BY <1>1, LenProperties, EmptySeq
<1>3. Current \in Seq(Subscribers) /\ Once(Current)
  BY <1>1, <1>2, ElementOfSeq DEF Current
<1>4. PICK i \in DOMAIN Current :
          versions' = Append(versions, RemoveAt(Current, i))
  BY DEF Unsubscribe
<1>5. UNCHANGED <<held, cursor, owed, calls, done, cut>>
  BY DEF Unsubscribe, taskVars
<1> DEFINE rest == RemoveAt(Current, i)
<1>6. rest \in Seq(Subscribers) /\ Once(rest)
  BY <1>3, RemoveAtSet, RemoveAtType, LenProperties
<1> HIDE DEF rest
<1>7. /\ versions' \in Seq(Seq(Subscribers))
      /\ DOMAIN versions' = 1..(n + 1) /\ versions'[n + 1] = rest
      /\ \A v \in 1..n : versions'[v] = versions[v]
  BY <1>1, <1>2, <1>4, <1>6, AppendProperties DEF rest
<1>8. ASSUME NEW v \in DOMAIN versions'
      PROVE  Once(versions'[v])
  <2>1. CASE v = n + 1
    BY <1>6, <1>7, <2>1
  <2>2. CASE v \in 1..n
    <3>1. versions'[v] = versions[v]
      BY <1>7, <2>2
    <3> QED
      BY <1>1, <1>2, <2>2, <3>1
  <2> QED
    BY <1>2, <1>7, <2>1, <2>2
<1>9. ListsInv'
  BY <1>2, <1>7, <1>8, EmptySeq DEF ListsInv
<1>10. \A v \in DOMAIN versions :
          /\ Len(versions[v]) <= Len(versions'[v])
          /\ \A j \in DOMAIN versions[v] : versions'[v][j] = versions[v][j]
  <2>1. \A v \in DOMAIN versions : Len(versions[v]) \in Nat
    BY <1>1, ElementOfSeq, LenProperties
  <2> QED
    BY <1>2, <1>7, <2>1
<1> QED
  BY <1>2, <1>5, <1>7, <1>9, <1>10, ListsChange

\* A dispatch starts with nothing called and everybody it owes still ahead.
LEMMA TakeWalks ==
    ASSUME BusInv, BusInv', WalkInv, NEW c \in Tasks, Take(c)
    PROVE  WalkInv'
<1>1. PICK x \in Items :
        /\ Get(x)
        /\ held' = [held EXCEPT ![c] = x]
        /\ owed' = [owed EXCEPT ![x] = {s \in ToSet(Current) : <<s, x>> \in Wants}]
  BY DEF Take
<1>2. /\ cursor' = [cursor EXCEPT ![c] = [version |-> Len(versions), next |-> 1]]
      /\ UNCHANGED <<versions, calls, done, cut>>
  BY DEF Take, subVars
<1>3. /\ held \in [Tasks -> Items \cup {NoItem}]
      /\ HandedOutSet = Held \cup done \cup cut
      /\ HandedOutSet' = Held' \cup done' \cup cut'
  BY DEF BusInv, Dispatched
<1>4. x \notin HandedOutSet /\ HandedOutSet' = HandedOutSet \cup {x}
  BY <1>1, GetHandsOut DEF BusInv
<1>5. x # NoItem /\ x \notin done /\ calls[x] = <<>> /\ ToSet(<<>>) = {}
  BY <1>3, <1>4, NoItemAssumption DEF WalkInv, CallsInv, ToSet
<1>6. ListsInv'
  BY <1>2 DEF WalkInv, ListsInv
<1>7. versions[Len(versions)] \in Seq(Subscribers) /\ Len(versions) \in DOMAIN versions
      /\ Len(versions) \in Nat \ {0}
  BY LenProperties, EmptySeq, ElementOfSeq DEF WalkInv, ListsInv
<1>8. ToSet(Current) \subseteq Subscribers
  BY <1>7, LenProperties, ElementOfSeq DEF Current, ToSet
<1>9. CallsInv'
  <2>1. cursor' \in [Tasks -> [version : Nat \ {0}, next : Nat \ {0}]]
    BY <1>2, <1>7 DEF WalkInv, CallsInv
  <2>2. owed' \in [Items -> SUBSET Subscribers]
    BY <1>1, <1>8 DEF WalkInv, CallsInv
  <2> QED
    BY <1>2, <1>4, <2>1, <2>2 DEF WalkInv, CallsInv
<1>10. NobodySkipped'
  BY <1>1, <1>2, <1>5 DEF WalkInv, CallsInv, NobodySkipped
<1>11. Walking(c)'
  <2>1. /\ cursor'[c].version = Len(versions) /\ cursor'[c].next = 1
        /\ held'[c] = x /\ calls'[x] = <<>>
        /\ owed'[x] = {s \in ToSet(Current) : <<s, x>> \in Wants}
    BY <1>1, <1>2, <1>3, <1>5 DEF WalkInv, CallsInv
  <2>2. Len(versions[Len(versions)]) \in Nat
    BY <1>7, LenProperties
  <2> QED
    BY <1>2, <1>5, <1>7, <2>1, <2>2 DEF Walking, Current
<1>12. ASSUME NEW b \in Tasks, b # c, held'[b] # NoItem PROVE Walking(b)'
  <2>1. held'[b] = held[b] /\ cursor'[b] = cursor[b]
    BY <1>1, <1>2, <1>3, <1>12 DEF WalkInv, CallsInv
  <2>2. held[b] # x
    BY <1>3, <1>4, <1>12, <2>1 DEF Held
  <2>3. owed'[held[b]] = owed[held[b]]
    BY <1>1, <2>2 DEF WalkInv, CallsInv
  <2> QED
    BY <1>2, <1>12, <2>1, <2>3 DEF WalkInv, Walking
<1> QED
  BY <1>6, <1>9, <1>10, <1>11, <1>12 DEF WalkInv

\* The entry a walk is at is new to the calls, since the list holds it once
\* and only entries behind the position were called.
LEMMA CallIsNew ==
    ASSUME BusInv, WalkInv, NEW c \in Tasks, held[c] # NoItem, ~AtEnd(c)
    PROVE  At(c) \in Subscribers /\ At(c) \notin ToSet(calls[held[c]])
<1> DEFINE x == held[c]
           v == cursor[c].version
           n == cursor[c].next
           list == versions[v]
<1>1. Walking(c)
  BY DEF WalkInv
<1>2. v \in DOMAIN versions /\ n \in Nat \ {0} /\ v \in Nat \ {0}
  BY <1>1 DEF Walking, WalkInv, CallsInv
<1>3. list \in Seq(Subscribers) /\ Once(list)
  BY <1>2, ElementOfSeq, LenProperties DEF WalkInv, ListsInv
<1>4. Len(list) \in Nat /\ DOMAIN list = 1..Len(list) /\ n \in 1..Len(list)
  BY <1>2, <1>3, LenProperties DEF AtEnd
<1>5. list[n] \in Subscribers
  BY <1>3, <1>4, ElementOfSeq
<1>6. list[n] \notin ToSet(calls[x])
  <2>1. SUFFICES ASSUME list[n] \in ToSet(calls[x]) PROVE FALSE
    OBVIOUS
  <2>2. PICK i \in 1..(n - 1) : list[i] = list[n]
    BY <1>1, <2>1 DEF Walking
  <2>3. i \in DOMAIN list /\ n \in DOMAIN list /\ i # n
    BY <1>2, <1>4
  <2> QED
    BY <1>3, <2>2, <2>3 DEF Once
<1> QED
  BY <1>5, <1>6 DEF At

\* One step of a walk.
LEMMA DeliverWalks ==
    ASSUME BusInv, BusInv', WalkInv, NEW c \in Tasks, Deliver(c)
    PROVE  WalkInv'
<1> DEFINE x == held[c]
           v == cursor[c].version
           n == cursor[c].next
           list == versions[v]
           s == list[n]
<1>1. /\ x # NoItem /\ ~AtEnd(c)
      /\ calls' = IF <<s, x>> \in Wants
                  THEN [calls EXCEPT ![x] = Append(@, s)] ELSE calls
      /\ cursor' = [cursor EXCEPT ![c].next = @ + 1]
      /\ UNCHANGED <<held, owed, done, cut, versions>>
  BY DEF Deliver, At, subVars
<1>2. /\ held \in [Tasks -> Items \cup {NoItem}]
      /\ \A a, b \in Tasks : held[a] = held[b] /\ held[a] # NoItem => a = b
      /\ HandedOutSet = Held \cup done \cup cut /\ Held \cap done = {}
  BY DEF BusInv, Dispatched
<1>3. x \in Items /\ x \in HandedOutSet /\ x \notin done
  BY <1>1, <1>2 DEF Held
<1>4. HandedOutSet' = HandedOutSet
  BY <1>1 DEF BusInv, Dispatched, Held
<1>5. Walking(c)
  BY <1>1 DEF WalkInv
<1>6. v \in DOMAIN versions /\ n \in Nat \ {0} /\ v \in Nat \ {0}
  BY <1>5 DEF Walking, WalkInv, CallsInv
<1>7. list \in Seq(Subscribers) /\ Once(list)
  BY <1>6, ElementOfSeq, LenProperties DEF WalkInv, ListsInv
<1>8. Len(list) \in Nat /\ DOMAIN list = 1..Len(list) /\ n \in 1..Len(list)
  BY <1>1, <1>6, <1>7, LenProperties DEF AtEnd
<1>9. s \in Subscribers /\ s \notin ToSet(calls[x])
  BY <1>1, CallIsNew DEF At
<1>11. /\ calls \in [Items -> Seq(Subscribers)] /\ calls[x] \in Seq(Subscribers)
       /\ Once(calls[x])
  BY <1>3 DEF WalkInv, CallsInv
<1> DEFINE more == Append(calls[x], s)
<1>12. /\ more \in Seq(Subscribers) /\ Once(more)
       /\ ToSet(more) = ToSet(calls[x]) \cup {s}
  BY <1>9, <1>11, AppendSet, AppendProperties
<1> HIDE DEF more
<1>13. /\ <<s, x>> \in Wants => calls' = [calls EXCEPT ![x] = more]
       /\ <<s, x>> \notin Wants => calls' = calls
  BY <1>1 DEF more
<1>14. /\ calls' \in [Items -> Seq(Subscribers)]
       /\ \A y \in Items : y # x => calls'[y] = calls[y]
       /\ <<s, x>> \in Wants => calls'[x] = more
       /\ <<s, x>> \notin Wants => calls'[x] = calls[x]
  BY <1>3, <1>11, <1>12, <1>13
<1>15. /\ cursor' \in [Tasks -> [version : Nat \ {0}, next : Nat \ {0}]]
       /\ cursor'[c].version = v /\ cursor'[c].next = n + 1
       /\ \A b \in Tasks : b # c => cursor'[b] = cursor[b]
  <2> DEFINE T == [version : Nat \ {0}, next : Nat \ {0}]
  <2>1. cursor \in [Tasks -> T] /\ cursor[c] \in T
    BY DEF WalkInv, CallsInv
  <2>2. cursor' = [cursor EXCEPT ![c] = [cursor[c] EXCEPT !.next = n + 1]]
    BY <1>1
  <2>3. [cursor[c] EXCEPT !.next = n + 1] \in T
    BY <1>6, <2>1
  <2>4. /\ [cursor[c] EXCEPT !.next = n + 1].version = v
        /\ [cursor[c] EXCEPT !.next = n + 1].next = n + 1
    BY <2>1
  <2> QED
    BY <2>1, <2>2, <2>3, <2>4
<1>15a. versions' = versions /\ held' = held
  BY <1>1
<1>16. ListsInv'
  BY <1>1 DEF WalkInv, ListsInv
<1>17. CallsInv'
  <2>1. ASSUME NEW y \in Items
        PROVE  /\ Once(calls'[y])
               /\ \A t \in ToSet(calls'[y]) : <<t, y>> \in Wants
               /\ y \notin HandedOutSet => calls'[y] = <<>>
    <3>1. CASE y = x /\ <<s, x>> \in Wants
      BY <1>3, <1>12, <1>14, <3>1 DEF WalkInv, CallsInv
    <3>2. CASE ~(y = x /\ <<s, x>> \in Wants)
      BY <1>14, <3>2 DEF WalkInv, CallsInv
    <3> QED
      BY <3>1, <3>2
  <2> QED
    BY <1>1, <1>4, <1>14, <1>15, <2>1 DEF WalkInv, CallsInv
<1>18. NobodySkipped'
  <2>1. \A y \in done : y \in Items /\ y # x
    BY <1>2, <1>3, HandedOutItems
  <2> QED
    BY <1>1, <1>14, <2>1 DEF WalkInv, NobodySkipped
<1>19. Walking(c)'
  <2>1. owed'[x] \subseteq {t \in ToSet(list) : <<t, x>> \in Wants}
    BY <1>1, <1>5 DEF Walking
  <2>2. ToSet(calls[x]) \subseteq ToSet(calls'[x])
    BY <1>12, <1>14
  <2>3. \A i \in 1..n : <<list[i], x>> \in Wants => list[i] \in ToSet(calls'[x])
    <3>1. ASSUME NEW i \in 1..n, <<list[i], x>> \in Wants
          PROVE  list[i] \in ToSet(calls'[x])
      <4>1. CASE i = n
        BY <1>12, <1>14, <3>1, <4>1
      <4>2. CASE i # n
        <5>1. i \in 1..(n - 1)
          BY <1>6, <4>2
        <5> QED
          BY <1>5, <2>2, <3>1, <5>1 DEF Walking
      <4> QED
        BY <4>1, <4>2
    <3> QED
      BY <3>1
  <2>4. \A t \in ToSet(calls'[x]) : \E i \in 1..n : list[i] = t
    <3>1. ASSUME NEW t \in ToSet(calls'[x]) PROVE \E i \in 1..n : list[i] = t
      <4>1. t \in ToSet(calls[x]) \/ t = s
        BY <1>12, <1>14, <3>1
      <4>2. CASE t = s
        BY <1>6, <4>2
      <4>3. CASE t \in ToSet(calls[x])
        <5>1. PICK i \in 1..(n - 1) : list[i] = t
          BY <1>5, <4>3 DEF Walking
        <5> QED
          BY <1>6, <5>1
      <4> QED
        BY <4>1, <4>2, <4>3
    <3> QED
      BY <3>1
  <2>5. (n + 1) - 1 = n /\ n + 1 <= Len(list) + 1
    BY <1>6, <1>8
  <2> QED
    BY <1>6, <1>15, <1>15a, <2>1, <2>3, <2>4, <2>5 DEF Walking
<1>20. ASSUME NEW b \in Tasks, b # c, held'[b] # NoItem PROVE Walking(b)'
  <2>1. held[b] # x /\ held[b] \in Items
    BY <1>1, <1>2, <1>20
  <2>2. calls'[held[b]] = calls[held[b]] /\ cursor'[b] = cursor[b]
    BY <1>14, <1>15, <1>20, <2>1
  <2>3. Walking(b) /\ held'[b] = held[b] /\ owed' = owed /\ versions' = versions
    BY <1>1, <1>20 DEF WalkInv
  <2> QED
    BY <2>2, <2>3 DEF Walking
<1> QED
  BY <1>16, <1>17, <1>18, <1>19, <1>20 DEF WalkInv

\* At the end of the list everybody owed a call is behind the position.
LEMMA FinishWalks ==
    ASSUME BusInv, BusInv', WalkInv, NEW c \in Tasks, Finish(c)
    PROVE  WalkInv'
<1> DEFINE x == held[c]
           n == cursor[c].next
           list == versions[cursor[c].version]
<1>1. /\ x # NoItem /\ AtEnd(c)
      /\ held' = [held EXCEPT ![c] = NoItem] /\ done' = done \cup {x}
      /\ UNCHANGED <<cursor, owed, calls, cut, versions>>
  BY DEF Finish, subVars
<1>2. held \in [Tasks -> Items \cup {NoItem}]
  BY DEF BusInv, Dispatched
<1>3. Held' \cup done' = Held \cup done
  BY <1>1, <1>2 DEF Held
<1>4. HandedOutSet' = HandedOutSet
  BY <1>1, <1>3 DEF BusInv, Dispatched
<1>5. Walking(c)
  BY <1>1 DEF WalkInv
<1>6. owed[x] \subseteq ToSet(calls[x])
  <2>1. list \in Seq(Subscribers) /\ n \in Nat \ {0}
    BY <1>5, ElementOfSeq, LenProperties DEF WalkInv, ListsInv, CallsInv, Walking
  <2>2. DOMAIN list = 1..Len(list) /\ Len(list) \in Nat
    BY <2>1, LenProperties
  <2>3. \A i \in 1..Len(list) : i \in 1..(n - 1)
    BY <1>1, <2>1, <2>2 DEF AtEnd
  <2> QED
    <3>1. ASSUME NEW s \in owed[x] PROVE s \in ToSet(calls[x])
      <4>1. s \in ToSet(list) /\ <<s, x>> \in Wants
        BY <1>5, <3>1 DEF Walking
      <4>2. PICK i \in 1..Len(list) : list[i] = s
        BY <2>2, <4>1 DEF ToSet
      <4> QED
        BY <1>5, <2>3, <4>1, <4>2 DEF Walking
    <3> QED
      BY <3>1
<1>7. NobodySkipped'
  BY <1>1, <1>6 DEF WalkInv, NobodySkipped
<1>8. ListsInv' /\ CallsInv'
  BY <1>1, <1>4 DEF WalkInv, ListsInv, CallsInv
<1>9. ASSUME NEW b \in Tasks, held'[b] # NoItem PROVE Walking(b)'
  <2>1. held'[b] = held[b]
    BY <1>1, <1>2, <1>9
  <2>2. Walking(b)
    BY <1>9, <2>1 DEF WalkInv
  <2> QED
    BY <1>1, <2>1, <2>2 DEF Walking
<1> QED
  BY <1>7, <1>8, <1>9 DEF WalkInv

\* A walk that a callback ends.
LEMMA FallWalks ==
    ASSUME BusInv, BusInv', WalkInv, NEW c \in Tasks, Fall(c)
    PROVE  WalkInv'
<1> DEFINE x == held[c]
           more == Append(calls[x], At(c))
<1>1. /\ x # NoItem /\ ~AtEnd(c) /\ <<At(c), x>> \in Wants
      /\ calls' = [calls EXCEPT ![x] = more]
      /\ held' = [held EXCEPT ![c] = NoItem] /\ cut' = cut \cup {x}
      /\ UNCHANGED <<cursor, owed, done, versions>>
  BY DEF Fall, subVars
<1>2. /\ held \in [Tasks -> Items \cup {NoItem}]
      /\ \A a, b \in Tasks : held[a] = held[b] /\ held[a] # NoItem => a = b
      /\ HandedOutSet = Held \cup done \cup cut /\ Held \cap done = {}
  BY DEF BusInv, Dispatched
<1>3. x \in Items /\ x \in HandedOutSet /\ x \notin done
  BY <1>1, <1>2 DEF Held
<1>4. HandedOutSet' = HandedOutSet
  <2>1. Held' \cup cut' = Held \cup cut
    BY <1>1, <1>2 DEF Held
  <2> QED
    BY <1>1, <2>1 DEF BusInv, Dispatched
<1>5. At(c) \in Subscribers /\ At(c) \notin ToSet(calls[x])
  BY <1>1, CallIsNew
<1>6. /\ calls \in [Items -> Seq(Subscribers)] /\ calls[x] \in Seq(Subscribers)
      /\ Once(calls[x])
  BY <1>3 DEF WalkInv, CallsInv
<1>7. /\ more \in Seq(Subscribers) /\ Once(more)
      /\ ToSet(more) = ToSet(calls[x]) \cup {At(c)}
  BY <1>5, <1>6, AppendSet, AppendProperties
<1> HIDE DEF more
<1>8. /\ calls' \in [Items -> Seq(Subscribers)] /\ calls'[x] = more
      /\ \A y \in Items : y # x => calls'[y] = calls[y]
  BY <1>1, <1>3, <1>6, <1>7
<1>9. ListsInv'
  BY <1>1 DEF WalkInv, ListsInv
<1>10. CallsInv'
  <2>1. ASSUME NEW y \in Items
        PROVE  /\ Once(calls'[y])
               /\ \A t \in ToSet(calls'[y]) : <<t, y>> \in Wants
               /\ y \notin HandedOutSet => calls'[y] = <<>>
    <3>1. CASE y = x
      BY <1>1, <1>3, <1>7, <1>8, <3>1 DEF WalkInv, CallsInv
    <3>2. CASE y # x
      BY <1>8, <3>2 DEF WalkInv, CallsInv
    <3> QED
      BY <3>1, <3>2
  <2> QED
    BY <1>1, <1>4, <1>8, <2>1 DEF WalkInv, CallsInv
<1>11. NobodySkipped'
  <2>1. \A y \in done : y \in Items /\ y # x
    BY <1>2, <1>3, HandedOutItems
  <2> QED
    BY <1>1, <1>8, <2>1 DEF WalkInv, NobodySkipped
<1>12. ASSUME NEW b \in Tasks, held'[b] # NoItem PROVE Walking(b)'
  <2>1. b # c /\ held'[b] = held[b]
    BY <1>1, <1>2, <1>12
  <2>2. held[b] # x /\ held[b] \in Items
    BY <1>1, <1>2, <1>12, <2>1
  <2>3. calls'[held[b]] = calls[held[b]] /\ Walking(b)
    BY <1>8, <1>12, <2>1, <2>2 DEF WalkInv
  <2> QED
    BY <1>1, <2>1, <2>3 DEF Walking
<1> QED
  BY <1>9, <1>10, <1>11, <1>12 DEF WalkInv

LEMMA Init_WalkInv == Init => WalkInv
<1> SUFFICES ASSUME Init PROVE WalkInv
  OBVIOUS
<1>1. Once(<<>>) /\ ToSet(<<>>) = {} /\ <<>> \in Seq(Subscribers)
  BY EmptySeq DEF Once, ToSet
<1>2. ListsInv
  BY <1>1, EmptySeq DEF Init, ListsInv
<1>3. CallsInv
  BY <1>1 DEF Init, CallsInv
<1> QED
  BY <1>2, <1>3 DEF Init, WalkInv, NobodySkipped

LEMMA Next_WalkInv == BusInv /\ LifeInv /\ WalkInv /\ [Next]_vars => WalkInv'
<1> SUFFICES ASSUME BusInv, LifeInv, WalkInv, [Next]_vars
             PROVE  WalkInv'
  OBVIOUS
<1>0. BusInv'
  BY Next_BusInv
<1>1. ASSUME CancelListed, UNCHANGED versions PROVE WalkInv'
  <2>1. /\ UNCHANGED <<cursor, owed, calls, done>>
        /\ cut' = cut \cup ({held[c] : c \in listed} \ {NoItem})
        /\ held' = [c \in Tasks |-> IF c \in listed THEN NoItem ELSE held[c]]
    BY <1>1 DEF CancelListed
  <2>2. Held' \cup cut' = Held \cup cut
    BY <2>1 DEF LifeInv, Held
  <2>3. \A c \in Tasks : held'[c] \in {held[c], NoItem}
    BY <2>1
  <2> QED
    BY <1>0, <1>1, <2>1, <2>2, <2>3, WalksKept
<1>2. ASSUME UNCHANGED <<versions, taskVars>> PROVE WalkInv'
  BY <1>0, <1>2, WalksKept DEF taskVars, Held
<1>3. CASE Start \/ FinishShutdown \/ UNCHANGED vars
  BY <1>2, <1>3 DEF Start, FinishShutdown, subVars, vars
<1>4. CASE Shutdown \/ StopDraining
  BY <1>1, <1>2, <1>4 DEF Shutdown, StopDraining, subVars
<1>5. ASSUME NEW s \in Subscribers, Subscribe(s) \/ Unsubscribe(s)
      PROVE  WalkInv'
  BY <1>0, <1>5, SubscribeWalks, UnsubscribeWalks
<1>6. ASSUME NEW x \in Items, Emitter(x)
      PROVE  WalkInv'
  BY <1>2, <1>6 DEF Emitter, Refuse, Emit, Spawn, RunSpawned, ResumeEmit, TimeOut,
                    subVars
<1>7. ASSUME NEW c \in Tasks, Consumer(c)
      PROVE  WalkInv'
  <2>1. CASE BeginLoop(c)
    BY <1>2, <2>1 DEF BeginLoop, subVars
  <2> QED
    BY <1>0, <1>7, <2>1, TakeWalks, DeliverWalks, FallWalks, FinishWalks DEF Consumer
<1> QED
  BY <1>3, <1>4, <1>5, <1>6, <1>7 DEF Next
-----------------------------------------------------------------------------
LEMMA BusInv_Accounted == BusInv => EventsAccounted
<1> SUFFICES ASSUME BusInv PROVE EventsAccounted
  OBVIOUS
<1> USE DEF BusInv
<1>1. Cardinality(Accepted) = Len(entered)
  BY OnceCardinality DEF Accepted, QInv, QTypeOK, Places
<1>2. HandedOut = HandedOutSet
  BY HandedOutBySubSeq DEF HandedOut, QInv
<1>3. ASSUME NEW x \in Items
      PROVE
        /\ answer[x] \in {"none", "raised", "false"} =>
              x \notin Accepted \cup spawned /\ ~Putting(x)
        /\ answer[x] = "waiting" =>
              x \notin Accepted /\ (x \in spawned <=> ~Putting(x))
        /\ answer[x] = "true" /\ x \notin NoWait => x \in Accepted
  BY PuttingIsParked DEF Told, Accepted
<1> QED
  BY <1>1, <1>2, <1>3 DEF EventsAccounted, Dispatched

\* Emitters are told the truth, and no event is lost, doubled or dispatched by
\* two consumers, however timeouts, consumers, start() and shutdown() race.
THEOREM EventsCorrect == Spec => []EventsAccounted
<1>1. Init => BusInv /\ LifeInv
  BY Init_BusInv, Init_LifeInv
<1>2. BusInv /\ LifeInv /\ [Next]_vars => BusInv' /\ LifeInv'
  BY Next_BusInv, Next_LifeInv
<1> QED
  BY <1>1, <1>2, BusInv_Accounted, PTL DEF Spec

\* Whatever calls of start() and shutdown() overlap, a running bus has all its
\* consumers but for those whose loop ended by itself.
THEOREM ConsumersCorrect == Spec => []RunningHasConsumer
<1>1. LifeInv => RunningHasConsumer
  BY DEF LifeInv, RunningHasConsumer
<1> QED
  BY <1>1, Init_LifeInv, Next_LifeInv, PTL DEF Spec

\* The queue inside the bus is still a bounded FIFO channel.
THEOREM BusImplementsChannel == Spec => ImplementsChannel
<1>1. Init => BusInv /\ LifeInv
  BY Init_BusInv, Init_LifeInv
<1>2. Init => Channel!Init
  BY DEF Init, QInit, Channel!Init
<1>3. BusInv /\ LifeInv /\ [Next]_vars => BusInv' /\ LifeInv'
  BY Next_BusInv, Next_LifeInv
<1>4. BusInv /\ LifeInv /\ [Next]_vars => [Channel!Next]_(Channel!vars)
  BY Next_BusInv DEF ChannelStep
<1> QED
  BY <1>1, <1>2, <1>3, <1>4, PTL DEF Spec, ImplementsChannel, Channel!Spec

\* However subscribe() and unsubscribe() interleave with the dispatches, a
\* finished dispatch has called everybody it owed a call.
THEOREM DispatchReachesAll == Spec => []NobodySkipped
<1>1. Init => BusInv /\ LifeInv /\ WalkInv
  BY Init_BusInv, Init_LifeInv, Init_WalkInv
<1>2. BusInv /\ LifeInv /\ WalkInv /\ [Next]_vars => BusInv' /\ LifeInv' /\ WalkInv'
  BY Next_BusInv, Next_LifeInv, Next_WalkInv
<1>3. WalkInv => NobodySkipped
  BY DEF WalkInv
<1> QED
  BY <1>1, <1>2, <1>3, PTL DEF Spec

\* No callback gets an event twice or one it did not ask for, whatever number
\* of consumers dispatch side by side.
THEOREM CallbacksCalledOnce == Spec => []CalledOnce
<1>1. Init => BusInv /\ LifeInv /\ WalkInv
  BY Init_BusInv, Init_LifeInv, Init_WalkInv
<1>2. BusInv /\ LifeInv /\ WalkInv /\ [Next]_vars => BusInv' /\ LifeInv' /\ WalkInv'
  BY Next_BusInv, Next_LifeInv, Next_WalkInv
<1>3. WalkInv => CalledOnce
  BY OnceCardinality DEF WalkInv, CallsInv, CalledOnce
<1> QED
  BY <1>1, <1>2, <1>3, PTL DEF Spec

\* The types of the bus hold for any number of starts, events and subscribers.
THEOREM BusTypeCorrect == Spec => []BusTypeOK
<1>1. Init => BusInv /\ LifeInv /\ WalkInv
  BY Init_BusInv, Init_LifeInv, Init_WalkInv
<1>2. BusInv /\ LifeInv /\ WalkInv /\ [Next]_vars => BusInv' /\ LifeInv' /\ WalkInv'
  BY Next_BusInv, Next_LifeInv, Next_WalkInv
<1>3. BusInv /\ LifeInv /\ WalkInv => BusTypeOK
  <2> SUFFICES ASSUME BusInv, LifeInv, WalkInv PROVE BusTypeOK
    OBVIOUS
  <2>1. done \subseteq Items /\ cut \subseteq Items
    BY HandedOutItems
  <2> QED
    BY <2>1 DEF BusTypeOK, BusInv, LifeInv, WalkInv, ListsInv, CallsInv, Told, Dispatched
<1> QED
  BY <1>1, <1>2, <1>3, PTL DEF Spec
=============================================================================
