----------------------------- MODULE AsyncQueue -----------------------------
(***************************************************************************)
(* InMemoryAsyncQueue, backend/infrastructure/queue/memory.py, on top of   *)
(* asyncio.Queue.  A put on a full queue parks its task on a list of       *)
(* putters; a get wakes the first of them, which still has to run: until   *)
(* it does, another task may take the freed slot, and the woken putter     *)
(* goes back to the end of the list.  Every item is put by one call, so a  *)
(* parked or woken task is named by its item.                              *)
(***************************************************************************)
EXTENDS Integers, Sequences, SequencesExt

CONSTANTS
    Items,      \* what is put, each by one call
    MaxSize     \* maxsize, 0 for unlimited

ASSUME MaxSizeAssumption == MaxSize \in Nat

VARIABLES
    queue,      \* asyncio.Queue._queue
    waiting,    \* asyncio.Queue._putters: tasks parked in put()
    woken,      \* putters that were woken and have not run yet
    entered,    \* history: the items that got into the queue, in order
    left        \* history: how many items were taken out

queueVars == <<queue, waiting, woken, entered, left>>

QInit ==
    /\ queue = <<>> /\ waiting = <<>> /\ woken = <<>>
    /\ entered = <<>> /\ left = 0

\* An off-by-one in full(): one item too many gets in (mutant).
FullOffByOne == MaxSize > 0 /\ Len(queue) > MaxSize

\* full(), qsize() >= maxsize
Full == MaxSize > 0 /\ Len(queue) >= MaxSize

Empty == queue = <<>>

Enter(x) ==
    /\ queue' = Append(queue, x)
    /\ entered' = Append(entered, x)

\* _wakeup_next(self._putters)
WakeNext ==
    IF waiting = <<>> THEN UNCHANGED <<waiting, woken>>
    ELSE /\ waiting' = Tail(waiting)
         /\ woken' = Append(woken, Head(waiting))

\* A put, blocking or not, that finds room.
Put(x) ==
    /\ ~Full
    /\ Enter(x)
    /\ UNCHANGED <<waiting, woken, left>>

\* A blocking put on a full queue.
Park(x) ==
    /\ Full
    /\ waiting' = Append(waiting, x)
    /\ UNCHANGED <<queue, woken, entered, left>>

\* A woken putter runs: it puts its item, or finds the slot gone.
Resume(x) ==
    /\ woken # <<>> /\ x = Head(woken)
    /\ woken' = Tail(woken)
    /\ \/ /\ ~Full
          /\ Enter(x)
          /\ UNCHANGED waiting
       \/ /\ Full
          /\ waiting' = Append(waiting, x)
          /\ UNCHANGED <<queue, entered>>
    /\ UNCHANGED left

\* A cancelled woken putter forgets to pass its wake-up on (mutant).
AbandonSilently(x) ==
    /\ \/ /\ \E i \in DOMAIN waiting :
                waiting[i] = x /\ waiting' = RemoveAt(waiting, i)
          /\ UNCHANGED woken
       \/ /\ woken # <<>> /\ x = Head(woken)
          /\ woken' = Tail(woken)
          /\ UNCHANGED waiting
    /\ UNCHANGED <<queue, entered, left>>

\* wait_for() gives up on a put: a parked task leaves the list; a woken one,
\* when its turn comes, passes its wake-up on if there is room.
Abandon(x) ==
    /\ \/ /\ \E i \in DOMAIN waiting :
                waiting[i] = x /\ waiting' = RemoveAt(waiting, i)
          /\ UNCHANGED woken
       \/ /\ woken # <<>> /\ x = Head(woken)
          /\ IF Full \/ waiting = <<>>
             THEN woken' = Tail(woken) /\ UNCHANGED waiting
             ELSE /\ woken' = Append(Tail(woken), Head(waiting))
                  /\ waiting' = Tail(waiting)
    /\ UNCHANGED <<queue, entered, left>>

\* The item is handed out and stays in the queue (mutant).
GetPeeks(x) ==
    /\ queue # <<>> /\ x = Head(queue)
    /\ left' = left + 1
    /\ WakeNext
    /\ UNCHANGED <<queue, entered>>

\* A consumer takes the first item and wakes the first putter.
Get(x) ==
    /\ queue # <<>> /\ x = Head(queue)
    /\ queue' = Tail(queue)
    /\ left' = left + 1
    /\ WakeNext
    /\ UNCHANGED entered
-----------------------------------------------------------------------------
(***************************************************************************)
(* The queue on its own, with callers that put each item at most once, may *)
(* give up, and consumers that take whatever comes.                        *)
(***************************************************************************)
Called(x) ==
    \E s \in {waiting, woken, entered} : \E i \in DOMAIN s : s[i] = x

\* put() with no room waits, put_nowait() raises QueueFull and changes nothing.
QNext ==
    \E x \in Items :
        \/ ~Called(x) /\ (Put(x) \/ Park(x))
        \/ Resume(x)
        \/ Abandon(x)
        \/ Get(x)

QSpec == QInit /\ [][QNext]_queueVars

\* The event loop runs every ready task, and consumers keep consuming.
QFairSpec ==
    QSpec /\ \A x \in Items : WF_queueVars(Resume(x)) /\ WF_queueVars(Get(x))
-----------------------------------------------------------------------------
QTypeOK ==
    /\ queue \in Seq(Items) /\ waiting \in Seq(Items) /\ woken \in Seq(Items)
    /\ entered \in Seq(Items)
    /\ left \in 0..Len(entered)

\* No wake-up is lost: while putters are parked, every free slot has a woken
\* putter on its way to it, whatever was cancelled, overtaken or taken out in
\* between.  In particular nobody is parked beside a free slot for ever.
NoLostWakeup ==
    MaxSize > 0 /\ waiting # <<>> => MaxSize - Len(queue) <= Len(woken)

\* The queue holds exactly the items that entered and were not handed out.
Contents == queue = SubSeq(entered, left + 1, Len(entered))

\* The queue never holds more than maxsize items, not even when several woken
\* putters and a newcomer race for one slot.
Bounded == MaxSize > 0 => Len(queue) <= MaxSize

QueueInv == Contents /\ Bounded /\ NoLostWakeup

Channel == INSTANCE FifoChannel
ImplementsChannel == Channel!Spec

Putting(x) == \E s \in {waiting, woken} : \E i \in DOMAIN s : s[i] = x

\* While consumers keep consuming every put ends, even one that loses its slot
\* to later callers again and again: there is no starvation by overtaking.
EveryPutEnds == \A x \in Items : Putting(x) ~> ~Putting(x)
=============================================================================
