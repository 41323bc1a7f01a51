----------------------------- MODULE MemorySync -----------------------------
(***************************************************************************)
(* The SyncManager of one browser page: operations on memories wait in a   *)
(* queue in localStorage, are merged per memory, and are sent in batches.  *)
(* A flush reads the queue, awaits the server and then overwrites the      *)
(* queue with what is to be retried; the page may be reloaded meanwhile.   *)
(*                                                                         *)
(* An item is known by its place, the number of the call that opened it: a *)
(* merge keeps the place, a retry too, so the queue is in the order of the *)
(* places.  Its content is the number of the call the content came with.   *)
(* The endpoint /api/memory/sync is not part of the repository.            *)
(***************************************************************************)
EXTENDS FiniteSets, Integers

CONSTANTS
    Memories,
    MaxOps,         \* bound: calls of queueOperation
    MaxQueueSize,   \* maxQueueSize
    Retries         \* retryDelays.length

ASSUME MemorySyncAssumption ==
    MaxOps \in Nat /\ MaxQueueSize \in Nat \ {0} /\ Retries \in Nat

Types == {"SAVE", "UPDATE", "DELETE"}
Outcomes == {"success", "conflict", "failure"}

NoResults == <<>>

VARIABLES
    queue,          \* STORAGE_KEY in localStorage: a set of items
    online,         \* isOnline
    timer,          \* a retry is scheduled
    flight,         \* what flushQueue() has read and awaits: {} if no flush
    results,        \* what the server made of it
    calls,          \* number of calls of queueOperation
    local,          \* memories that exist for the user
    settled,        \* history: operations superseded, dropped, applied or given up
    overlapped,     \* history: operations queued while a flush was under way
    known,          \* history: memories that were answered, given up or dropped,
                    \* or queued while a flush was under way
    stranded        \* history: the queue was left behind by a reload or a bad reply

pageVars == <<online, timer, flight, results>>
historyVars == <<settled, overlapped, known, stranded>>
vars == <<queue, pageVars, calls, local, historyVars>>

Flushing == flight # {}
Contents(items) == {i.content : i \in items}
MemoriesOf(items) == {i.memory : i \in items}
Of(m, items) == {i \in items : i.memory = m}

\* flushQueue() up to its await: nothing is taken out of the queue yet.
StartFlush(q, up) ==
    IF up /\ ~Flushing /\ q # {}
    THEN flight' = q /\ stranded' = FALSE
    ELSE UNCHANGED <<flight, stranded>>
-----------------------------------------------------------------------------
\* A creation that is not sent yet is forgotten when it is updated (mutant).
MergedLatest(item, op) ==
    [op EXCEPT !.place = item.place,
               !.type = IF "DELETE" \in {item.type, op.type} THEN "DELETE" ELSE @]

\* How an operation is merged into the item of the same memory.
Merged(item, op) ==
    [op EXCEPT !.place = item.place,
               !.type = IF "DELETE" \in {item.type, op.type} THEN "DELETE"
                        ELSE IF item.type = "SAVE" THEN "SAVE" ELSE @]

\* A full queue drops its oldest item that was never retried, if it has one.
Full == Cardinality(queue) >= MaxQueueSize
Untried == {i \in queue : i.retries = 0}
Dropped ==
    IF Full THEN {i \in Untried : \A j \in Untried : i.place <= j.place} ELSE {}

\* The queue with op in it.
Queued(op) ==
    LET kept == queue \ Dropped
        same == Of(op.memory, kept) IN
    IF same = {} THEN kept \cup {op}
    ELSE (kept \ same) \cup {Merged(i, op) : i \in same}

\* A user creates a memory before changing or deleting it.
Call(m, type) ==
    /\ calls < MaxOps /\ calls' = calls + 1
    /\ type = "SAVE" <=> m \notin local
    /\ local' = IF type = "DELETE" THEN local \ {m} ELSE local \cup {m}

\* queueOperation(), called by queueSave, queueUpdate and queueDelete.
QueueOperation(m, type) ==
    LET op == [memory |-> m, type |-> type, retries |-> 0,
               content |-> calls + 1, place |-> calls + 1] IN
    /\ Call(m, type)
    /\ ~Full \/ Untried # {}
    /\ queue' = Queued(op)
    /\ StartFlush(queue', online)
    /\ settled' = settled \cup Contents(Of(m, queue) \cup Dropped)
    /\ overlapped' = IF Flushing THEN overlapped \cup {calls'} ELSE overlapped
    /\ known' = known \cup MemoriesOf(Dropped) \cup (IF Flushing THEN {m} ELSE {})
    /\ UNCHANGED <<online, timer, results>>

\* queueOperation() throws: nothing is queued.
QueueIsFull(m, type) ==
    /\ Call(m, type)
    /\ Full /\ Untried = {}
    /\ settled' = settled \cup {calls'}
    /\ known' = known \cup {m}
    /\ UNCHANGED <<queue, pageVars, overlapped, stranded>>

\* The network comes back, and nobody starts a flush (mutant).
GoOnlineOnly ==
    /\ ~online /\ online' = TRUE
    /\ UNCHANGED <<queue, timer, flight, results, calls, local, historyVars>>

\* The 'online' and 'offline' events of the window.
GoOnline ==
    /\ ~online /\ online' = TRUE
    /\ StartFlush(queue, TRUE)
    /\ UNCHANGED <<queue, timer, results, calls, local, settled, overlapped, known>>

GoOffline ==
    /\ online /\ online' = FALSE
    /\ UNCHANGED <<queue, timer, flight, results, calls, local, historyVars>>

\* The retry that scheduleRetry() planned.
RetryTimer ==
    /\ timer /\ timer' = FALSE
    /\ StartFlush(queue, online)
    /\ UNCHANGED <<queue, online, results, calls, local, settled, overlapped, known>>
-----------------------------------------------------------------------------
\* The server handles the batch: operations succeed, conflict or fail.
ServerHandles ==
    /\ Flushing /\ results = NoResults
    /\ results' \in [flight -> Outcomes]
    /\ settled' = settled \cup Contents({i \in flight : results'[i] = "success"})
    /\ UNCHANGED <<queue, online, timer, flight, calls, local, overlapped, known, stranded>>

\* The last retry is not made (mutant).
TooFewTries(item) == item.retries + 1 < Retries

\* A failed operation that is tried again.
MayRetry(item) == item.retries < Retries

\* A retry is not counted (mutant).
RetryUncounted(item) == item

Retry(item) == [item EXCEPT !.retries = @ + 1]

\* flushQueue() from its await on; failed are the items whose result is neither
\* a success nor a conflict.  The queue is overwritten with what is tried again.
FinishFlush(failed) ==
    LET over == (flight \ failed) \cup {i \in failed : i.retries >= Retries} IN
    /\ queue' = {Retry(i) : i \in {j \in failed : MayRetry(j)}}
    /\ timer' = (timer \/ queue' # {})
    /\ settled' = settled \cup Contents(over)
    /\ known' = known \cup MemoriesOf(over)
    /\ flight' = {} /\ results' = NoResults
    /\ UNCHANGED <<online, calls, local, overlapped, stranded>>

\* The answer arrives.
BatchAnswered ==
    /\ Flushing /\ results # NoResults
    /\ FinishFlush({i \in flight : results[i] = "failure"})

\* The request or its answer is lost, or the status is not ok: every operation
\* counts as failed, also those the server has applied.
BatchFailed == Flushing /\ FinishFlush(flight)

\* An answer without a result for every operation: the exception is logged, the
\* queue stays and no retry is scheduled.
BatchMalformed ==
    /\ Flushing /\ results # NoResults
    /\ flight' = {} /\ results' = NoResults
    /\ stranded' = TRUE
    /\ UNCHANGED <<queue, online, timer, calls, local, settled, overlapped, known>>

\* The page is reloaded: the queue is in localStorage, nothing sends it.
Reload ==
    /\ timer' = FALSE /\ flight' = {} /\ results' = NoResults
    /\ stranded' = (queue # {})
    /\ UNCHANGED <<queue, online, calls, local, settled, overlapped, known>>
-----------------------------------------------------------------------------
Init ==
    /\ queue = {} /\ online \in BOOLEAN /\ timer = FALSE
    /\ flight = {} /\ results = NoResults
    /\ calls = 0 /\ local = {}
    /\ settled = {} /\ overlapped = {} /\ known = {} /\ stranded = FALSE

Flush == BatchAnswered \/ BatchFailed \/ BatchMalformed

Next ==
    \/ \E m \in Memories, type \in Types : QueueOperation(m, type) \/ QueueIsFull(m, type)
    \/ GoOnline \/ GoOffline \/ RetryTimer \/ Reload
    \/ ServerHandles \/ Flush

Spec == Init /\ [][Next]_vars

\* A fetch comes to an end, and timers fire.
FairSpec == Spec /\ WF_vars(Flush) /\ WF_vars(RetryTimer)
-----------------------------------------------------------------------------
Pending == Contents(queue) \cup Contents(flight)

\* An operation that was queued while no flush was under way is not lost: it is
\* in the queue or in the batch under way, unless the server has answered it, it
\* was tried often enough, a newer operation replaced it or a full queue
\* dropped it.  Reloads, lost answers and bad answers do not change that.
NothingLost == 1..calls \subseteq Pending \cup settled \cup overlapped

\* While the page is online, a queue that is not empty has a flush under way or
\* a retry scheduled, unless a reload or a bad answer has left it behind.
PendingIsDriven ==
    online /\ queue # {} => Flushing \/ timer \/ stranded

\* The server is sent an UPDATE only for a memory whose creation was answered or
\* given up before, or was dropped or could be overwritten: merging and retrying
\* never turn the creation of a memory into its update.
UpdateFollowsSave ==
    \A i \in flight : i.type = "UPDATE" => i.memory \in known

\* Whatever the server answers, an operation leaves the queue in the end, unless
\* the page goes offline or the queue is left behind.
Drains ==
    \A n \in 1..MaxOps :
        n \in Contents(queue) ~> n \notin Contents(queue) \/ ~online \/ stranded
=============================================================================
