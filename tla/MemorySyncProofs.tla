-------------------------- MODULE MemorySyncProofs --------------------------
(***************************************************************************)
(* What MemorySync promises for every number of memories, operations,      *)
(* retries and places in the queue.  The three invariants have strengthenings *)
(* of their own, all of them over well-typed items.                        *)
(***************************************************************************)
EXTENDS MemorySync, TLAPS

Items == [memory : Memories, type : Types, retries : Nat, content : Nat, place : Nat]

Typed ==
    /\ queue \in SUBSET Items
    /\ flight \in SUBSET Items
    /\ calls \in Nat
-----------------------------------------------------------------------------
\* What a merge and a retry make of an item.
LEMMA MergedItem ==
    ASSUME NEW i \in Items, NEW op \in Items
    PROVE  /\ Merged(i, op) \in Items
           /\ Merged(i, op).memory = op.memory
           /\ Merged(i, op).content = op.content
           /\ Merged(i, op).type \in {"SAVE", "DELETE", op.type}
           /\ i.type # "UPDATE" => Merged(i, op).type # "UPDATE"
BY DEF Merged, Items, Types

LEMMA RetryItem ==
    ASSUME NEW i \in Items
    PROVE  /\ Retry(i) \in Items
           /\ Retry(i).memory = i.memory
           /\ Retry(i).content = i.content
           /\ Retry(i).type = i.type
BY DEF Retry, Items

\* The operation a call of queueOperation makes.
Operation(m, type) == [memory |-> m, type |-> type, retries |-> 0,
                       content |-> calls + 1, place |-> calls + 1]

LEMMA OperationItem ==
    ASSUME Typed, NEW m \in Memories, NEW type \in Types
    PROVE  Operation(m, type) \in Items
BY DEF Typed, Operation, Items

\* What queueOperation leaves in the queue: the items it neither dropped nor
\* merged, and the operation itself or what it was merged into.
LEMMA QueuedItems ==
    ASSUME Typed, NEW op \in Items
    PROVE  /\ Queued(op) \in SUBSET Items
           /\ \A i \in queue \ (Of(op.memory, queue) \cup Dropped) : i \in Queued(op)
           /\ \A i \in Queued(op) :
                \/ i \in queue \ (Of(op.memory, queue) \cup Dropped)
                \/ i = op /\ Of(op.memory, queue) \subseteq Dropped
                \/ \E j \in Of(op.memory, queue) \ Dropped : i = Merged(j, op)
           /\ Of(op.memory, queue) \subseteq Dropped => op \in Queued(op)
           /\ \A j \in Of(op.memory, queue) \ Dropped : Merged(j, op) \in Queued(op)
           /\ op.content \in Contents(Queued(op))
<1> DEFINE kept == queue \ Dropped
           same == Of(op.memory, kept)
<1>1. same = Of(op.memory, queue) \ Dropped
  BY DEF Of
<1>2. CASE same = {}
  <2>1. Queued(op) = kept \cup {op}
    BY <1>2 DEF Queued
  <2> QED BY <1>1, <1>2, <2>1 DEF Typed, Contents
<1>3. CASE same # {}
  <2>1. Queued(op) = (kept \ same) \cup {Merged(i, op) : i \in same}
    BY <1>3 DEF Queued
  <2>2. \A i \in same : Merged(i, op) \in Items /\ Merged(i, op).content = op.content
    BY <1>1, MergedItem DEF Typed, Of
  <2>3. op.content \in Contents(Queued(op))
    <3>1. PICK i \in same : TRUE
      BY <1>3
    <3>2. Merged(i, op) \in Queued(op) /\ Merged(i, op).content = op.content
      BY <2>1, <2>2
    <3> HIDE DEF same
    <3> QED BY <3>2 DEF Contents
  <2> QED BY <1>1, <1>3, <2>1, <2>2, <2>3 DEF Typed
<1> QED BY <1>2, <1>3
-----------------------------------------------------------------------------
LEMMA InitTyped == Init => Typed
BY DEF Init, Typed

LEMMA NextTyped == Typed /\ [Next]_vars => Typed'
<1> SUFFICES ASSUME Typed, [Next]_vars PROVE Typed'
  OBVIOUS
<1>1. ASSUME NEW m \in Memories, NEW type \in Types, QueueOperation(m, type) PROVE Typed'
  <2>1. queue' = Queued(Operation(m, type)) /\ calls' = calls + 1
    BY <1>1 DEF QueueOperation, Operation, Call
  <2>2. queue' \in SUBSET Items
    BY <2>1, QueuedItems, OperationItem
  <2>3. flight' \in {queue', flight}
    BY <1>1 DEF QueueOperation, StartFlush
  <2> QED BY <2>1, <2>2, <2>3 DEF Typed
<1>2. ASSUME NEW m \in Memories, NEW type \in Types, QueueIsFull(m, type) PROVE Typed'
  BY <1>2 DEF QueueIsFull, Call, pageVars, Typed
<1>3. ASSUME NEW failed \in SUBSET flight, FinishFlush(failed) PROVE Typed'
  BY <1>3, RetryItem DEF FinishFlush, Typed
<1>4. CASE GoOnline \/ RetryTimer
  BY <1>4 DEF GoOnline, RetryTimer, StartFlush, Typed
<1>5. CASE GoOffline \/ ServerHandles \/ BatchMalformed \/ Reload \/ UNCHANGED vars
  BY <1>5 DEF GoOffline, ServerHandles, BatchMalformed, Reload, vars, pageVars, historyVars, Typed
<1>6. CASE BatchAnswered
  BY <1>3, <1>6 DEF BatchAnswered
<1>7. CASE BatchFailed
  BY <1>3, <1>7 DEF BatchFailed
<1> QED BY <1>1, <1>2, <1>4, <1>5, <1>6, <1>7 DEF Next, Flush

\* The queue and the batch are sets of well-formed items.
THEOREM SyncTypeCorrect == Spec => []Typed
BY InitTyped, NextTyped, PTL DEF Spec
-----------------------------------------------------------------------------
\* While the page is online a queue that is not empty is being sent or waits
\* for a retry, unless a reload or a bad answer has left it behind.
THEOREM PendingDriven == Spec => []PendingIsDriven
<1>1. Init => PendingIsDriven
  BY DEF Init, PendingIsDriven
<1>2. PendingIsDriven /\ [Next]_vars => PendingIsDriven'
  <2> SUFFICES ASSUME PendingIsDriven, [Next]_vars PROVE PendingIsDriven'
    OBVIOUS
  <2>1. ASSUME NEW m \in Memories, NEW type \in Types, QueueOperation(m, type)
        PROVE  PendingIsDriven'
    BY <2>1 DEF QueueOperation, StartFlush, Flushing, PendingIsDriven
  <2>2. ASSUME NEW m \in Memories, NEW type \in Types, QueueIsFull(m, type)
        PROVE  PendingIsDriven'
    BY <2>2 DEF QueueIsFull, pageVars, Flushing, PendingIsDriven
  <2>3. ASSUME NEW failed, FinishFlush(failed) PROVE PendingIsDriven'
    BY <2>3 DEF FinishFlush, Flushing, PendingIsDriven
  <2>4. CASE GoOnline \/ RetryTimer
    BY <2>4 DEF GoOnline, RetryTimer, StartFlush, Flushing, PendingIsDriven
  <2>5. CASE GoOffline \/ ServerHandles \/ BatchMalformed \/ Reload \/ UNCHANGED vars
    BY <2>5 DEF GoOffline, ServerHandles, BatchMalformed, Reload, vars, pageVars,
                historyVars, Flushing, PendingIsDriven
  <2>6. CASE BatchAnswered \/ BatchFailed
    BY <2>3, <2>6 DEF BatchAnswered, BatchFailed
  <2> QED BY <2>1, <2>2, <2>4, <2>5, <2>6 DEF Next, Flush
<1> QED BY <1>1, <1>2, PTL DEF Spec
-----------------------------------------------------------------------------
\* Where the contents are: what a flush has read is in the stored queue or
\* settled, and what was queued since then counts as overlapped.
Accounting ==
    /\ NothingLost
    /\ Contents(flight) \subseteq Contents(queue) \cup settled
    /\ Flushing => Contents(queue) \subseteq Contents(flight) \cup overlapped \cup settled

LEMMA AccountingQueue ==
    ASSUME Typed, Accounting, NEW m \in Memories, NEW type \in Types,
           QueueOperation(m, type)
    PROVE  Accounting'
<1> DEFINE op == Operation(m, type)
           gone == Of(m, queue) \cup Dropped
<1>1. /\ queue' = Queued(op) /\ calls' = calls + 1
      /\ settled' = settled \cup Contents(gone)
      /\ overlapped' = IF Flushing THEN overlapped \cup {calls + 1} ELSE overlapped
  BY DEF QueueOperation, Operation, Call
<1>2. op \in Items /\ op.memory = m /\ op.content = calls + 1
  BY OperationItem DEF Operation
<1>3. Contents(queue) \subseteq Contents(queue') \cup settled'
  <2> SUFFICES ASSUME NEW i \in queue PROVE i.content \in Contents(queue') \cup settled'
    BY DEF Contents
  <2>1. CASE i \in gone
    BY <1>1, <2>1 DEF Contents
  <2>2. CASE i \notin gone
    <3>1. i \in queue'
      BY <1>1, <1>2, <2>2, QueuedItems
    <3> QED BY <3>1 DEF Contents
  <2> QED BY <2>1, <2>2
<1>4. Contents(queue') \subseteq Contents(queue) \cup {calls + 1}
  <2> SUFFICES ASSUME NEW i \in queue' PROVE i.content \in Contents(queue) \cup {calls + 1}
    BY DEF Contents
  <2>1. i \in queue \/ i = op \/ \E j \in Of(m, queue) : i = Merged(j, op)
    BY <1>1, <1>2, QueuedItems
  <2>2. ASSUME NEW j \in Of(m, queue), i = Merged(j, op) PROVE i.content = calls + 1
    <3>1. j \in Items
      BY DEF Of, Typed
    <3> QED BY <1>2, <2>2, <3>1, MergedItem
  <2> QED BY <1>2, <2>1, <2>2 DEF Contents
<1>5. calls + 1 \in Contents(queue')
  BY <1>1, <1>2, QueuedItems
<1>6. \/ flight' = flight
      \/ flight = {} /\ flight' = queue'
  BY DEF QueueOperation, StartFlush, Flushing
<1>7. NothingLost'
  <2>1. 1..calls' = 1..calls \cup {calls + 1}
    BY <1>1 DEF Typed
  <2>2. Contents(flight) \subseteq Contents(flight') \cup Contents(queue')
    BY <1>6 DEF Contents
  <2> QED BY <1>1, <1>3, <1>5, <2>1, <2>2 DEF Accounting, NothingLost, Pending
<1>8. Contents(flight') \subseteq Contents(queue') \cup settled'
  BY <1>1, <1>3, <1>6 DEF Accounting
<1>9. Flushing' => Contents(queue') \subseteq Contents(flight') \cup overlapped' \cup settled'
  BY <1>1, <1>4, <1>6 DEF Accounting, Flushing
<1> QED BY <1>7, <1>8, <1>9 DEF Accounting

LEMMA AccountingFinish ==
    ASSUME Typed, Accounting, Flushing, NEW failed \in SUBSET flight, FinishFlush(failed)
    PROVE  Accounting'
<1>1. Contents(flight) \subseteq Contents(queue') \cup settled'
  <2> SUFFICES ASSUME NEW i \in flight PROVE i.content \in Contents(queue') \cup settled'
    BY DEF Contents
  <2>1. CASE i \in failed /\ MayRetry(i)
    <3>1. Retry(i) \in queue' /\ Retry(i).content = i.content
      BY <2>1, RetryItem DEF FinishFlush, Typed
    <3> QED BY <3>1 DEF Contents
  <2>2. CASE i \notin failed \/ ~MayRetry(i)
    <3>1. i.retries >= Retries \/ i \notin failed
      BY <2>2, MemorySyncAssumption DEF MayRetry, Typed, Items
    <3> QED BY <3>1 DEF FinishFlush, Contents
  <2> QED BY <2>1, <2>2
<1>2. settled \subseteq settled' /\ overlapped' = overlapped /\ calls' = calls /\ flight' = {}
  BY DEF FinishFlush
<1>3. NothingLost'
  BY <1>1, <1>2 DEF Accounting, NothingLost, Pending
<1> QED BY <1>2, <1>3 DEF Accounting, Flushing, Contents

LEMMA AccountingNext == Typed /\ Accounting /\ [Next]_vars => Accounting'
<1> SUFFICES ASSUME Typed, Accounting, [Next]_vars PROVE Accounting'
  OBVIOUS
<1>1. ASSUME NEW m \in Memories, NEW type \in Types, QueueIsFull(m, type) PROVE Accounting'
  <2>1. 1..calls' = 1..calls \cup {calls'} /\ settled' = settled \cup {calls'}
    BY <1>1 DEF QueueIsFull, Call, Typed
  <2>2. UNCHANGED <<queue, flight, overlapped>>
    BY <1>1 DEF QueueIsFull, pageVars
  <2> QED BY <2>1, <2>2 DEF Accounting, NothingLost, Pending, Contents, Flushing
<1>2. CASE GoOnline \/ RetryTimer
  <2>1. /\ UNCHANGED <<queue, calls, settled, overlapped>>
        /\ flight' = flight \/ (flight = {} /\ flight' = queue)
    BY <1>2 DEF GoOnline, RetryTimer, StartFlush, Flushing
  <2> QED BY <2>1 DEF Accounting, NothingLost, Pending, Contents, Flushing
<1>3. CASE ServerHandles
  BY <1>3 DEF ServerHandles, Accounting, NothingLost, Pending, Contents, Flushing
<1>4. CASE BatchMalformed \/ Reload
  <2>1. UNCHANGED <<queue, calls, settled, overlapped>> /\ flight' = {}
    BY <1>4 DEF BatchMalformed, Reload
  <2> QED BY <2>1 DEF Accounting, NothingLost, Pending, Contents, Flushing
<1>5. CASE GoOffline \/ UNCHANGED vars
  BY <1>5 DEF GoOffline, vars, pageVars, historyVars, Accounting, NothingLost, Pending,
              Contents, Flushing
<1>6. CASE BatchAnswered
  BY <1>6, AccountingFinish DEF BatchAnswered
<1>7. CASE BatchFailed
  BY <1>7, AccountingFinish DEF BatchFailed
<1> QED BY <1>1, <1>2, <1>3, <1>4, <1>5, <1>6, <1>7, AccountingQueue DEF Next, Flush

\* An operation that was queued while no flush was under way is not lost.
THEOREM NothingLostCorrect == Spec => []NothingLost
<1>1. Init => Typed /\ Accounting
  BY InitTyped DEF Init, Accounting, NothingLost, Pending, Contents, Flushing
<1>2. Typed /\ Accounting /\ [Next]_vars => Typed' /\ Accounting'
  BY NextTyped, AccountingNext
<1>3. Accounting => NothingLost
  BY DEF Accounting
<1> QED BY <1>1, <1>2, <1>3, PTL DEF Spec
-----------------------------------------------------------------------------
\* Why an UPDATE finds its memory known: a memory of the user is known, or its
\* creation or deletion is in the queue; and what a flush is about to overwrite
\* is in its batch or counts as known.
Updates ==
    /\ \A i \in queue \cup flight : i.type = "UPDATE" => i.memory \in known
    /\ \A m \in local :
         m \in known \/ \E i \in queue : i.memory = m /\ i.type # "UPDATE"
    /\ Flushing => MemoriesOf(queue) \subseteq MemoriesOf(flight) \cup known

LEMMA UpdatesQueue ==
    ASSUME Typed, Updates, NEW m \in Memories, NEW type \in Types,
           QueueOperation(m, type)
    PROVE  Updates'
<1> DEFINE op == Operation(m, type)
<1>1. /\ queue' = Queued(op)
      /\ known' = known \cup MemoriesOf(Dropped) \cup (IF Flushing THEN {m} ELSE {})
      /\ local' = IF type = "DELETE" THEN local \ {m} ELSE local \cup {m}
      /\ type = "SAVE" <=> m \notin local
  BY DEF QueueOperation, Operation, Call
<1>2. op \in Items /\ op.memory = m /\ op.type = type
  BY OperationItem DEF Operation
<1>3. \A j \in Of(m, queue) : j \in queue /\ j \in Items /\ j.memory = m
  BY DEF Of, Typed
<1>4. Dropped \subseteq queue /\ \A j \in Dropped : j.memory \in known'
  BY <1>1 DEF Dropped, Untried, MemoriesOf
<1>5. known \subseteq known'
  BY <1>1
<1>6. \/ flight' = flight
      \/ flight = {} /\ flight' = queue'
  BY DEF QueueOperation, StartFlush, Flushing
<1>7. \/ m \in known'
      \/ \E i \in queue' : i.memory = m /\ i.type # "UPDATE"
      \/ type = "DELETE"
  <2>1. CASE m \in known
    BY <1>5, <2>1
  <2>2. CASE type = "SAVE"
    <3>1. CASE Of(m, queue) \subseteq Dropped
      <4>1. op \in queue'
        BY <1>1, <1>2, <3>1, QueuedItems
      <4> QED BY <1>2, <2>2, <4>1
    <3>2. CASE ~(Of(m, queue) \subseteq Dropped)
      <4>1. PICK j \in Of(m, queue) \ Dropped : TRUE
        BY <3>2
      <4>2. Merged(j, op) \in queue'
        BY <1>1, <1>2, <4>1, QueuedItems
      <4>3. Merged(j, op).memory = m /\ Merged(j, op).type \in {"SAVE", "DELETE"}
        BY <1>2, <1>3, <2>2, <4>1, MergedItem
      <4> QED BY <4>2, <4>3
    <3> QED BY <3>1, <3>2
  <2>3. CASE m \in local /\ m \notin known
    <3>1. PICK j \in queue : j.memory = m /\ j.type # "UPDATE"
      BY <2>3 DEF Updates
    <3>2. j \in Of(m, queue)
      BY <3>1 DEF Of
    <3>3. CASE j \in Dropped
      BY <1>4, <3>1, <3>3
    <3>4. CASE j \notin Dropped
      <4>1. Merged(j, op) \in queue'
        BY <1>1, <1>2, <3>2, <3>4, QueuedItems
      <4>2. Merged(j, op).memory = m /\ Merged(j, op).type # "UPDATE"
        BY <1>2, <1>3, <3>1, <3>2, MergedItem
      <4> QED BY <4>1, <4>2
    <3> QED BY <3>3, <3>4
  <2> QED BY <1>1, <2>1, <2>2, <2>3
<1>8. ASSUME NEW i \in queue', i.type = "UPDATE" PROVE i.memory \in known'
  <2>1. \/ i \in queue
        \/ i = op /\ Of(m, queue) \subseteq Dropped
        \/ \E j \in Of(m, queue) \ Dropped : i = Merged(j, op)
    BY <1>1, <1>2, QueuedItems
  <2>2. CASE i \in queue
    BY <1>5, <1>8, <2>2 DEF Updates
  <2>3. CASE i = op /\ Of(m, queue) \subseteq Dropped
    <3>1. m \in local
      BY <1>1, <1>2, <1>8, <2>3
    <3>2. m \in known \/ \E j \in Dropped : j.memory = m
      BY <2>3, <3>1 DEF Updates, Of
    <3> QED BY <1>2, <1>4, <1>5, <2>3, <3>2
  <2>4. ASSUME NEW j \in Of(m, queue) \ Dropped, i = Merged(j, op)
        PROVE  i.memory \in known'
    <3>1. j.type = "UPDATE" /\ i.memory = m
      BY <1>2, <1>3, <1>8, <2>4, MergedItem
    <3> QED BY <1>3, <1>5, <3>1 DEF Updates
  <2> QED BY <2>1, <2>2, <2>3, <2>4
<1>9. \A i \in queue' \cup flight' : i.type = "UPDATE" => i.memory \in known'
  BY <1>5, <1>6, <1>8 DEF Updates
<1>10. ASSUME NEW n \in local'
       PROVE  n \in known' \/ \E i \in queue' : i.memory = n /\ i.type # "UPDATE"
  <2>1. CASE n = m
    BY <1>1, <1>7, <2>1
  <2>2. CASE n # m /\ n \notin known
    <3>1. PICK i \in queue : i.memory = n /\ i.type # "UPDATE"
      BY <1>1, <2>2 DEF Updates
    <3>2. CASE i \in Dropped
      BY <1>4, <3>1, <3>2
    <3>3. CASE i \notin Dropped
      <4>1. i \in queue'
        BY <1>1, <1>2, <1>3, <2>2, <3>1, <3>3, QueuedItems
      <4> QED BY <3>1, <4>1
    <3> QED BY <3>2, <3>3
  <2> QED BY <1>5, <2>1, <2>2
<1>11. Flushing' => MemoriesOf(queue') \subseteq MemoriesOf(flight') \cup known'
  <2>1. CASE flight' = queue'
    BY <2>1
  <2>2. CASE flight' = flight /\ Flushing
    <3> SUFFICES ASSUME NEW i \in queue' PROVE i.memory \in MemoriesOf(flight) \cup known'
      BY <2>2 DEF MemoriesOf
    <3>1. i \in queue \/ i.memory = m
      <4>1. \/ i \in queue
            \/ i = op
            \/ \E j \in Of(m, queue) \ Dropped : i = Merged(j, op)
        BY <1>1, <1>2, QueuedItems
      <4> QED BY <1>2, <1>3, <4>1, MergedItem
    <3>2. m \in known'
      BY <1>1, <2>2
    <3> QED BY <1>5, <2>2, <3>1, <3>2 DEF Updates, MemoriesOf
  <2> QED BY <1>6, <2>1, <2>2 DEF Flushing
<1> QED BY <1>9, <1>10, <1>11 DEF Updates

LEMMA UpdatesFinish ==
    ASSUME Typed, Updates, Flushing, NEW failed \in SUBSET flight, FinishFlush(failed)
    PROVE  Updates'
<1>1. known \subseteq known' /\ local' = local /\ flight' = {}
  BY DEF FinishFlush
<1>2. ASSUME NEW i \in flight
      PROVE  \/ i.memory \in known'
             \/ \E k \in queue' : k.memory = i.memory /\ k.type = i.type
  <2>1. CASE i \in failed /\ MayRetry(i)
    BY <2>1, RetryItem DEF FinishFlush, Typed
  <2>2. CASE i \notin failed \/ ~MayRetry(i)
    <3>1. i.retries >= Retries \/ i \notin failed
      BY <2>2, MemorySyncAssumption DEF MayRetry, Typed, Items
    <3> QED BY <3>1 DEF FinishFlush, MemoriesOf
  <2> QED BY <2>1, <2>2
<1>3. ASSUME NEW k \in queue', k.type = "UPDATE" PROVE k.memory \in known'
  <2>1. PICK i \in flight : k = Retry(i)
    BY DEF FinishFlush
  <2>2. i.type = "UPDATE" /\ k.memory = i.memory
    BY <1>3, <2>1, RetryItem DEF Typed
  <2> QED BY <1>1, <2>2 DEF Updates
<1>4. ASSUME NEW n \in local'
      PROVE  n \in known' \/ \E k \in queue' : k.memory = n /\ k.type # "UPDATE"
  <2>1. n \in known \/ \E i \in flight : i.memory = n
    BY <1>1 DEF Updates, MemoriesOf
  <2> QED BY <1>1, <1>2, <2>1 DEF Updates
<1> QED BY <1>1, <1>3, <1>4 DEF Updates, Flushing

LEMMA UpdatesNext == Typed /\ Updates /\ [Next]_vars => Updates'
<1> SUFFICES ASSUME Typed, Updates, [Next]_vars PROVE Updates'
  OBVIOUS
<1>1. ASSUME NEW m \in Memories, NEW type \in Types, QueueIsFull(m, type) PROVE Updates'
  BY <1>1 DEF QueueIsFull, Call, pageVars, Updates, Flushing, MemoriesOf
<1>2. CASE GoOnline \/ RetryTimer
  <2>1. /\ UNCHANGED <<queue, local, known>>
        /\ flight' = flight \/ (flight = {} /\ flight' = queue)
    BY <1>2 DEF GoOnline, RetryTimer, StartFlush, Flushing
  <2> QED BY <2>1 DEF Updates, Flushing, MemoriesOf
<1>3. CASE BatchMalformed \/ Reload
  <2>1. UNCHANGED <<queue, local, known>> /\ flight' = {}
    BY <1>3 DEF BatchMalformed, Reload
  <2> QED BY <2>1 DEF Updates, Flushing
<1>4. CASE GoOffline \/ ServerHandles \/ UNCHANGED vars
  BY <1>4 DEF GoOffline, ServerHandles, vars, pageVars, historyVars, Updates, Flushing,
              MemoriesOf
<1>5. CASE BatchAnswered
  BY <1>5, UpdatesFinish DEF BatchAnswered
<1>6. CASE BatchFailed
  BY <1>6, UpdatesFinish DEF BatchFailed
<1> QED BY <1>1, <1>2, <1>3, <1>4, <1>5, <1>6, UpdatesQueue DEF Next, Flush

\* An UPDATE is sent only for a memory whose creation has left the queue, or
\* could have been overwritten in it.
THEOREM UpdateFollowsSaveCorrect == Spec => []UpdateFollowsSave
<1>1. Init => Typed /\ Updates
  BY InitTyped DEF Init, Updates, Flushing
<1>2. Typed /\ Updates /\ [Next]_vars => Typed' /\ Updates'
  BY NextTyped, UpdatesNext
<1>3. Updates => UpdateFollowsSave
  BY DEF Updates, UpdateFollowsSave
<1> QED BY <1>1, <1>2, <1>3, PTL DEF Spec
=============================================================================
