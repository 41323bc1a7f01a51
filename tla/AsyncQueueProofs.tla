-------------------------- MODULE AsyncQueueProofs --------------------------
(***************************************************************************)
(* Proofs about AsyncQueue for any set of items and any maxsize.  Each     *)
(* operation of the queue has one lemma: it keeps the type and QueueInv,   *)
(* and it is a step of the FIFO channel or a stutter.  The modules that    *)
(* use the queue share its operations, and so these lemmas.                *)
(***************************************************************************)
EXTENDS AsyncQueue, SequenceTheorems, FiniteSetTheorems, TLAPS

QInv == QTypeOK /\ QueueInv

ChannelStep == [Channel!Next]_(Channel!vars)

\* The part of the history that is still in the queue, after an item enters.
LEMMA RestAfterEnter ==
    ASSUME NEW S, NEW s \in Seq(S), NEW n \in 0..Len(s), NEW x \in S
    PROVE  SubSeq(Append(s, x), n + 1, Len(s) + 1)
            = Append(SubSeq(s, n + 1, Len(s)), x)
<1> DEFINE t == Append(s, x)
           r == SubSeq(s, n + 1, Len(s))
<1>1. /\ t \in Seq(S) /\ Len(t) = Len(s) + 1
      /\ \A i \in 1..Len(s) : t[i] = s[i]
      /\ t[Len(s) + 1] = x
  BY AppendProperties
<1>2. /\ r \in Seq(S) /\ Len(r) = Len(s) - n
      /\ \A i \in 1..(Len(s) - n) : r[i] = s[n + i]
  <2>1. \A i \in (n + 1)..Len(s) : s[i] \in S
    BY ElementOfSeq
  <2> QED
    BY <2>1, LenProperties, SubSeqProperties
<1>3. /\ Append(r, x) \in Seq(S) /\ Len(Append(r, x)) = Len(s) - n + 1
      /\ \A i \in 1..(Len(s) - n) : Append(r, x)[i] = s[n + i]
      /\ Append(r, x)[Len(s) - n + 1] = x
  BY <1>2, AppendProperties, LenProperties
<1>4. /\ SubSeq(t, n + 1, Len(s) + 1) \in Seq(S)
      /\ Len(SubSeq(t, n + 1, Len(s) + 1)) = Len(s) - n + 1
      /\ \A i \in 1..(Len(s) - n + 1) : SubSeq(t, n + 1, Len(s) + 1)[i] = t[n + i]
  <2>1. \A i \in (n + 1)..(Len(s) + 1) : t[i] \in S
    BY <1>1, ElementOfSeq
  <2>2. Len(s) \in Nat
    BY LenProperties
  <2> QED
    BY <2>1, <2>2, SubSeqProperties
<1>5. \A i \in 1..(Len(s) - n + 1) :
        SubSeq(t, n + 1, Len(s) + 1)[i] = Append(r, x)[i]
  <2>1. Len(s) \in Nat
    BY LenProperties
  <2> QED
    BY <1>1, <1>3, <1>4, <2>1
<1> QED
  BY <1>3, <1>4, <1>5, SeqEqual

\* Removing an element of a sequence.
LEMMA RemoveAtType ==
    ASSUME NEW S, NEW s \in Seq(S), NEW i \in 1..Len(s)
    PROVE  RemoveAt(s, i) \in Seq(S)
<1>1. Len(s) \in Nat /\ \A j \in 1..Len(s) : s[j] \in S
  BY LenProperties, ElementOfSeq
<1>2. SubSeq(s, 1, i - 1) \in Seq(S) /\ SubSeq(s, i + 1, Len(s)) \in Seq(S)
  BY <1>1, SubSeqProperties
<1> QED
  BY <1>2, ConcatProperties DEF RemoveAt
-----------------------------------------------------------------------------
\* An item that gets into the queue.
LEMMA EnterContents ==
    ASSUME QTypeOK, Contents, NEW x \in Items, Enter(x), left' = left
    PROVE  /\ queue' \in Seq(Items) /\ entered' \in Seq(Items)
           /\ Len(queue') = Len(queue) + 1
           /\ Len(entered') = Len(entered) + 1
           /\ left' \in 0..Len(entered')
           /\ Contents'
           /\ Len(queue) = Len(entered) - left
<1> USE DEF QTypeOK, Contents, Enter
<1>1. Len(entered) \in Nat /\ Len(queue) \in Nat
  BY LenProperties
<1>2. /\ queue' \in Seq(Items) /\ entered' \in Seq(Items)
      /\ Len(queue') = Len(queue) + 1
      /\ Len(entered') = Len(entered) + 1
  BY AppendProperties
<1>3. queue' = SubSeq(entered', left' + 1, Len(entered'))
  BY <1>2, RestAfterEnter
<1>4. Len(queue) = Len(entered) - left
  <2>1. \A i \in (left + 1)..Len(entered) : entered[i] \in Items
    BY <1>1, ElementOfSeq
  <2> QED
    BY <1>1, <2>1, SubSeqProperties
<1>5. left' \in 0..Len(entered')
  <2> HIDE DEF Contents, Enter
  <2> QED
    BY <1>1, <1>2
<1>6. Contents'
  BY <1>3, Zenon
<1> HIDE DEF QTypeOK, Contents, Enter
<1> QED
  BY <1>2, <1>4, <1>5, <1>6

\* A put that finds room.
LEMMA PutKeeps ==
    ASSUME QInv, NEW x \in Items, Put(x)
    PROVE  QInv' /\ ChannelStep
<1> USE DEF QInv, QueueInv, Put
<1>1. /\ queue' \in Seq(Items) /\ entered' \in Seq(Items)
      /\ Len(queue') = Len(queue) + 1
      /\ left' \in 0..Len(entered')
      /\ Contents'
      /\ Len(queue) = Len(entered) - left
  BY EnterContents
<1>2. Len(queue) \in Nat /\ Len(woken) \in Nat
  BY LenProperties DEF QTypeOK
<1>3. QTypeOK'
  BY <1>1 DEF QTypeOK
<1>4. Bounded'
  BY <1>1, <1>2, MaxSizeAssumption DEF Bounded, Full
<1>5. NoLostWakeup'
  BY <1>1, <1>2, MaxSizeAssumption DEF NoLostWakeup
<1>6. Channel!Enter(x)
  BY <1>1, <1>2, MaxSizeAssumption DEF Channel!Enter, Enter, Full
<1> QED
  BY <1>1, <1>3, <1>4, <1>5, <1>6 DEF ChannelStep, Channel!Next

\* A put that parks.
LEMMA ParkKeeps ==
    ASSUME QInv, NEW x \in Items, Park(x)
    PROVE  QInv' /\ ChannelStep
<1> USE DEF QInv, QueueInv, Park
<1>1. QTypeOK'
  BY AppendProperties DEF QTypeOK
<1>2. Contents' /\ Bounded'
  BY DEF Contents, Bounded
<1>3. NoLostWakeup'
  <2>1. Len(queue) \in Nat /\ Len(woken) \in Nat
    BY LenProperties DEF QTypeOK
  <2> QED
    BY <2>1, MaxSizeAssumption DEF NoLostWakeup, Full
<1> QED
  BY <1>1, <1>2, <1>3 DEF ChannelStep, Channel!vars

\* A woken putter runs.
LEMMA ResumeKeeps ==
    ASSUME QInv, NEW x \in Items, Resume(x)
    PROVE  QInv' /\ ChannelStep
<1> USE DEF QInv, QueueInv, Resume
<1>1. /\ Len(queue) \in Nat /\ Len(woken) \in Nat
      /\ woken' \in Seq(Items) /\ Len(woken') = Len(woken) - 1
  BY LenProperties, HeadTailProperties DEF QTypeOK
<1>2. CASE ~Full /\ Enter(x) /\ UNCHANGED waiting
  <2>1. /\ queue' \in Seq(Items) /\ entered' \in Seq(Items)
        /\ Len(queue') = Len(queue) + 1
        /\ left' \in 0..Len(entered')
        /\ Contents'
        /\ Len(queue) = Len(entered) - left
    BY <1>2, EnterContents
  <2>2. QTypeOK'
    BY <1>1, <1>2, <2>1 DEF QTypeOK
  <2>3. Bounded'
    BY <1>1, <1>2, <2>1, MaxSizeAssumption DEF Bounded, Full
  <2>4. NoLostWakeup'
    BY <1>1, <1>2, <2>1, MaxSizeAssumption DEF NoLostWakeup
  <2>5. Channel!Enter(x)
    BY <1>1, <1>2, <2>1, MaxSizeAssumption DEF Channel!Enter, Enter, Full
  <2> QED
    BY <2>1, <2>2, <2>3, <2>4, <2>5 DEF ChannelStep, Channel!Next
<1>3. CASE Full /\ waiting' = Append(waiting, x) /\ UNCHANGED <<queue, entered>>
  <2>1. QTypeOK'
    BY <1>1, <1>3, AppendProperties DEF QTypeOK
  <2>2. Contents' /\ Bounded'
    BY <1>3 DEF Contents, Bounded
  <2>3. NoLostWakeup'
    <3>1. Len(woken') \in Nat
      BY <1>1, LenProperties
    <3> QED
      BY <1>1, <1>3, <3>1, MaxSizeAssumption DEF NoLostWakeup, Full
  <2> QED
    BY <1>3, <2>1, <2>2, <2>3 DEF ChannelStep, Channel!vars
<1> QED
  BY <1>2, <1>3

\* A put gives up.
LEMMA AbandonKeeps ==
    ASSUME QInv, NEW x \in Items, Abandon(x)
    PROVE  QInv' /\ ChannelStep
<1> USE DEF QInv, QueueInv
<1>1. UNCHANGED <<queue, entered, left>>
  BY DEF Abandon
<1>2. /\ Len(queue) \in Nat /\ Len(woken) \in Nat
      /\ waiting \in Seq(Items) /\ woken \in Seq(Items)
      /\ DOMAIN waiting = 1..Len(waiting)
  BY LenProperties DEF QTypeOK
<1>3. (waiting' \in Seq(Items) /\ woken' \in Seq(Items)) /\ NoLostWakeup'
  <2>1. ASSUME NEW i \in DOMAIN waiting, waiting' = RemoveAt(waiting, i),
               UNCHANGED woken
        PROVE  (waiting' \in Seq(Items) /\ woken' \in Seq(Items)) /\ NoLostWakeup'
    <3>1. waiting' \in Seq(Items)
      BY <1>2, <2>1, RemoveAtType
    <3>2. waiting # <<>>
      BY <1>2, EmptySeq
    <3> QED
      BY <1>1, <1>2, <2>1, <3>1, <3>2 DEF NoLostWakeup
  <2>2. CASE woken # <<>> /\ (Full \/ waiting = <<>>)
             /\ woken' = Tail(woken) /\ UNCHANGED waiting
    <3>1. woken' \in Seq(Items) /\ Len(woken') \in Nat
      BY <1>2, <2>2, HeadTailProperties, LenProperties
    <3> QED
      BY <1>1, <1>2, <2>2, <3>1, MaxSizeAssumption DEF NoLostWakeup, Full
  <2>3. CASE /\ woken # <<>> /\ ~Full /\ waiting # <<>>
             /\ woken' = Append(Tail(woken), Head(waiting))
             /\ waiting' = Tail(waiting)
    <3>1. Tail(woken) \in Seq(Items) /\ Len(Tail(woken)) = Len(woken) - 1
      BY <1>2, <2>3, HeadTailProperties
    <3>2. Tail(waiting) \in Seq(Items) /\ Head(waiting) \in Items
      BY <1>2, <2>3, HeadTailProperties
    <3>3. woken' \in Seq(Items) /\ Len(woken') = Len(woken)
      BY <1>2, <2>3, <3>1, <3>2, AppendProperties
    <3> QED
      BY <1>1, <1>2, <2>3, <3>2, <3>3 DEF NoLostWakeup
  <2> QED
    BY <2>1, <2>2, <2>3 DEF Abandon
<1>4. QTypeOK' /\ Contents' /\ Bounded'
  BY <1>1, <1>3 DEF QTypeOK, Contents, Bounded
<1> QED
  BY <1>1, <1>3, <1>4 DEF ChannelStep, Channel!vars

\* Something is left to hand out.
LEMMA GetLeaves ==
    ASSUME QInv, NEW x \in Items, Get(x)
    PROVE  left < Len(entered)
<1>1. left <= Len(entered) /\ left \in Nat /\ Len(entered) \in Nat
  BY LenProperties DEF QInv, QTypeOK
<1>2. left # Len(entered)
  BY <1>1, SubSeqEmpty DEF QInv, QueueInv, Contents, Get
<1> QED
  BY <1>1, <1>2

\* The first item is handed out.
LEMMA GetKeeps ==
    ASSUME QInv, NEW x \in Items, Get(x)
    PROVE  QInv' /\ ChannelStep
<1> USE DEF QInv, QueueInv, Get
<1>1. /\ Len(queue) \in Nat /\ Len(woken) \in Nat /\ Len(entered) \in Nat
      /\ waiting \in Seq(Items) /\ woken \in Seq(Items)
  BY LenProperties DEF QTypeOK
<1>2. queue' \in Seq(Items) /\ Len(queue') = Len(queue) - 1
  BY HeadTailProperties DEF QTypeOK
<1>3. left < Len(entered)
  BY GetLeaves
<1>4. Contents'
  <2>1. left + 1 \in 1..Len(entered) /\ Len(entered) \in (left + 1)..Len(entered)
    BY <1>1, <1>3 DEF QTypeOK
  <2>2. Tail(SubSeq(entered, left + 1, Len(entered)))
         = SubSeq(entered, left + 1 + 1, Len(entered))
    BY <2>1, HeadTailOfSubSeq DEF QTypeOK
  <2> QED
    BY <2>2 DEF Contents
<1>5. waiting' \in Seq(Items) /\ woken' \in Seq(Items) /\ NoLostWakeup'
  <2>1. CASE waiting = <<>>
    BY <1>1, <2>1 DEF WakeNext, NoLostWakeup
  <2>2. CASE waiting # <<>>
    <3>1. Tail(waiting) \in Seq(Items) /\ Head(waiting) \in Items
      BY <1>1, <2>2, HeadTailProperties
    <3>2. waiting' = Tail(waiting) /\ woken' = Append(woken, Head(waiting))
      BY <2>2, Zenon DEF WakeNext
    <3>3. woken' \in Seq(Items) /\ Len(woken') = Len(woken) + 1
      BY <1>1, <3>1, <3>2, AppendProperties
    <3>4. MaxSize > 0 => MaxSize - Len(queue) <= Len(woken)
      BY <2>2 DEF NoLostWakeup
    <3> QED
      BY <1>1, <1>2, <3>1, <3>2, <3>3, <3>4, MaxSizeAssumption DEF NoLostWakeup
  <2> QED
    BY <2>1, <2>2
<1>6. QTypeOK' /\ Bounded'
  BY <1>1, <1>2, <1>3, <1>5, MaxSizeAssumption DEF QTypeOK, Bounded
<1>7. Channel!Leave
  BY <1>3 DEF Channel!Leave
<1> QED
  BY <1>4, <1>5, <1>6, <1>7 DEF ChannelStep, Channel!Next
-----------------------------------------------------------------------------
LEMMA QInit_QInv == QInit => QInv
  BY MaxSizeAssumption, EmptySeq, SubSeqEmpty
  DEF QInit, QInv, QTypeOK, QueueInv, Contents, Bounded, NoLostWakeup

LEMMA QNext_QInv == QInv /\ [QNext]_queueVars => QInv' /\ ChannelStep
<1> SUFFICES ASSUME QInv, [QNext]_queueVars
             PROVE  QInv' /\ ChannelStep
  OBVIOUS
<1>1. ASSUME NEW x \in Items, Put(x) \/ Park(x)
      PROVE  QInv' /\ ChannelStep
  BY <1>1, PutKeeps, ParkKeeps
<1>2. ASSUME NEW x \in Items, Resume(x)
      PROVE  QInv' /\ ChannelStep
  BY <1>2, ResumeKeeps
<1>3. ASSUME NEW x \in Items, Abandon(x)
      PROVE  QInv' /\ ChannelStep
  BY <1>3, AbandonKeeps
<1>4. ASSUME NEW x \in Items, Get(x)
      PROVE  QInv' /\ ChannelStep
  BY <1>4, GetKeeps
<1>5. CASE UNCHANGED queueVars
  BY <1>5 DEF queueVars, QInv, QTypeOK, QueueInv, Contents, Bounded, NoLostWakeup,
              ChannelStep, Channel!vars
<1> QED
  BY <1>1, <1>2, <1>3, <1>4, <1>5 DEF QNext

\* Every reachable state of the queue is well typed.
THEOREM QueueTypeCorrect == QSpec => []QTypeOK
<1>1. QInv => QTypeOK
  BY DEF QInv
<1> QED
  BY <1>1, QInit_QInv, QNext_QInv, PTL DEF QSpec

\* InMemoryAsyncQueue never loses, doubles or reorders what it holds, never
\* exceeds maxsize, and no putter is parked beside a free slot that nobody is
\* on the way to, whatever calls are cancelled or overtaken.
THEOREM QueueCorrect == QSpec => []QueueInv
<1>1. QInv => QueueInv
  BY DEF QInv
<1> QED
  BY <1>1, QInit_QInv, QNext_QInv, PTL DEF QSpec

\* The queue with its putters and wake-ups is a bounded FIFO channel.
THEOREM ChannelImplemented == QSpec => ImplementsChannel
<1>1. QInit => Channel!Init
  BY DEF QInit, Channel!Init
<1>2. QInv /\ [QNext]_queueVars => [Channel!Next]_(Channel!vars)
  BY QNext_QInv DEF ChannelStep
<1> QED
  BY <1>1, <1>2, QInit_QInv, QNext_QInv, PTL
  DEF QSpec, ImplementsChannel, Channel!Spec
-----------------------------------------------------------------------------
(***************************************************************************)
(* Where an item is.  Each item has one caller, so the sequences of the    *)
(* queue hold it at most once; the lemmas say where each operation takes   *)
(* it from and puts it.                                                    *)
(***************************************************************************)
Once(s) == \A i, j \in DOMAIN s : s[i] = s[j] => i = j

Parked == ToSet(waiting) \cup ToSet(woken)

Places ==
    /\ Once(waiting) /\ Once(woken) /\ Once(entered)
    /\ ToSet(waiting) \cap ToSet(woken) = {}
    /\ Parked \cap ToSet(entered) = {}

LEMMA PuttingIsParked == \A x : Putting(x) <=> x \in Parked
  BY DEF Putting, Parked, ToSet

LEMMA CalledIsPlaced == \A x : Called(x) <=> x \in Parked \cup ToSet(entered)
  BY DEF Called, Parked, ToSet

LEMMA AppendSet ==
    ASSUME NEW S, NEW s \in Seq(S), NEW x \in S
    PROVE  /\ ToSet(Append(s, x)) = ToSet(s) \cup {x}
           /\ Once(s) /\ x \notin ToSet(s) => Once(Append(s, x))
<1>1. /\ Len(s) \in Nat /\ DOMAIN s = 1..Len(s)
      /\ DOMAIN Append(s, x) = 1..(Len(s) + 1)
      /\ \A i \in 1..Len(s) : Append(s, x)[i] = s[i]
      /\ Append(s, x)[Len(s) + 1] = x
  BY LenProperties, AppendProperties
<1>2. ToSet(Append(s, x)) = ToSet(s) \cup {x}
  BY <1>1 DEF ToSet
<1>3. Once(s) /\ x \notin ToSet(s) => Once(Append(s, x))
  BY <1>1 DEF ToSet, Once
<1> QED
  BY <1>2, <1>3

LEMMA TailSet ==
    ASSUME NEW S, NEW s \in Seq(S), s # <<>>, Once(s)
    PROVE  /\ Head(s) \in ToSet(s)
           /\ ToSet(Tail(s)) = ToSet(s) \ {Head(s)}
           /\ Once(Tail(s))
<1>1. /\ Len(s) \in Nat \ {0} /\ DOMAIN s = 1..Len(s)
      /\ DOMAIN Tail(s) = 1..(Len(s) - 1)
      /\ \A i \in 1..(Len(s) - 1) : Tail(s)[i] = s[i + 1]
      /\ Head(s) = s[1]
  BY LenProperties, EmptySeq, HeadTailProperties
<1>2. Head(s) \in ToSet(s)
  BY <1>1 DEF ToSet
<1>3. ToSet(Tail(s)) \subseteq ToSet(s) \ {Head(s)}
  BY <1>1 DEF ToSet, Once
<1>4. ASSUME NEW y \in ToSet(s) \ {Head(s)} PROVE y \in ToSet(Tail(s))
  <2>1. PICK i \in 1..Len(s) : y = s[i]
    BY <1>1 DEF ToSet
  <2>2. i - 1 \in 1..(Len(s) - 1) /\ Tail(s)[i - 1] = y
    BY <1>1, <1>4, <2>1
  <2> QED
    BY <1>1, <2>2 DEF ToSet
<1>5. Once(Tail(s))
  BY <1>1 DEF Once
<1> QED
  BY <1>2, <1>3, <1>4, <1>5

LEMMA RemoveAtSet ==
    ASSUME NEW S, NEW s \in Seq(S), NEW i \in DOMAIN s, Once(s)
    PROVE  /\ ToSet(RemoveAt(s, i)) = ToSet(s) \ {s[i]}
           /\ Once(RemoveAt(s, i))
<1> DEFINE r == RemoveAt(s, i)
<1>1. /\ Len(s) \in Nat /\ DOMAIN s = 1..Len(s) /\ i \in 1..Len(s)
      /\ \A j \in 1..Len(s) : s[j] \in S
  BY LenProperties, ElementOfSeq
<1> DEFINE a == SubSeq(s, 1, i - 1)
           b == SubSeq(s, i + 1, Len(s))
<1>2. /\ a \in Seq(S) /\ Len(a) = i - 1
      /\ \A j \in 1..(i - 1) : a[j] = s[j]
  <2>1. \A j \in 1..(i - 1) : s[j] \in S
    BY <1>1
  <2>2. /\ a \in Seq(S)
        /\ Len(a) = IF 1 <= i - 1 THEN (i - 1) - 1 + 1 ELSE 0
        /\ \A j \in 1..((i - 1) - 1 + 1) : a[j] = s[1 + j - 1]
    BY <1>1, <2>1, SubSeqProperties
  <2> HIDE DEF a
  <2> QED
    BY <1>1, <2>2
<1>3. /\ b \in Seq(S) /\ Len(b) = Len(s) - i
      /\ \A j \in 1..(Len(s) - i) : b[j] = s[i + j]
  <2>1. \A j \in (i + 1)..Len(s) : s[j] \in S
    BY <1>1
  <2>2. /\ b \in Seq(S)
        /\ Len(b) = IF i + 1 <= Len(s) THEN Len(s) - (i + 1) + 1 ELSE 0
        /\ \A j \in 1..(Len(s) - (i + 1) + 1) : b[j] = s[i + 1 + j - 1]
    BY <1>1, <2>1, SubSeqProperties
  <2> HIDE DEF a, b, r
  <2>3. Len(b) = Len(s) - i
    BY <1>1, <2>2
  <2>4. ASSUME NEW j \in 1..(Len(s) - i) PROVE b[j] = s[i + j]
    <3>1. j \in 1..(Len(s) - (i + 1) + 1) /\ i + 1 + j - 1 = i + j
      BY <1>1
    <3>2. b[j] = s[i + 1 + j - 1]
      BY <2>2, <3>1
    <3> QED
      BY <3>1, <3>2
  <2> QED
    BY <2>2, <2>3, <2>4
<1>4. r = a \o b
  BY DEF RemoveAt
<1> HIDE DEF a, b, r
<1>5. /\ DOMAIN r = 1..(Len(s) - 1)
      /\ \A j \in 1..(Len(s) - 1) : r[j] = IF j <= i - 1 THEN s[j] ELSE s[j + 1]
  <2>1. /\ r \in Seq(S)
        /\ Len(r) = Len(a) + Len(b)
        /\ \A j \in 1..(Len(a) + Len(b)) :
             r[j] = IF j <= Len(a) THEN a[j] ELSE b[j - Len(a)]
    BY <1>2, <1>3, <1>4, ConcatProperties
  <2>2. Len(a) + Len(b) = Len(s) - 1
    BY <1>1, <1>2, <1>3
  <2>3. DOMAIN r = 1..(Len(s) - 1)
    BY <2>1, <2>2, LenProperties
  <2>4. ASSUME NEW j \in 1..(Len(s) - 1), j <= i - 1 PROVE r[j] = s[j]
    BY <1>1, <1>2, <2>1, <2>2, <2>4
  <2>5. ASSUME NEW j \in 1..(Len(s) - 1), ~(j <= i - 1) PROVE r[j] = s[j + 1]
    <3>1. r[j] = b[j - (i - 1)]
      BY <1>2, <2>1, <2>2, <2>5
    <3>2. j - (i - 1) \in 1..(Len(s) - i) /\ i + (j - (i - 1)) = j + 1
      BY <1>1, <2>5
    <3> QED
      BY <1>3, <3>1, <3>2
  <2> QED
    BY <2>3, <2>4, <2>5
<1>6. ToSet(r) \subseteq ToSet(s) \ {s[i]}
  BY <1>1, <1>5 DEF ToSet, Once
<1>7. ASSUME NEW y \in ToSet(s) \ {s[i]} PROVE y \in ToSet(r)
  <2>1. PICK j \in 1..Len(s) : y = s[j]
    BY <1>1 DEF ToSet
  <2>2. j # i
    BY <1>7, <2>1
  <2>3. CASE j < i
    BY <1>1, <1>5, <2>1, <2>3 DEF ToSet
  <2>4. CASE j > i
    <3>1. j - 1 \in 1..(Len(s) - 1) /\ r[j - 1] = s[j]
      BY <1>1, <1>5, <2>1, <2>4
    <3> QED
      BY <1>5, <2>1, <3>1 DEF ToSet
  <2> QED
    BY <1>1, <2>1, <2>2, <2>3, <2>4
<1>8. Once(r)
  BY <1>1, <1>5 DEF Once
<1> QED
  BY <1>6, <1>7, <1>8 DEF r

LEMMA PutPlaces ==
    ASSUME QTypeOK, Places, NEW x \in Items, Put(x), ~Called(x)
    PROVE  /\ Places'
           /\ Parked' = Parked
           /\ ToSet(entered') = ToSet(entered) \cup {x}
  BY CalledIsPlaced, AppendSet DEF QTypeOK, Places, Parked, Put, Enter

LEMMA ParkPlaces ==
    ASSUME QTypeOK, Places, NEW x \in Items, Park(x), ~Called(x)
    PROVE  /\ Places'
           /\ Parked' = Parked \cup {x}
           /\ entered' = entered
  BY CalledIsPlaced, AppendSet DEF QTypeOK, Places, Parked, Park

LEMMA ResumePlaces ==
    ASSUME QTypeOK, Places, NEW x \in Items, Resume(x)
    PROVE  /\ Places'
           /\ x \in Parked
           /\ ~Full => /\ Parked' = Parked \ {x}
                       /\ ToSet(entered') = ToSet(entered) \cup {x}
           /\ Full => Parked' = Parked /\ entered' = entered
<1>1. /\ x \in ToSet(woken) /\ ToSet(woken') = ToSet(woken) \ {x} /\ Once(woken')
      /\ x \notin ToSet(waiting) /\ x \notin ToSet(entered)
  BY TailSet DEF QTypeOK, Places, Parked, Resume
<1>2. CASE ~Full
  <2>1. Enter(x) /\ UNCHANGED waiting
    BY <1>2 DEF Resume
  <2>2. ToSet(entered') = ToSet(entered) \cup {x} /\ Once(entered')
    BY <1>1, <2>1, AppendSet DEF QTypeOK, Places, Enter
  <2> QED
    BY <1>1, <1>2, <2>1, <2>2 DEF Places, Parked
<1>3. CASE Full
  <2>1. waiting' = Append(waiting, x) /\ UNCHANGED entered
    BY <1>3 DEF Resume
  <2>2. ToSet(waiting') = ToSet(waiting) \cup {x} /\ Once(waiting')
    BY <1>1, <2>1, AppendSet DEF QTypeOK, Places
  <2> QED
    BY <1>1, <1>3, <2>1, <2>2 DEF Places, Parked
<1> QED
  BY <1>2, <1>3

LEMMA AbandonPlaces ==
    ASSUME QTypeOK, Places, NEW x \in Items, Abandon(x)
    PROVE  /\ Places'
           /\ x \in Parked /\ Parked' = Parked \ {x}
           /\ entered' = entered
<1>1. UNCHANGED entered
  BY DEF Abandon
<1>2. ASSUME NEW i \in DOMAIN waiting, waiting[i] = x,
             waiting' = RemoveAt(waiting, i), UNCHANGED woken
      PROVE  Places' /\ x \in Parked /\ Parked' = Parked \ {x}
  <2>1. x \in ToSet(waiting)
    BY <1>2 DEF ToSet
  <2>2. ToSet(waiting') = ToSet(waiting) \ {x} /\ Once(waiting')
    BY <1>2, RemoveAtSet DEF QTypeOK, Places
  <2> QED
    BY <1>1, <1>2, <2>1, <2>2 DEF Places, Parked
<1>3. ASSUME woken # <<>>, x = Head(woken)
      PROVE  /\ x \in ToSet(woken) /\ x \notin ToSet(waiting)
             /\ ToSet(Tail(woken)) = ToSet(woken) \ {x} /\ Once(Tail(woken))
  BY <1>3, TailSet DEF QTypeOK, Places
<1>4. ASSUME woken # <<>>, x = Head(woken), woken' = Tail(woken), UNCHANGED waiting
      PROVE  Places' /\ x \in Parked /\ Parked' = Parked \ {x}
  BY <1>1, <1>3, <1>4 DEF Places, Parked
<1>5. ASSUME woken # <<>>, x = Head(woken), waiting # <<>>,
             woken' = Append(Tail(woken), Head(waiting)), waiting' = Tail(waiting)
      PROVE  Places' /\ x \in Parked /\ Parked' = Parked \ {x}
  <2>1. /\ Head(waiting) \in ToSet(waiting) /\ Once(waiting')
        /\ ToSet(waiting') = ToSet(waiting) \ {Head(waiting)}
    BY <1>5, TailSet DEF QTypeOK, Places
  <2>2. Head(waiting) \in Items /\ Tail(woken) \in Seq(Items)
    BY <1>5, HeadTailProperties DEF QTypeOK
  <2>3. Head(waiting) \notin ToSet(Tail(woken))
    BY <1>3, <1>5, <2>1 DEF Places
  <2>4. /\ ToSet(woken') = (ToSet(woken) \ {x}) \cup {Head(waiting)}
        /\ Once(woken')
    <3> DEFINE t == Tail(woken)
               h == Head(waiting)
    <3>1. /\ t \in Seq(Items) /\ h \in Items /\ h \notin ToSet(t)
          /\ ToSet(t) = ToSet(woken) \ {x} /\ Once(t)
      BY <1>3, <1>5, <2>2, <2>3
    <3>2. woken' = Append(t, h)
      BY <1>5
    <3> HIDE DEF t, h
    <3>3. ToSet(woken') = (ToSet(woken) \ {x}) \cup {h} /\ Once(woken')
      BY <3>1, <3>2, AppendSet
    <3> QED
      BY <3>3 DEF h
  <2> QED
    BY <1>1, <1>3, <1>5, <2>1, <2>4 DEF Places, Parked
<1> QED
  BY <1>1, <1>2, <1>4, <1>5 DEF Abandon

LEMMA GetPlaces ==
    ASSUME QTypeOK, Places, NEW x \in Items, Get(x)
    PROVE  /\ Places'
           /\ Parked' = Parked
           /\ entered' = entered
<1>1. UNCHANGED entered
  BY DEF Get
<1>2. CASE waiting = <<>>
  BY <1>1, <1>2 DEF Get, WakeNext, Places, Parked
<1>3. CASE waiting # <<>>
  <2>1. waiting' = Tail(waiting) /\ woken' = Append(woken, Head(waiting))
    BY <1>3, Zenon DEF Get, WakeNext
  <2>2. /\ Head(waiting) \in ToSet(waiting) /\ Once(waiting')
        /\ ToSet(waiting') = ToSet(waiting) \ {Head(waiting)}
    BY <1>3, <2>1, TailSet DEF QTypeOK, Places
  <2>3. Head(waiting) \in Items /\ Head(waiting) \notin ToSet(woken)
    BY <1>3, <2>2, HeadTailProperties DEF QTypeOK, Places
  <2>4. ToSet(woken') = ToSet(woken) \cup {Head(waiting)} /\ Once(woken')
    BY <2>1, <2>3, AppendSet DEF QTypeOK, Places
  <2> QED
    BY <1>1, <2>2, <2>4 DEF Places, Parked
<1> QED
  BY <1>2, <1>3

\* A sequence without repetitions has as many elements as places.
LEMMA OnceCardinality ==
    ASSUME NEW S, NEW s \in Seq(S), Once(s)
    PROVE  Cardinality(ToSet(s)) = Len(s)
<1>1. Len(s) \in Nat /\ DOMAIN s = 1..Len(s) /\ s \in [1..Len(s) -> S]
  BY LenProperties
<1>2. s \in Bijection(1..Len(s), ToSet(s))
  <2>1. s \in [1..Len(s) -> ToSet(s)]
    BY <1>1 DEF ToSet
  <2>2. \A y \in ToSet(s) : \E i \in 1..Len(s) : s[i] = y
    BY <1>1 DEF ToSet
  <2>3. \A i, j \in 1..Len(s) : s[i] = s[j] => i = j
    BY <1>1 DEF Once
  <2> QED
    BY <1>1, <2>1, <2>2, <2>3 DEF Bijection, Injection, Surjection, IsInjective
<1>3. IsFiniteSet(1..Len(s)) /\ Cardinality(1..Len(s)) = Len(s)
  BY <1>1, FS_Interval
<1> QED
  BY <1>2, <1>3, FS_Bijection DEF ExistsBijection

\* The items that were handed out, and the one a Get hands out.
HandedOutSet == {entered[i] : i \in 1..left}

LEMMA HandedOutBySubSeq ==
    ASSUME QTypeOK
    PROVE  ToSet(SubSeq(entered, 1, left)) = HandedOutSet
<1>1. Len(entered) \in Nat /\ left \in 0..Len(entered)
  BY LenProperties DEF QTypeOK
<1>2. \A i \in 1..left : entered[i] \in Items
  BY <1>1, ElementOfSeq DEF QTypeOK
<1>3. /\ SubSeq(entered, 1, left) \in Seq(Items)
      /\ Len(SubSeq(entered, 1, left)) = left
      /\ \A i \in 1..left : SubSeq(entered, 1, left)[i] = entered[i]
  BY <1>1, <1>2, SubSeqProperties
<1>4. DOMAIN SubSeq(entered, 1, left) = 1..left
  BY <1>3, LenProperties
<1> QED
  BY <1>3, <1>4 DEF ToSet, HandedOutSet

LEMMA GetHandsOut ==
    ASSUME QInv, Places, NEW x \in Items, Get(x)
    PROVE  /\ x \in ToSet(entered) /\ x \notin HandedOutSet
           /\ HandedOutSet' = HandedOutSet \cup {x}
<1>1. /\ queue = SubSeq(entered, left + 1, Len(entered)) /\ entered \in Seq(Items)
      /\ left \in 0..Len(entered) /\ Len(entered) \in Nat
      /\ DOMAIN entered = 1..Len(entered)
  BY LenProperties DEF QInv, QTypeOK, QueueInv, Contents
<1>2. left < Len(entered)
  BY GetLeaves
<1>3. x = entered[left + 1]
  <2>1. left + 1 \in 1..Len(entered) /\ Len(entered) \in (left + 1)..Len(entered)
    BY <1>1, <1>2
  <2>2. Head(SubSeq(entered, left + 1, Len(entered))) = entered[left + 1]
    BY <1>1, <2>1, HeadTailOfSubSeq
  <2> QED
    BY <1>1, <2>2 DEF Get
<1>4. x \in ToSet(entered)
  BY <1>1, <1>2, <1>3 DEF ToSet
<1>5. x \notin HandedOutSet
  BY <1>1, <1>2, <1>3 DEF HandedOutSet, Places, Once
<1>6. 1..(left + 1) = 1..left \cup {left + 1}
  BY <1>1
<1>7. HandedOutSet' = HandedOutSet \cup {x}
  BY <1>3, <1>6 DEF HandedOutSet, Get
<1> QED
  BY <1>4, <1>5, <1>7

\* An item that enters leaves the handed-out ones as they are.
LEMMA EnterHandsOutNothing ==
    ASSUME QTypeOK, NEW x \in Items, Enter(x), left' = left
    PROVE  HandedOutSet' = HandedOutSet
<1>1. /\ Len(entered) \in Nat /\ left \in 0..Len(entered)
      /\ \A i \in 1..Len(entered) : entered'[i] = entered[i]
  BY LenProperties, AppendProperties DEF QTypeOK, Enter
<1> QED
  BY <1>1 DEF HandedOutSet
=============================================================================
