------------------------- MODULE ClientBuffersProofs -------------------------
(***************************************************************************)
(* Proofs about ClientBuffers for any number of connections, client ids    *)
(* and messages and any buffer size, however connections share client ids. *)
(***************************************************************************)
EXTENDS ClientBuffers, SequenceTheorems, TLAPS

Live(s) == conn[s] \in {"open", "draining", "removing"}

\* Who belongs to whom: buffers, registrations and cleanups stay within one
\* client id, and two connections alive under one id know of each other.
OwnInv ==
    /\ \A s \in Sockets : conn[s] = "new" =>
          /\ client[s] = None /\ s \notin shared
          /\ s \notin running /\ s \notin sender
    /\ \A s \in Sockets : conn[s] # "new" =>
          /\ client[s] \in Clients /\ mine[s] \in Sockets
          /\ client[mine[s]] = client[s]
          /\ mine[s] = s \/ s \in shared
    /\ \A s \in Sockets, c \in Clients : registry[c] = s => client[s] = c /\ Live(s)
    /\ \A s, t \in Sockets :
          Live(s) /\ Live(t) /\ client[s] = client[t] /\ s # t => s \in shared

\* What a connection whose id is not shared has, and has left.
ServedInv == \A s \in Sockets :
    /\ s \in up => conn[s] = "open"
    /\ conn[s] \in {"draining", "removing"} =>
          /\ victim[s] \in Sockets /\ client[victim[s]] = client[s]
          /\ victim[s] \notin running
    /\ s \notin shared =>
          /\ conn[s] = "open" =>
                registry[client[s]] = s /\ s \in running /\ s \in sender
          /\ conn[s] \in {"draining", "removing"} => victim[s] = s
          /\ conn[s] \in {"draining", "removing", "closed"} => s \notin running
          /\ conn[s] \in {"removing", "closed"} => s \notin sender

\* What each buffer accepted, in order.
OrderInv == \A s \in Sockets :
    /\ s \notin sender => sending[s] = None
    /\ conn[s] = "new" => /\ queue[s] = <<>> /\ sending[s] = None
                          /\ received[s] = <<>> /\ accepted[s] = <<>>
    /\ \E rest \in Seq(Messages) : received[s] \o rest = accepted[s]
    /\ s \in up /\ s \in sender => received[s] \o InFlight(s) \o queue[s] = accepted[s]

CInv == TypeOK /\ OwnInv /\ ServedInv /\ OrderInv
-----------------------------------------------------------------------------
LEMMA AppendLast ==
    ASSUME NEW S, NEW r \in Seq(S), NEW f \in Seq(S), NEW q \in Seq(S), NEW m \in S
    PROVE  r \o f \o Append(q, m) = Append(r \o f \o q, m)
<1> DEFINE p == r \o f
<1>1. p \in Seq(S) /\ p \o q \in Seq(S) /\ <<m>> \in Seq(S)
  BY ConcatProperties
<1> HIDE DEF p
<1>2. p \o Append(q, m) = p \o (q \o <<m>>)
  BY AppendIsConcat
<1>3. p \o (q \o <<m>>) = (p \o q) \o <<m>>
  BY <1>1, ConcatAssociative
<1>4. (p \o q) \o <<m>> = Append(p \o q, m)
  BY <1>1, AppendIsConcat
<1> QED
  BY <1>2, <1>3, <1>4 DEF p

LEMMA HeadFirst ==
    ASSUME NEW S, NEW r \in Seq(S), NEW q \in Seq(S), q # <<>>
    PROVE  r \o <<Head(q)>> \o Tail(q) = r \o <<>> \o q
<1>1. /\ Head(q) \in S /\ Tail(q) \in Seq(S) /\ <<Head(q)>> \in Seq(S)
      /\ Len(q) \in Nat \ {0} /\ Head(q) = q[1]
  BY HeadTailProperties, EmptySeq, LenProperties
<1>2. <<Head(q)>> \o Tail(q) = q
  <2>1. SubSeq(q, 1, Len(q)) = <<q[1]>> \o SubSeq(q, 1 + 1, Len(q))
    BY <1>1, SubSeqRecursiveFirst
  <2> QED
    BY <1>1, <2>1, TailIsSubSeq, SubSeqFull
<1>3. r \o <<Head(q)>> \o Tail(q) = r \o (<<Head(q)>> \o Tail(q))
  BY <1>1, ConcatAssociative
<1>4. r \o <<>> = r
  BY ConcatEmptySeq
<1> QED
  BY <1>2, <1>3, <1>4

LEMMA ArriveFirst ==
    ASSUME NEW S, NEW r \in Seq(S), NEW m \in S, NEW q \in Seq(S)
    PROVE  Append(r, m) \o <<>> \o q = r \o <<m>> \o q
<1>1. Append(r, m) = r \o <<m>> /\ Append(r, m) \in Seq(S)
  BY AppendIsConcat, AppendProperties
<1>2. Append(r, m) \o <<>> = Append(r, m)
  BY <1>1, ConcatEmptySeq
<1> QED
  BY <1>1, <1>2

LEMMA ArriveInFront ==
    ASSUME NEW S, NEW r \in Seq(S), NEW m \in S, NEW q \in Seq(S)
    PROVE  Append(r, m) \o q = r \o <<m>> \o q
  BY AppendIsConcat

LEMMA AppendBehind ==
    ASSUME NEW S, NEW r \in Seq(S), NEW q \in Seq(S), NEW m \in S
    PROVE  /\ Append(q, m) \in Seq(S)
           /\ r \o Append(q, m) = Append(r \o q, m)
<1>1. <<m>> \in Seq(S) /\ Append(q, m) = q \o <<m>> /\ Append(q, m) \in Seq(S)
  BY AppendIsConcat, AppendProperties
<1>2. r \o q \in Seq(S)
  BY ConcatProperties
<1>3. Append(r \o q, m) = (r \o q) \o <<m>>
  BY <1>2, AppendIsConcat
<1>4. r \o (q \o <<m>>) = (r \o q) \o <<m>>
  BY <1>1, ConcatAssociative
<1> QED
  BY <1>1, <1>3, <1>4

LEMMA PrefixOfWhole ==
    ASSUME NEW S, NEW r \in Seq(S), NEW q \in Seq(S)
    PROVE  IsPrefix(r, r \o q)
<1>1. /\ Len(r \o q) = Len(r) + Len(q) /\ Len(r) \in Nat /\ Len(q) \in Nat
      /\ r \o q \in Seq(S)
  BY ConcatProperties, LenProperties
<1>2. \A i \in 1..Len(r) : (r \o q)[i] = r[i]
  BY ConcatProperties
<1>3. SubSeq(r, 1, Len(r)) = SubSeq(r \o q, 1, Len(r))
  BY <1>1, <1>2
<1> QED
  BY <1>1, <1>3 DEF IsPrefix
-----------------------------------------------------------------------------
\* A new connection gets a buffer of its own, or one of its id that is live;
\* then both are known to share the id.
LEMMA ConnectKeeps ==
    ASSUME CInv, NEW s \in Sockets, NEW c \in Clients, Connect(s, c)
    PROVE  CInv'
<1> USE DEF CInv
<1>1. /\ conn[s] = "new" /\ conn' = [conn EXCEPT ![s] = "open"]
      /\ up' = up \cup {s} /\ client' = [client EXCEPT ![s] = c]
      /\ shared' = IF Others(c) = {} THEN shared ELSE shared \cup Others(c) \cup {s}
      /\ UNCHANGED <<victim, bufVars, used, snapshots, accepted, received>>
  BY DEF Connect
<1>2. /\ client[s] = None /\ s \notin shared /\ s \notin running /\ s \notin sender
      /\ ~Live(s) /\ c # None
  BY <1>1, NoneAssumption DEF OwnInv, Live
<1>3. /\ registry[c] = None => /\ mine' = [mine EXCEPT ![s] = s]
                               /\ registry' = [registry EXCEPT ![c] = s]
                               /\ running' = running \cup {s}
                               /\ sender' = sender \cup {s}
      /\ registry[c] # None => /\ mine' = [mine EXCEPT ![s] = registry[c]]
                               /\ UNCHANGED <<registry, running, sender>>
  BY DEF Connect, taskVars
<1>4. registry[c] \in Sockets \cup {None}
  BY DEF TypeOK
<1>5. registry[c] # None => registry[c] \in Others(c) /\ registry[c] # s
  BY <1>2, <1>4 DEF OwnInv, Others, Live
<1>6. /\ s \notin Others(c) /\ shared \subseteq shared'
      /\ \A t \in Sockets \ {s} : t \in shared' => t \in shared \/ t \in Others(c)
      /\ Others(c) \subseteq shared'
      /\ Others(c) # {} => s \in shared'
  BY <1>1, <1>2 DEF Others
<1>7. /\ conn'[s] = "open" /\ client'[s] = c
      /\ \A t \in Sockets \ {s} : conn'[t] = conn[t] /\ client'[t] = client[t]
                                   /\ mine'[t] = mine[t]
  BY <1>1, <1>3 DEF TypeOK
<1>8. TypeOK'
  <2>1. shared' \subseteq Sockets
    BY <1>1 DEF TypeOK, Others
  <2>2. /\ mine' \in [Sockets -> Sockets \cup {None}]
        /\ registry' \in [Clients -> Sockets \cup {None}]
        /\ running' \subseteq Sockets /\ sender' \subseteq Sockets
    <3>1. CASE registry[c] = None
      <4>1. mine' = [mine EXCEPT ![s] = s] /\ registry' = [registry EXCEPT ![c] = s]
        BY <1>3, <3>1
      <4>2. running' = running \cup {s} /\ sender' = sender \cup {s}
        BY <1>3, <3>1
      <4> QED
        BY <4>1, <4>2 DEF TypeOK
    <3>2. CASE registry[c] # None
      BY <1>3, <1>4, <3>2 DEF TypeOK
    <3> QED
      BY <3>1, <3>2
  <2> QED
    BY <1>1, <2>1, <2>2 DEF TypeOK, bufVars
<1>9. /\ \A d \in Clients \ {c} : registry'[d] = registry[d]
      /\ registry[c] = None => registry'[c] = s /\ mine'[s] = s
      /\ registry[c] # None => registry'[c] = registry[c] /\ mine'[s] = registry[c]
  BY <1>3 DEF TypeOK
<1>10. OwnInv'
  <2>1. ASSUME NEW t \in Sockets, conn'[t] = "new"
        PROVE  /\ client'[t] = None /\ t \notin shared'
               /\ t \notin running' /\ t \notin sender'
    <3>1. t # s /\ conn[t] = "new" /\ client[t] = None
      BY <1>7, <2>1 DEF OwnInv
    <3>2. t \notin Others(c)
      BY <1>2, <3>1 DEF Others
    <3> QED
      BY <1>3, <1>6, <1>7, <3>1, <3>2 DEF OwnInv
  <2>2. ASSUME NEW t \in Sockets, conn'[t] # "new"
        PROVE  /\ client'[t] \in Clients /\ mine'[t] \in Sockets
               /\ client'[mine'[t]] = client'[t]
               /\ mine'[t] = t \/ t \in shared'
    <3>1. CASE t = s
      BY <1>4, <1>5, <1>6, <1>7, <1>9, <3>1 DEF Others
    <3>2. CASE t # s
      <4>1. conn[t] # "new" /\ client[mine[t]] = client[t] /\ client[t] \in Clients
            /\ mine[t] \in Sockets
        BY <1>7, <2>2, <3>2 DEF OwnInv
      <4>2. mine[t] # s
        BY <1>2, <4>1, NoneAssumption
      <4> QED
        BY <1>6, <1>7, <2>2, <3>2, <4>1, <4>2 DEF OwnInv
    <3> QED
      BY <3>1, <3>2
  <2>3. ASSUME NEW t \in Sockets, NEW d \in Clients, registry'[d] = t
        PROVE  client'[t] = d /\ Live(t)'
    <3>1. CASE t = s
      <4>1. d = c
        BY <1>2, <1>5, <1>9, <2>3, <3>1 DEF OwnInv
      <4> QED
        BY <1>7, <3>1, <4>1 DEF Live
    <3>2. CASE t # s
      <4>1. registry[d] = t
        BY <1>9, <2>3, <3>2
      <4> QED
        BY <1>7, <3>2, <4>1 DEF OwnInv, Live
    <3> QED
      BY <3>1, <3>2
  <2>4. ASSUME NEW t \in Sockets, NEW u \in Sockets, Live(t)', Live(u)',
               client'[t] = client'[u], t # u
        PROVE  t \in shared'
    <3>1. CASE t = s
      <4>1. u \in Others(c)
        BY <1>7, <2>4, <3>1 DEF Others, Live
      <4> QED
        BY <1>6, <3>1, <4>1
    <3>2. CASE u = s
      <4>1. t \in Others(c)
        BY <1>7, <2>4, <3>2 DEF Others, Live
      <4> QED
        BY <1>6, <4>1
    <3>3. CASE t # s /\ u # s
      BY <1>6, <1>7, <2>4, <3>3 DEF OwnInv, Live
    <3> QED
      BY <3>1, <3>2, <3>3
  <2> QED
    BY <2>1, <2>2, <2>3, <2>4 DEF OwnInv
<1>11. ServedInv'
  <2> SUFFICES ASSUME NEW t \in Sockets
        PROVE /\ t \in up' => conn'[t] = "open"
              /\ conn'[t] \in {"draining", "removing"} =>
                    /\ victim'[t] \in Sockets /\ client'[victim'[t]] = client'[t]
                    /\ victim'[t] \notin running'
              /\ t \notin shared' =>
                    /\ conn'[t] = "open" =>
                          registry'[client'[t]] = t /\ t \in running' /\ t \in sender'
                    /\ conn'[t] \in {"draining", "removing"} => victim'[t] = t
                    /\ conn'[t] \in {"draining", "removing", "closed"} => t \notin running'
                    /\ conn'[t] \in {"removing", "closed"} => t \notin sender'
    BY DEF ServedInv
  <2>1. CASE t = s
    BY <1>3, <1>5, <1>6, <1>7, <1>9, <2>1
  <2>2. CASE t # s
    <3>1. /\ conn'[t] = conn[t] /\ client'[t] = client[t] /\ victim' = victim
          /\ t \in up' => t \in up
          /\ t \in running' <=> t \in running
          /\ t \in sender' <=> t \in sender
          /\ t \notin shared' => t \notin shared
      BY <1>1, <1>3, <1>6, <1>7, <2>2
    <3>2. ASSUME conn[t] \in {"draining", "removing"}
          PROVE  victim[t] # s /\ client'[victim[t]] = client[t] /\ victim[t] \notin running'
      <4>1. /\ victim[t] \in Sockets /\ client[victim[t]] = client[t]
            /\ victim[t] \notin running /\ client[t] \in Clients
        BY <3>2 DEF ServedInv, OwnInv
      <4>2. victim[t] # s
        BY <1>2, <4>1, NoneAssumption
      <4> QED
        BY <1>3, <1>7, <4>1, <4>2
    <3>3. ASSUME t \notin shared', conn[t] = "open"
          PROVE  registry'[client[t]] = t
      <4>1. registry[client[t]] = t /\ client[t] \in Clients
        BY <3>1, <3>3 DEF ServedInv, OwnInv
      <4>2. t \notin Others(c)
        BY <1>6, <3>3
      <4>3. client[t] # c
        BY <3>3, <4>2 DEF Others
      <4> QED
        BY <1>9, <4>1, <4>3
    <3> QED
      BY <3>1, <3>2, <3>3 DEF ServedInv
  <2> QED
    BY <2>1, <2>2
<1>12. OrderInv'
  <2>1. \A t \in Sockets : InFlight(t)' = InFlight(t)
    BY <1>1 DEF InFlight, bufVars
  <2>2. /\ UNCHANGED <<queue, sending, received, accepted>>
        /\ sending[s] = None
    BY <1>1 DEF OrderInv, bufVars
  <2>3. received[s] \o InFlight(s) \o queue[s] = accepted[s]
    <3>1. /\ received[s] = <<>> /\ InFlight(s) = <<>> /\ queue[s] = <<>>
          /\ accepted[s] = <<>>
      BY <1>1 DEF OrderInv, InFlight
    <3>2. <<>> \o <<>> \o <<>> = <<>>
      BY ConcatEmptySeq, EmptySeq
    <3> QED
      BY <3>1, <3>2
  <2>4. \A t \in Sockets : t # s =>
            /\ conn'[t] = conn[t]
            /\ t \in sender' <=> t \in sender
            /\ t \in up' => t \in up
    BY <1>1, <1>3, <1>7
  <2>5. ASSUME NEW t \in Sockets, t # s
        PROVE  /\ conn'[t] = "new" => /\ queue'[t] = <<>> /\ sending'[t] = None
                                      /\ received'[t] = <<>> /\ accepted'[t] = <<>>
               /\ t \notin sender' => sending'[t] = None
               /\ \E rest \in Seq(Messages) : received'[t] \o rest = accepted'[t]
               /\ t \in up' /\ t \in sender' =>
                     received'[t] \o InFlight(t)' \o queue'[t] = accepted'[t]
    BY <2>1, <2>2, <2>4, <2>5 DEF OrderInv
  <2>6. \E rest \in Seq(Messages) : received[s] \o rest = accepted[s]
    BY DEF OrderInv
  <2> QED
    BY <1>7, <2>1, <2>2, <2>3, <2>5, <2>6 DEF OrderInv
<1> QED
  BY <1>8, <1>10, <1>11, <1>12

\* Steps that leave connections, registrations and buffers as they are.
LEMMA OwnersKept ==
    ASSUME OwnInv, ServedInv, UNCHANGED <<connVars, taskVars, shared>>
    PROVE  OwnInv' /\ ServedInv'
  BY DEF OwnInv, ServedInv, Live, connVars, taskVars

\* A message is put into some buffers.
LEMMA GiveKeeps ==
    ASSUME CInv, NEW m \in Messages, NEW B, Give(m, B),
           snapshots' \in [Sockets -> SUBSET Messages]
    PROVE  CInv'
<1> USE DEF CInv
<1>1. /\ used' = used \cup {m}
      /\ queue' = [b \in Sockets |->
                    IF b \in Takers(B) THEN Append(queue[b], m) ELSE queue[b]]
      /\ accepted' = [b \in Sockets |->
                    IF b \in Takers(B) THEN Append(accepted[b], m) ELSE accepted[b]]
      /\ UNCHANGED <<connVars, taskVars, sending, shared, received>>
  BY DEF Give
<1>2. \A b \in Sockets : b \in Takers(B) => b \in running /\ Len(queue[b]) < MaxSize
  BY DEF Takers
<1>3. \A b \in Sockets : /\ queue[b] \in Seq(Messages) /\ accepted[b] \in Seq(Messages)
                         /\ received[b] \in Seq(Messages)
                         /\ Len(queue[b]) <= MaxSize
  BY DEF TypeOK
<1>4. \A b \in Sockets : queue'[b] \in Seq(Messages) /\ accepted'[b] \in Seq(Messages)
  BY <1>1, <1>3, AppendProperties
<1>5. \A b \in Sockets : Len(queue'[b]) <= MaxSize
  <2>1. ASSUME NEW b \in Sockets PROVE Len(queue'[b]) <= MaxSize
    <3>1. CASE b \in Takers(B)
      <4>1. queue'[b] = Append(queue[b], m) /\ Len(queue[b]) < MaxSize
        BY <1>1, <1>2, <3>1
      <4>2. Len(Append(queue[b], m)) = Len(queue[b]) + 1 /\ Len(queue[b]) \in Nat
        BY <1>3, AppendProperties, LenProperties
      <4> QED
        BY <4>1, <4>2, SizeAssumption
    <3>2. CASE b \notin Takers(B)
      BY <1>1, <1>3, <3>2
    <3> QED
      BY <3>1, <3>2
  <2> QED
    BY <2>1
<1>6. TypeOK'
  <2>1. UNCHANGED <<conn, up, client, mine, victim, registry, running, sender, sending,
                    shared, received>>
    BY <1>1 DEF connVars, taskVars
  <2>2. /\ queue' \in [Sockets -> Seq(Messages)] /\ accepted' \in [Sockets -> Seq(Messages)]
        /\ used' \subseteq Messages
    BY <1>1, <1>4 DEF TypeOK
  <2> QED
    BY <1>5, <2>1, <2>2 DEF TypeOK
<1>7. OwnInv' /\ ServedInv'
  <2>1. UNCHANGED <<connVars, taskVars, shared>>
    BY <1>1
  <2> QED
    BY <2>1, OwnersKept
<1>8. OrderInv'
  <2> SUFFICES ASSUME NEW s \in Sockets
               PROVE  /\ conn'[s] = "new" => /\ queue'[s] = <<>> /\ sending'[s] = None
                                             /\ received'[s] = <<>> /\ accepted'[s] = <<>>
                      /\ s \notin sender' => sending'[s] = None
                      /\ \E rest \in Seq(Messages) : received'[s] \o rest = accepted'[s]
                      /\ s \in up' /\ s \in sender' =>
                            received'[s] \o InFlight(s)' \o queue'[s] = accepted'[s]
    BY DEF OrderInv
  <2>1. /\ InFlight(s)' = InFlight(s) /\ received'[s] = received[s]
        /\ conn'[s] = conn[s] /\ up' = up /\ sending'[s] = sending[s]
        /\ sender' = sender
    BY <1>1 DEF InFlight, connVars, taskVars
  <2>2. CASE s \notin Takers(B)
    BY <1>1, <2>1, <2>2 DEF OrderInv
  <2>3. CASE s \in Takers(B)
    <3>1. s \in running
      BY <1>2, <2>3
    <3>2. conn[s] # "new"
      BY <3>1 DEF OwnInv
    <3>3. queue'[s] = Append(queue[s], m) /\ accepted'[s] = Append(accepted[s], m)
      BY <1>1, <2>3
    <3>4. InFlight(s) \in Seq(Messages)
      BY DEF InFlight, TypeOK
    <3>5. received[s] \o InFlight(s) \o Append(queue[s], m)
            = Append(received[s] \o InFlight(s) \o queue[s], m)
      <4>1. \A r, f, q \in Seq(Messages) :
                r \o f \o Append(q, m) = Append(r \o f \o q, m)
        BY AppendLast
      <4>2. received[s] \in Seq(Messages) /\ queue[s] \in Seq(Messages)
        BY <1>3
      <4> HIDE DEF CInv
      <4> QED
        BY <3>4, <4>1, <4>2
    <3>6. \E rest \in Seq(Messages) : received'[s] \o rest = accepted'[s]
      <4>1. PICK rest \in Seq(Messages) : received[s] \o rest = accepted[s]
        BY DEF OrderInv
      <4>2. Append(rest, m) \in Seq(Messages)
            /\ received[s] \o Append(rest, m) = Append(accepted[s], m)
        <5>1. \A r0, q \in Seq(Messages) :
                /\ Append(q, m) \in Seq(Messages)
                /\ r0 \o Append(q, m) = Append(r0 \o q, m)
          BY AppendBehind
        <5>2. received[s] \in Seq(Messages)
          BY <1>3
        <5> HIDE DEF CInv
        <5> QED
          BY <4>1, <5>1, <5>2
      <4>3. received'[s] \o Append(rest, m) = accepted'[s]
        BY <2>1, <3>3, <4>2
      <4> QED
        BY <4>2, <4>3
    <3> QED
      BY <2>1, <3>2, <3>3, <3>5, <3>6 DEF OrderInv
  <2> QED
    BY <2>2, <2>3
<1> QED
  BY <1>6, <1>7, <1>8

LEMMA StartSendKeeps ==
    ASSUME CInv, NEW b \in Sockets, StartSend(b)
    PROVE  CInv'
<1> USE DEF CInv
<1>1. /\ b \in sender /\ sending[b] = None /\ queue[b] # <<>>
      /\ sending' = [sending EXCEPT ![b] = Head(queue[b])]
      /\ queue' = [queue EXCEPT ![b] = Tail(queue[b])]
      /\ UNCHANGED <<connVars, taskVars, histVars>>
  BY DEF StartSend
<1>2. /\ queue[b] \in Seq(Messages) /\ received[b] \in Seq(Messages)
      /\ Len(queue[b]) <= MaxSize
  BY DEF TypeOK
<1>3. /\ Head(queue[b]) \in Messages /\ Tail(queue[b]) \in Seq(Messages)
      /\ Len(Tail(queue[b])) = Len(queue[b]) - 1 /\ Len(queue[b]) \in Nat
  BY <1>1, <1>2, HeadTailProperties, LenProperties
<1>4. /\ sending'[b] = Head(queue[b]) /\ queue'[b] = Tail(queue[b])
      /\ \A s \in Sockets : s # b => sending'[s] = sending[s] /\ queue'[s] = queue[s]
  BY <1>1 DEF TypeOK
<1>5. Len(Tail(queue[b])) <= MaxSize
  BY <1>2, <1>3, SizeAssumption
<1>6. TypeOK'
  BY <1>1, <1>3, <1>5 DEF TypeOK, connVars, taskVars, histVars
<1>7. OwnInv' /\ ServedInv'
  BY <1>1, OwnersKept DEF histVars
<1>8. InFlight(b) = <<>> /\ InFlight(b)' = <<Head(queue[b])>>
  BY <1>1, <1>3, <1>4, NoneAssumption DEF InFlight
<1>9. received[b] \o <<Head(queue[b])>> \o Tail(queue[b]) = received[b] \o <<>> \o queue[b]
  BY <1>1, <1>2, HeadFirst
<1>10. \A s \in Sockets : s # b => InFlight(s)' = InFlight(s)
  BY <1>4 DEF InFlight
<1>11. conn[b] # "new"
  BY <1>1 DEF OwnInv
<1>12. OrderInv'
  BY <1>1, <1>4, <1>8, <1>9, <1>10, <1>11 DEF OrderInv, connVars, taskVars, histVars
<1> QED
  BY <1>6, <1>7, <1>12

LEMMA EndSendKeeps ==
    ASSUME CInv, NEW b \in Sockets, EndSend(b)
    PROVE  CInv'
<1> USE DEF CInv
<1>1. /\ b \in sender /\ sending[b] # None
      /\ sending' = [sending EXCEPT ![b] = None]
      /\ b \in up => received' = [received EXCEPT ![b] = Append(received[b], sending[b])]
      /\ b \notin up => received' = received
      /\ UNCHANGED <<connVars, taskVars, queue, used, shared, snapshots, accepted>>
  BY DEF EndSend, Arrives
<1>2. /\ sending[b] \in Messages /\ received[b] \in Seq(Messages)
      /\ queue[b] \in Seq(Messages)
  BY <1>1 DEF TypeOK
<1>3. Append(received[b], sending[b]) \in Seq(Messages)
  BY <1>2, AppendProperties
<1>4. TypeOK'
  <2>1. sending' \in [Sockets -> Messages \cup {None}]
    BY <1>1 DEF TypeOK
  <2>2. received' \in [Sockets -> Seq(Messages)]
    BY <1>1, <1>3 DEF TypeOK
  <2> QED
    BY <1>1, <2>1, <2>2 DEF TypeOK, connVars, taskVars
<1>5. OwnInv' /\ ServedInv'
  BY <1>1, OwnersKept
<1>6. InFlight(b) = <<sending[b]>> /\ InFlight(b)' = <<>>
  BY <1>1 DEF InFlight, TypeOK
<1>7. Append(received[b], sending[b]) \o <<>> \o queue[b]
        = received[b] \o <<sending[b]>> \o queue[b]
  <2>1. \A r, q \in Seq(Messages), m \in Messages :
            Append(r, m) \o <<>> \o q = r \o <<m>> \o q
    BY ArriveFirst
  <2> QED
    BY <1>2, <2>1
<1>8. \A s \in Sockets : s # b => InFlight(s)' = InFlight(s) /\ received'[s] = received[s]
                                  /\ sending'[s] = sending[s]
  BY <1>1 DEF InFlight, TypeOK
<1>9. conn[b] # "new"
  BY <1>1 DEF OwnInv
<1>10. b \in up => received'[b] = Append(received[b], sending[b])
  BY <1>1 DEF TypeOK
<1>11. \E rest \in Seq(Messages) : received'[b] \o rest = accepted[b]
  <2>1. CASE b \in up
    <3>1. received[b] \o <<sending[b]>> \o queue[b] = accepted[b]
      BY <1>1, <1>6, <2>1 DEF OrderInv
    <3>2. Append(received[b], sending[b]) \o queue[b] = accepted[b]
      <4>1. \A r, q \in Seq(Messages), m \in Messages :
                Append(r, m) \o q = r \o <<m>> \o q
        BY ArriveInFront
      <4> QED
        BY <1>2, <3>1, <4>1
    <3> QED
      BY <1>2, <1>10, <2>1, <3>2
  <2>2. CASE b \notin up
    BY <1>1, <2>2 DEF OrderInv
  <2> QED
    BY <2>1, <2>2
<1>12. OrderInv'
  <2>1. UNCHANGED <<conn, up, sender, queue, accepted>>
    BY <1>1 DEF connVars, taskVars
  <2>2. sending'[b] = None /\ conn'[b] # "new"
    BY <1>1, <1>9, <2>1 DEF TypeOK
  <2>3. b \in up => received'[b] \o InFlight(b)' \o queue[b] = accepted[b]
    BY <1>1, <1>6, <1>7, <1>10 DEF OrderInv
  <2>4. ASSUME NEW s \in Sockets, s # b
        PROVE  /\ s \notin sender' => sending'[s] = None
               /\ conn'[s] = "new" => /\ queue'[s] = <<>> /\ sending'[s] = None
                                      /\ received'[s] = <<>> /\ accepted'[s] = <<>>
               /\ \E rest \in Seq(Messages) : received'[s] \o rest = accepted'[s]
               /\ s \in up' /\ s \in sender' =>
                     received'[s] \o InFlight(s)' \o queue'[s] = accepted'[s]
    BY <1>8, <2>1, <2>4 DEF OrderInv
  <2> QED
    BY <1>11, <2>1, <2>2, <2>3, <2>4 DEF OrderInv
<1> QED
  BY <1>4, <1>5, <1>12

\* A sender that never began served nobody.
LEMMA SenderQuitsKeeps ==
    ASSUME CInv, NEW b \in Sockets, SenderQuits(b)
    PROVE  CInv'
<1> USE DEF CInv
<1>1. /\ b \in sender /\ b \notin running /\ sender' = sender \ {b}
      /\ sending[b] = None
      /\ UNCHANGED <<connVars, registry, running, bufVars, histVars>>
  BY DEF SenderQuits
<1>2. TypeOK'
  BY <1>1 DEF TypeOK, connVars, bufVars, histVars
<1>3. UNCHANGED <<conn, up, client, mine, victim, registry, running, shared>>
      /\ \A s \in Sockets : s \in running => (s \in sender' <=> s \in sender)
  BY <1>1 DEF connVars, histVars
<1>4. OwnInv'
  BY <1>1, <1>3 DEF OwnInv, Live
<1>5. ServedInv'
  BY <1>1, <1>3 DEF ServedInv
<1>6. OrderInv'
  BY <1>1 DEF OrderInv, InFlight, connVars, bufVars, histVars
<1> QED
  BY <1>2, <1>4, <1>5, <1>6

\* Another live connection of the id is not the one whose id is not shared.
LEMMA NotMine ==
    ASSUME OwnInv, NEW s \in Sockets, NEW t \in Sockets, Live(s), Live(t), s # t,
           s \notin shared
    PROVE  client[s] # client[t]
  BY DEF OwnInv

LEMMA HandlerEndsKeeps ==
    ASSUME CInv, NEW s \in Sockets, HandlerEnds(s)
    PROVE  CInv'
<1> USE DEF CInv
<1> DEFINE b == registry[client[s]]
<1>1. /\ conn[s] = "open" /\ s \notin up /\ client[s] \in Clients /\ Live(s)
      /\ UNCHANGED <<up, client, mine, sender, bufVars, histVars>>
  BY DEF HandlerEnds, OwnInv, Live
<1>2. \A t \in Sockets \ {s} : Live(t) /\ t \notin shared => client[t] # client[s]
  BY <1>1, NotMine
<1>3. shared' = shared
  BY <1>1 DEF histVars
<1>4. CASE b \in running
  <2>1. /\ conn' = [conn EXCEPT ![s] = "draining"]
        /\ victim' = [victim EXCEPT ![s] = b]
        /\ running' = running \ {b} /\ registry' = registry
    BY <1>4 DEF HandlerEnds
  <2>2. b \in Sockets /\ client[b] = client[s] /\ Live(b)
    BY <1>1, <1>4 DEF OwnInv, TypeOK
  <2>3. s \notin shared => b = s
    BY <1>1 DEF ServedInv
  <2>4. /\ conn'[s] = "draining" /\ victim'[s] = b
        /\ \A t \in Sockets \ {s} : conn'[t] = conn[t] /\ victim'[t] = victim[t]
    BY <2>1 DEF TypeOK
  <2>5. TypeOK'
    BY <1>1, <2>1, <2>2 DEF TypeOK, bufVars, histVars
  <2>6. OwnInv'
    BY <1>1, <1>3, <2>1, <2>4 DEF OwnInv, Live
  <2>7. ServedInv'
    <3>1. ASSUME NEW t \in Sockets \ {s}, t \notin shared, conn[t] = "open"
          PROVE  t # b
      BY <1>2, <2>2, <3>1 DEF Live
    <3> QED
      BY <1>1, <1>3, <2>1, <2>2, <2>3, <2>4, <3>1 DEF ServedInv
  <2>8. OrderInv'
    BY <1>1, <2>4 DEF OrderInv, InFlight, bufVars, histVars
  <2> QED
    BY <2>5, <2>6, <2>7, <2>8
<1>5. CASE b \notin running
  <2>1. /\ conn' = [conn EXCEPT ![s] = "closed"]
        /\ registry' = [registry EXCEPT ![client[s]] = None]
        /\ UNCHANGED <<victim, running>>
    BY <1>5 DEF HandlerEnds
  <2>2. s \in shared
    BY <1>1, <1>5 DEF ServedInv
  <2>3. /\ conn'[s] = "closed"
        /\ \A t \in Sockets \ {s} : conn'[t] = conn[t]
        /\ registry'[client[s]] = None
        /\ \A c \in Clients \ {client[s]} : registry'[c] = registry[c]
    BY <1>1, <2>1 DEF TypeOK
  <2>4. TypeOK'
    BY <1>1, <2>1 DEF TypeOK, bufVars, histVars
  <2>5. OwnInv'
    <3>1. ASSUME NEW t \in Sockets, NEW c \in Clients, registry'[c] = t
          PROVE  c # client[s] /\ t # s /\ registry[c] = t
      BY <1>1, <2>3, <3>1, NoneAssumption DEF OwnInv
    <3> QED
      BY <1>1, <1>3, <2>1, <2>3, <3>1 DEF OwnInv, Live
  <2>6. ServedInv'
    <3>1. ASSUME NEW t \in Sockets \ {s}, t \notin shared, conn[t] = "open"
          PROVE  registry'[client[t]] = registry[client[t]]
      BY <1>2, <2>3, <3>1 DEF OwnInv, Live
    <3> QED
      BY <1>1, <1>3, <2>1, <2>2, <2>3, <3>1 DEF ServedInv
  <2>7. OrderInv'
    BY <1>1, <2>3 DEF OrderInv, InFlight, bufVars, histVars
  <2> QED
    BY <2>4, <2>5, <2>6, <2>7
<1> QED
  BY <1>4, <1>5

LEMMA CancelSenderKeeps ==
    ASSUME CInv, NEW s \in Sockets, CancelSender(s)
    PROVE  CInv'
<1> USE DEF CInv
<1> DEFINE b == victim[s]
<1>1. /\ conn[s] = "draining" /\ conn' = [conn EXCEPT ![s] = "removing"]
      /\ sender' = sender \ {b} /\ sending' = [sending EXCEPT ![b] = None]
      /\ UNCHANGED <<up, client, mine, victim, registry, running, queue>>
      /\ UNCHANGED <<used, shared, snapshots, accepted>>
  BY DEF CancelSender
<1>2. \/ received' = received
      \/ b \in up /\ sending[b] # None /\ Arrives(b)
  BY DEF CancelSender
<1>3. /\ b \in Sockets /\ client[b] = client[s] /\ b \notin running
      /\ s \notin shared => b = s
      /\ s \notin up /\ Live(s) /\ client[s] \in Clients
  BY <1>1 DEF ServedInv, OwnInv, Live
<1>4. /\ conn'[s] = "removing"
      /\ \A t \in Sockets \ {s} : conn'[t] = conn[t]
      /\ sending'[b] = None /\ \A t \in Sockets \ {b} : sending'[t] = sending[t]
      /\ \A t \in Sockets \ {b} : received'[t] = received[t]
      /\ \/ received'[b] = received[b]
         \/ b \in up /\ sending[b] # None
            /\ received'[b] = Append(received[b], sending[b])
  BY <1>1, <1>2, <1>3 DEF TypeOK, Arrives
<1>5. TypeOK'
  <2>1. received' \in [Sockets -> Seq(Messages)]
    <3>1. CASE received' = received
      BY <3>1 DEF TypeOK
    <3>2. CASE sending[b] # None /\ Arrives(b)
      <4>1. sending[b] \in Messages /\ received[b] \in Seq(Messages)
        BY <1>3, <3>2 DEF TypeOK
      <4>2. Append(received[b], sending[b]) \in Seq(Messages)
        BY <4>1, AppendProperties
      <4> QED
        BY <3>2, <4>2 DEF Arrives, TypeOK
    <3> QED
      BY <1>2, <3>1, <3>2
  <2> QED
    BY <1>1, <1>3, <2>1 DEF TypeOK
<1>6. OwnInv'
  BY <1>1, <1>4 DEF OwnInv, Live
<1>7. ServedInv'
  BY <1>1, <1>3, <1>4 DEF ServedInv
<1>8. OrderInv'
  <2>1. ASSUME NEW t \in Sockets, t # b
        PROVE  /\ InFlight(t)' = InFlight(t)
               /\ t \in sender' <=> t \in sender
    BY <1>1, <1>4, <2>1 DEF InFlight
  <2>2. \E rest \in Seq(Messages) : received'[b] \o rest = accepted[b]
    <3>1. CASE received'[b] = received[b]
      BY <1>3, <3>1 DEF OrderInv
    <3>2. CASE /\ b \in up /\ sending[b] # None
               /\ received'[b] = Append(received[b], sending[b])
      <4>1. /\ sending[b] \in Messages /\ received[b] \in Seq(Messages)
            /\ queue[b] \in Seq(Messages) /\ InFlight(b) = <<sending[b]>>
        BY <1>3, <3>2 DEF TypeOK, InFlight
      <4>2. CASE b \in sender
        <5>1. received[b] \o <<sending[b]>> \o queue[b] = accepted[b]
          BY <1>3, <3>2, <4>1, <4>2 DEF OrderInv
        <5>2. \A r, q \in Seq(Messages), m \in Messages :
                Append(r, m) \o q = r \o <<m>> \o q
          BY ArriveInFront
        <5>3. Append(received[b], sending[b]) \o queue[b] = accepted[b]
          BY <4>1, <5>1, <5>2
        <5> QED
          BY <3>2, <4>1, <5>3
      <4>3. CASE b \notin sender
        BY <1>3, <3>2, <4>3 DEF OrderInv
      <4> QED
        BY <4>2, <4>3
    <3> QED
      BY <1>4, <3>1, <3>2
  <2>3. conn'[b] = "new" => /\ queue[b] = <<>> /\ received'[b] = <<>>
                            /\ accepted[b] = <<>>
    BY <1>1, <1>3, <1>4 DEF OrderInv
  <2>4. b \notin sender'
    BY <1>1
  <2>5. ASSUME NEW t \in Sockets, t # b
        PROVE  /\ t \notin sender' => sending'[t] = None
               /\ conn'[t] = "new" => /\ queue[t] = <<>> /\ sending'[t] = None
                                      /\ received'[t] = <<>> /\ accepted[t] = <<>>
               /\ \E rest \in Seq(Messages) : received'[t] \o rest = accepted[t]
               /\ t \in up /\ t \in sender' =>
                     received'[t] \o InFlight(t)' \o queue[t] = accepted[t]
    <3>1. received'[t] = received[t] /\ sending'[t] = sending[t]
      BY <1>4, <2>5
    <3>2. conn'[t] = "new" => conn[t] = "new"
      BY <1>4
    <3> QED
      BY <2>1, <2>5, <3>1, <3>2 DEF OrderInv
  <2> QED
    BY <1>1, <1>4, <2>2, <2>3, <2>4, <2>5 DEF OrderInv
<1> QED
  BY <1>5, <1>6, <1>7, <1>8

LEMMA RemoveBufferKeeps ==
    ASSUME CInv, NEW s \in Sockets, RemoveBuffer(s)
    PROVE  CInv'
<1> USE DEF CInv
<1>1. /\ conn[s] = "removing" /\ conn' = [conn EXCEPT ![s] = "closed"]
      /\ registry' = [registry EXCEPT ![client[s]] = None]
      /\ UNCHANGED <<up, client, mine, victim, running, sender, bufVars, histVars>>
  BY DEF RemoveBuffer
<1>2. Live(s) /\ client[s] \in Clients /\ s \notin up
  BY <1>1 DEF OwnInv, ServedInv, Live
<1>3. \A t \in Sockets \ {s} : Live(t) /\ t \notin shared => client[t] # client[s]
  BY <1>2, NotMine
<1>4. /\ conn'[s] = "closed"
      /\ \A t \in Sockets \ {s} : conn'[t] = conn[t]
      /\ registry'[client[s]] = None
      /\ \A c \in Clients \ {client[s]} : registry'[c] = registry[c]
      /\ shared' = shared
  BY <1>1, <1>2 DEF TypeOK, histVars
<1>5. TypeOK'
  BY <1>1 DEF TypeOK, bufVars, histVars
<1>6. OwnInv'
  <2>1. ASSUME NEW t \in Sockets, NEW c \in Clients, registry'[c] = t
        PROVE  c # client[s] /\ t # s /\ registry[c] = t
    BY <1>4, <2>1, NoneAssumption DEF OwnInv
  <2> QED
    BY <1>1, <1>4, <2>1 DEF OwnInv, Live
<1>7. ServedInv'
  <2>1. ASSUME NEW t \in Sockets \ {s}, t \notin shared, conn[t] = "open"
        PROVE  registry'[client[t]] = registry[client[t]]
    BY <1>3, <1>4, <2>1 DEF OwnInv, Live
  <2>2. s \notin shared => s \notin running /\ s \notin sender
    BY <1>1 DEF ServedInv
  <2> QED
    BY <1>1, <1>2, <1>4, <2>1, <2>2 DEF ServedInv
<1>8. OrderInv'
  BY <1>1, <1>4 DEF OrderInv, InFlight, bufVars, histVars
<1> QED
  BY <1>5, <1>6, <1>7, <1>8

LEMMA BreakKeeps ==
    ASSUME CInv, NEW s \in Sockets, Break(s)
    PROVE  CInv'
<1> USE DEF CInv
<1>1. up' = up \ {s} /\ UNCHANGED <<conn, client, mine, victim, taskVars, bufVars, histVars>>
  BY DEF Break
<1>2. TypeOK' /\ OwnInv'
  BY <1>1 DEF TypeOK, OwnInv, Live, taskVars, bufVars, histVars
<1>3. ServedInv'
  BY <1>1 DEF ServedInv, taskVars, histVars
<1>4. OrderInv'
  BY <1>1 DEF OrderInv, InFlight, taskVars, bufVars, histVars
<1> QED
  BY <1>2, <1>3, <1>4
-----------------------------------------------------------------------------
LEMMA Init_CInv == Init => CInv
<1> SUFFICES ASSUME Init PROVE CInv
  OBVIOUS
<1>1. <<>> \in Seq(Messages) /\ Len(<<>>) = 0 /\ <<>> \o <<>> = <<>>
  BY EmptySeq, ConcatEmptySeq
<1>2. TypeOK
  BY <1>1, SizeAssumption DEF Init, TypeOK
<1>3. OwnInv /\ ServedInv
  BY NoneAssumption DEF Init, OwnInv, ServedInv, Live
<1>4. OrderInv
  BY <1>1 DEF Init, OrderInv
<1> QED
  BY <1>2, <1>3, <1>4 DEF CInv

LEMMA Next_CInv == CInv /\ [Next]_vars => CInv'
<1> SUFFICES ASSUME CInv, [Next]_vars PROVE CInv'
  OBVIOUS
<1>1. ASSUME NEW s \in Sockets, NEW c \in Clients, Connect(s, c) PROVE CInv'
  BY <1>1, ConnectKeeps
<1>2. ASSUME NEW m \in Messages, Broadcast(m) PROVE CInv'
  BY <1>2, GiveKeeps DEF Broadcast, CInv, TypeOK
<1>3. ASSUME NEW s \in Sockets, NEW m \in Messages, Subscribe(s, m) PROVE CInv'
  <2>1. snapshots' \in [Sockets -> SUBSET Messages]
    BY <1>3 DEF Subscribe, CInv, TypeOK
  <2> QED
    BY <1>3, <2>1, GiveKeeps DEF Subscribe
<1>4. ASSUME NEW s \in Sockets, SenderQuits(s) \/ StartSend(s) \/ EndSend(s) PROVE CInv'
  BY <1>4, SenderQuitsKeeps, StartSendKeeps, EndSendKeeps
<1>5. ASSUME NEW s \in Sockets,
             Break(s) \/ HandlerEnds(s) \/ CancelSender(s) \/ RemoveBuffer(s)
      PROVE  CInv'
  BY <1>5, BreakKeeps, HandlerEndsKeeps, CancelSenderKeeps, RemoveBufferKeeps
<1>6. CASE UNCHANGED vars
  <2>1. UNCHANGED <<connVars, taskVars, bufVars, histVars>>
    BY <1>6 DEF vars
  <2>2. OwnInv' /\ ServedInv'
    BY <2>1, OwnersKept DEF CInv, histVars
  <2> QED
    BY <2>1, <2>2 DEF connVars, taskVars, bufVars, histVars, CInv, TypeOK, OrderInv,
                      InFlight
<1> QED
  BY <1>1, <1>2, <1>3, <1>4, <1>5, <1>6 DEF Next

LEMMA Spec_CInv == Spec => []CInv
  BY Init_CInv, Next_CInv, PTL DEF Spec

\* Every reachable state is well typed; in particular no buffer holds more than
\* its maxsize.
THEOREM BuffersTypeCorrect == Spec => []TypeOK
<1>1. CInv => TypeOK
  BY DEF CInv
<1> QED
  BY <1>1, Spec_CInv, PTL

\* However connections share ids, break and are cleaned up, an open connection
\* whose id no other used beside it has a registered buffer of its own with a
\* sender task.
THEOREM ServedCorrect == Spec => []OpenIsServed
<1>1. CInv => OpenIsServed
  BY DEF CInv, OwnInv, ServedInv, OpenIsServed
<1> QED
  BY <1>1, Spec_CInv, PTL

\* A closed connection leaves no registration behind, and none whose id was not
\* shared a buffer that accepts messages or a sender task.
THEOREM CleanupCorrect == Spec => []ClosedLeavesNothing
<1>1. CInv => ClosedLeavesNothing
  BY DEF CInv, OwnInv, ServedInv, Live, ClosedLeavesNothing
<1> QED
  BY <1>1, Spec_CInv, PTL

\* Whoever shuts a buffer down, the browser has received the first of what it
\* accepted, in order, and while connection and sender live the rest is in
\* flight or queued.
THEOREM OrderCorrect == Spec => []DeliveredInOrder
<1>1. CInv => DeliveredInOrder
  <2> SUFFICES ASSUME CInv, NEW s \in Sockets
               PROVE  /\ IsPrefix(received[s], accepted[s])
                      /\ s \in up \cap sender =>
                            received[s] \o InFlight(s) \o queue[s] = accepted[s]
    BY DEF DeliveredInOrder
  <2>1. PICK rest \in Seq(Messages) : received[s] \o rest = accepted[s]
    BY DEF CInv, OrderInv
  <2>2. received[s] \in Seq(Messages)
    BY DEF CInv, TypeOK
  <2>3. IsPrefix(received[s], accepted[s])
    BY <2>1, <2>2, PrefixOfWhole
  <2> QED
    BY <2>3 DEF CInv, OrderInv
<1> QED
  BY <1>1, Spec_CInv, PTL
-----------------------------------------------------------------------------
(***************************************************************************)
(* Where a snapshot is: waiting for, being sent over, or received from the *)
(* connection that asked for it, or one that shares its id.  A message is  *)
(* sent once.                                                              *)
(***************************************************************************)
Holds(t, m) ==
    \/ \E i \in DOMAIN queue[t] : queue[t][i] = m
    \/ sending[t] = m
    \/ \E i \in DOMAIN received[t] : received[t][i] = m

PrivateInv ==
    /\ \A s \in Sockets : snapshots[s] \subseteq used
    /\ \A t \in Sockets, m \in Messages : Holds(t, m) =>
         /\ m \in used
         /\ \A s \in Sockets \ {t} :
               m \in snapshots[s] => s \in shared /\ client[t] = client[s]

\* Sending moves messages of a connection, and brings it none.
LEMMA MovesPrivate ==
    ASSUME PrivateInv, UNCHANGED <<client, used, shared, snapshots>>,
           \A t \in Sockets, m \in Messages : Holds(t, m)' => Holds(t, m)
    PROVE  PrivateInv'
  BY DEF PrivateInv

\* A new message goes to buffers, a snapshot to the one its reader was given.
LEMMA GivePrivate ==
    ASSUME CInv, PrivateInv, NEW m \in Messages, NEW B, Give(m, B),
           \/ snapshots' = snapshots
           \/ \E s \in Sockets :
                /\ conn[s] # "new" /\ B = {mine[s]}
                /\ snapshots' = [snapshots EXCEPT ![s] = @ \cup {m}]
    PROVE  PrivateInv'
<1>1. /\ m \notin used /\ used' = used \cup {m}
      /\ queue' = [b \in Sockets |->
                    IF b \in Takers(B) THEN Append(queue[b], m) ELSE queue[b]]
      /\ UNCHANGED <<sending, received, client, shared>>
  BY DEF Give, connVars
<1>2. ASSUME NEW t \in Sockets, NEW n \in Messages, Holds(t, n)'
      PROVE  Holds(t, n) \/ (n = m /\ t \in B)
  <2>1. queue[t] \in Seq(Messages)
    BY DEF CInv, TypeOK
  <2>2. CASE t \in Takers(B)
    <3>1. queue'[t] = Append(queue[t], m) /\ t \in B
      BY <1>1, <2>2 DEF Takers
    <3>2. \A i \in DOMAIN queue'[t] :
            queue'[t][i] = m \/ (i \in DOMAIN queue[t] /\ queue'[t][i] = queue[t][i])
      BY <2>1, <3>1
    <3>3. QED
      BY <1>1, <1>2, <3>1, <3>2 DEF Holds
  <2>3. CASE t \notin Takers(B)
    BY <1>1, <1>2, <2>3 DEF Holds
  <2>4. QED
    BY <2>2, <2>3
<1>3. \A t \in Sockets : ~Holds(t, m)
  BY <1>1 DEF PrivateInv
<1>4. \A s \in Sockets : m \notin snapshots[s]
  BY <1>1 DEF PrivateInv
<1>5. /\ \A s \in Sockets : snapshots'[s] \subseteq snapshots[s] \cup {m}
      /\ \A s \in Sockets : m \in snapshots'[s] => B = {mine[s]} /\ conn[s] # "new"
  BY <1>4 DEF CInv, TypeOK
<1>6. ASSUME NEW s \in Sockets, NEW t \in Sockets \ {s}, m \in snapshots'[s], t \in B
      PROVE  s \in shared /\ client[t] = client[s]
  BY <1>5, <1>6 DEF CInv, OwnInv
<1>7. QED
  BY <1>1, <1>2, <1>3, <1>5, <1>6 DEF PrivateInv

LEMMA NextPrivate ==
    CInv /\ PrivateInv /\ [Next]_vars => PrivateInv'
<1>. SUFFICES ASSUME CInv, PrivateInv, [Next]_vars PROVE PrivateInv'
  OBVIOUS
<1>1. ASSUME UNCHANGED <<queue, sending, received, client, shared, used, snapshots>>
      PROVE  PrivateInv'
  BY <1>1 DEF PrivateInv, Holds
<1>2. ASSUME NEW s \in Sockets, NEW c \in Clients, Connect(s, c) PROVE PrivateInv'
  <2>1. /\ conn[s] = "new" /\ client' = [client EXCEPT ![s] = c]
        /\ shared \subseteq shared'
        /\ UNCHANGED <<queue, sending, received, used, snapshots>>
    BY <1>2 DEF Connect, bufVars
  <2>2. /\ s \notin shared /\ client[s] = None
        /\ \A t \in shared : t \in Sockets /\ client[t] # None
    BY <2>1, NoneAssumption DEF CInv, OwnInv, TypeOK
  <2>3. ASSUME NEW t \in Sockets, NEW u \in shared, client[t] = client[u]
        PROVE  u \in shared' /\ client'[t] = client'[u]
    BY <2>1, <2>2, <2>3 DEF CInv, TypeOK
  <2> QED
    BY <2>1, <2>3 DEF PrivateInv, Holds
<1>3. ASSUME NEW m \in Messages, Broadcast(m) PROVE PrivateInv'
  BY <1>3, GivePrivate DEF Broadcast
<1>4. ASSUME NEW s \in Sockets, NEW m \in Messages, Subscribe(s, m) PROVE PrivateInv'
  BY <1>4, GivePrivate DEF Subscribe
<1>5. ASSUME NEW b \in Sockets, StartSend(b) PROVE PrivateInv'
  <2>1. /\ queue[b] \in Seq(Messages) /\ queue[b] # <<>>
        /\ sending'[b] = Head(queue[b]) /\ queue'[b] = Tail(queue[b])
        /\ \A t \in Sockets \ {b} : sending'[t] = sending[t] /\ queue'[t] = queue[t]
        /\ UNCHANGED <<received, client, shared, used, snapshots>>
    BY <1>5 DEF StartSend, CInv, TypeOK, connVars, histVars
  <2>2. /\ 1 \in DOMAIN queue[b] /\ sending'[b] = queue[b][1]
        /\ \A i \in DOMAIN queue'[b] : i + 1 \in DOMAIN queue[b] /\ queue'[b][i] = queue[b][i + 1]
    BY <2>1
  <2>3. ASSUME NEW m \in Messages, Holds(b, m)' PROVE Holds(b, m)
    BY <2>1, <2>2, <2>3 DEF Holds
  <2>4. ASSUME NEW t \in Sockets \ {b}, NEW m \in Messages, Holds(t, m)' PROVE Holds(t, m)
    BY <2>1, <2>4 DEF Holds
  <2>5. \A t \in Sockets, m \in Messages : Holds(t, m)' => Holds(t, m)
    BY <2>3, <2>4
  <2>6. QED
    BY <2>1, <2>5, MovesPrivate
<1>6. ASSUME NEW b \in Sockets, sending'[b] = None,
             \A t \in Sockets \ {b} : sending'[t] = sending[t],
             \/ received' = received
             \/ sending[b] # None /\ Arrives(b),
             UNCHANGED <<queue, client, shared, used, snapshots>>
      PROVE  PrivateInv'
  <2>1. /\ received[b] \in Seq(Messages) /\ \A t \in Sockets \ {b} : received'[t] = received[t]
        /\ \/ received'[b] = received[b]
           \/ sending[b] \in Messages /\ received'[b] = Append(received[b], sending[b])
    BY <1>6 DEF Arrives, CInv, TypeOK
  <2>2. \A i \in DOMAIN received'[b] :
          received'[b][i] = sending[b]
            \/ (i \in DOMAIN received[b] /\ received'[b][i] = received[b][i])
    BY <2>1
  <2>3. \A m \in Messages : sending'[b] # m
    BY <1>6, NoneAssumption
  <2>4. QED
    BY <1>6, <2>1, <2>2, <2>3, MovesPrivate DEF Holds
<1>7. ASSUME NEW b \in Sockets, EndSend(b) PROVE PrivateInv'
  BY <1>6, <1>7 DEF EndSend, CInv, TypeOK, connVars
<1>8. ASSUME NEW s \in Sockets, CancelSender(s) PROVE PrivateInv'
  <2>1. victim[s] \in Sockets
    BY <1>8 DEF CancelSender, CInv, ServedInv
  <2>2. QED
    BY <1>6, <1>8, <2>1 DEF CancelSender, CInv, TypeOK
<1>9. ASSUME NEW s \in Sockets,
             SenderQuits(s) \/ Break(s) \/ HandlerEnds(s) \/ RemoveBuffer(s)
      PROVE  PrivateInv'
  BY <1>1, <1>9 DEF SenderQuits, Break, HandlerEnds, RemoveBuffer, connVars, bufVars,
                    histVars
<1>10. CASE UNCHANGED vars
  BY <1>1, <1>10 DEF vars, connVars, bufVars, histVars
<1>11. QED
  BY <1>2, <1>3, <1>4, <1>5, <1>7, <1>8, <1>9, <1>10 DEF Next

\* However buffers are shared, broken and reopened, a snapshot arrives nowhere
\* but at the connection that asked for it or at one whose id it shared.
THEOREM SnapshotPrivate == Spec => []SnapshotIsPrivate
<1>1. Init => PrivateInv
  BY NoneAssumption DEF Init, PrivateInv, Holds
<1>2. CInv /\ PrivateInv => SnapshotIsPrivate
  <2> SUFFICES ASSUME CInv, PrivateInv, NEW s \in Sockets, NEW t \in Sockets,
                      NEW m \in snapshots[s], m \in ToSet(received[t])
               PROVE  t = s \/ (s \in shared /\ client[t] = client[s])
    BY DEF SnapshotIsPrivate
  <2>1. m \in Messages /\ Holds(t, m)
    BY DEF CInv, TypeOK, Holds, ToSet
  <2> QED
    BY <2>1 DEF PrivateInv
<1>3. CInv /\ PrivateInv /\ [Next]_vars => PrivateInv'
  BY NextPrivate
<1>4. QED
  BY <1>1, <1>2, <1>3, Spec_CInv, PTL DEF Spec
=============================================================================
