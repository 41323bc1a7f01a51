-------------------------- MODULE DialogViewProofs --------------------------
(***************************************************************************)
(* Theorems about DialogView for every number of dialogs, messages, chunks,*)
(* consumers and places on the way: what the screen settles on, what it    *)
(* lists and how often, and which text a running answer shows.  The first  *)
(* are arguments about the last event of a dialog that is under way; the   *)
(* last ones follow the snapshots and the deltas from the bus to the       *)
(* screen, place by place.                                                 *)
(***************************************************************************)
EXTENDS DialogView, SequenceTheorems, TLAPS

Chunks == MsgIds \X Nat
Texts == Seq(Chunks)
Shown == {"idle", "thinking", "error", "completed"}
Streams == [msg : MsgIds, text : Texts, exact : BOOLEAN]
Entries == [msg : MsgIds, form : {"saved", "streamed"}]

StatusEvents == [type : {"status"}, id : Dialogs, to : Shown]
ErrorEvents == [type : {"error"}, id : Dialogs]
DeltaEvents ==
    [type : {"delta"}, id : Dialogs, msg : MsgIds, chunk : Chunks, sequence : Nat]
Snapshots(S) ==
    [type : {"snapshot"}, id : Dialogs, status : Shown, stream : S,
     messages : Seq(Entries), window : BOOLEAN]

Buffered == StatusEvents \cup ErrorEvents \cup DeltaEvents \cup Snapshots(MsgIds \cup {None})
Shipped == StatusEvents \cup ErrorEvents \cup DeltaEvents \cup Snapshots(Streams \cup {None})

BusEvents ==
    [kind : {"execute", "complete", "error"}, msg : MsgIds]
        \cup [kind : {"progress"}, msg : MsgIds, delta : Chunks, accumulated : Texts]

TurnTypes ==
    /\ created \subseteq Dialogs
    /\ dialog \in [MsgIds -> Dialogs \cup {None}]
    /\ pc \in [MsgIds -> {"new", "queued", "streaming", "over"}]
    /\ said \in [MsgIds -> Nat]
    /\ stored \in [Dialogs -> Seq(MsgIds)]
    /\ bus \in Seq(BusEvents)
    /\ \A m \in MsgIds : pc[m] # "new" => dialog[m] \in Dialogs
    /\ \A i \in DOMAIN bus : pc[bus[i].msg] # "new"

ContainerTypes ==
    /\ display \in [Dialogs -> {"idle", "thinking", "error"}]
    /\ placeholder \in [Dialogs -> MsgIds \cup {None}]
    /\ partial \in [MsgIds -> Texts]
    /\ acc \in [Dialogs -> Texts]
    /\ numbers \in [Dialogs -> Nat]

ViewTypes ==
    /\ buffer \in Seq(Buffered)
    /\ wire \in Seq(Shipped)
    /\ uplink \in Seq(Dialogs)
    /\ active \in created \cup {None}
    /\ snapshot \in Snapshots(Streams \cup {None}) \cup {None}

Types == TurnTypes /\ ContainerTypes /\ ViewTypes
-----------------------------------------------------------------------------
(***************************************************************************)
(* Events and snapshots are well formed.                                   *)
(***************************************************************************)
LEMMA EventTypes ==
    ASSUME Types, NEW d \in Dialogs
    PROVE  /\ \A s \in Shown : Status(d, s) \in StatusEvents
           /\ Error(d) \in ErrorEvents
           /\ \A m \in MsgIds, c \in Chunks, n \in Nat :
                dialog[m] \in Dialogs => Delta(m, c, n) \in DeltaEvents
           /\ \A s \in Shown, p \in MsgIds \cup {None} :
                Built(d, s, p) \in Snapshots(MsgIds \cup {None})
<1>1. \A s \in Shown : Status(d, s) \in StatusEvents
  BY DEF Status, StatusEvents
<1>2. Error(d) \in ErrorEvents
  BY DEF Error, ErrorEvents
<1>3. \A m \in MsgIds, c \in Chunks, n \in Nat :
        dialog[m] \in Dialogs => Delta(m, c, n) \in DeltaEvents
  BY DEF Delta, DeltaEvents
<1>4. ASSUME NEW s \in Shown, NEW p \in MsgIds \cup {None}
      PROVE  Built(d, s, p) \in Snapshots(MsgIds \cup {None})
  <2>. DEFINE list == [i \in DOMAIN stored[d] |-> Listed(stored[d][i], "saved")]
  <2>1. stored[d] \in Seq(MsgIds)
    BY DEF Types, TurnTypes
  <2>2. \A i \in DOMAIN stored[d] : Listed(stored[d][i], "saved") \in Entries
    BY <2>1 DEF Listed, Entries
  <2>3. list \in Seq(Entries)
    <3>1. DOMAIN stored[d] = 1..Len(stored[d]) /\ Len(stored[d]) \in Nat
      BY <2>1
    <3>2. QED
      BY <2>2, <3>1, IsASeq
  <2>4. QED
    BY <1>4, <2>3 DEF Built, Snapshots
<1>5. QED
  BY <1>1, <1>2, <1>3, <1>4

LEMMA ShippedTypes ==
    ASSUME Types, NEW e \in Buffered
    PROVE  Serialised(e) \in Shipped
<1>1. CASE e.type # "snapshot"
  BY <1>1 DEF Serialised, Buffered, Shipped, Snapshots
<1>2. CASE e.type = "snapshot"
  <2>1. e \in Snapshots(MsgIds \cup {None})
    BY <1>2 DEF Buffered, StatusEvents, ErrorEvents, DeltaEvents
  <2>2. CASE e.stream = None
    BY <1>2, <2>1, <2>2 DEF Serialised, Shipped, Snapshots
  <2>3. CASE e.stream # None
    <3>1. e.stream \in MsgIds /\ partial[e.stream] \in Texts
      BY <2>1, <2>3 DEF Snapshots, Types, ContainerTypes
    <3>2. [msg |-> e.stream, text |-> partial[e.stream],
           exact |-> partial[e.stream] = <<>>] \in Streams
      BY <3>1 DEF Streams
    <3>3. QED
      BY <1>2, <2>1, <2>3, <3>2 DEF Serialised, Shipped, Snapshots
  <2>4. QED
    BY <2>2, <2>3
<1>3. QED
  BY <1>1, <1>2

LEMMA FlushTypes ==
    ASSUME NEW s \in Snapshots(Streams \cup {None})
    PROVE  Flush(s) \in Snapshots(Streams \cup {None})
<1>1. CASE s.stream = None
  BY <1>1 DEF Flush
<1>2. CASE s.stream # None
  <2>1. s.stream.msg \in MsgIds /\ s.messages \in Seq(Entries)
    BY <1>2 DEF Snapshots, Streams
  <2>2. Append(s.messages, Listed(s.stream.msg, "streamed")) \in Seq(Entries)
    BY <2>1 DEF Listed, Entries
  <2>3. QED
    BY <1>2, <2>1, <2>2 DEF Flush, Snapshots
<1>3. QED
  BY <1>1, <1>2

\* What Receive does to the screen keeps it well formed.
Fold(e) == OnSnapshot(e) \/ OnDelta(e) \/ OnStatus(e) \/ OnError(e)

LEMMA FoldTypes ==
    ASSUME Types, NEW e \in Shipped, Fold(e)
    PROVE  snapshot' \in Snapshots(Streams \cup {None}) \cup {None}
<1>1. snapshot \in Snapshots(Streams \cup {None}) \cup {None}
  BY DEF Types, ViewTypes
<1>2. CASE OnSnapshot(e)
  <2>1. e \in Snapshots(Streams \cup {None})
    BY <1>2 DEF OnSnapshot, Shipped, StatusEvents, ErrorEvents, DeltaEvents
  <2>2. QED
    BY <1>1, <1>2, <2>1 DEF OnSnapshot
<1>3. CASE OnDelta(e)
  <2>1. CASE snapshot' = snapshot
    BY <1>1, <2>1
  <2>2. CASE /\ Shows(e.id) /\ snapshot.stream # None
             /\ snapshot' = [snapshot EXCEPT !.stream.text = Append(@, e.chunk)]
    <3>1. snapshot \in Snapshots(Streams \cup {None}) /\ snapshot.stream \in Streams
      BY <1>1, <2>2 DEF Shows, Snapshots
    <3>2. e.chunk \in Chunks
      BY <1>3 DEF OnDelta, Shipped, DeltaEvents, StatusEvents, ErrorEvents, Snapshots
    <3>3. Append(snapshot.stream.text, e.chunk) \in Texts
      BY <3>1, <3>2 DEF Streams, Texts
    <3>4. [snapshot.stream EXCEPT !.text = Append(@, e.chunk)] \in Streams
      BY <3>1, <3>3 DEF Streams
    <3>5. QED
      BY <2>2, <3>1, <3>4 DEF Snapshots
  <2>3. QED
    BY <1>3, <2>1, <2>2 DEF OnDelta
<1>4. CASE OnStatus(e)
  <2>1. CASE ~Shows(e.id)
    BY <1>1, <1>4, <2>1 DEF OnStatus
  <2>2. CASE Shows(e.id)
    <3>1. snapshot \in Snapshots(Streams \cup {None})
      BY <1>1, <2>2 DEF Shows
    <3>2. e.to \in Shown
      BY <1>4 DEF OnStatus, Shipped, DeltaEvents, StatusEvents, ErrorEvents, Snapshots
    <3>3. [snapshot EXCEPT !.status = e.to] \in Snapshots(Streams \cup {None})
      BY <3>1, <3>2 DEF Snapshots
    <3>4. QED
      BY <1>4, <2>2, <3>3, FlushTypes DEF OnStatus
  <2>3. QED
    BY <2>1, <2>2
<1>5. CASE OnError(e)
  BY <1>1, <1>5 DEF OnError
<1>6. QED
  BY <1>2, <1>3, <1>4, <1>5 DEF Fold

LEMMA BroadcastTypes ==
    ASSUME ViewTypes, NEW events \in Seq(Buffered), Broadcast(events),
           UNCHANGED <<active, created, snapshot>>
    PROVE  ViewTypes'
<1>1. buffer \o events \in Seq(Buffered)
  BY DEF ViewTypes
<1>2. QED
  BY <1>1 DEF ViewTypes, Broadcast

\* Taking an event off the bus.
LEMMA TakenTypes ==
    ASSUME TurnTypes, bus # <<>>
    PROVE  /\ Head(bus) \in BusEvents
           /\ pc[Head(bus).msg] # "new" /\ dialog[Head(bus).msg] \in Dialogs
           /\ Tail(bus) \in Seq(BusEvents)
           /\ \A i \in DOMAIN Tail(bus) : pc[Tail(bus)[i].msg] # "new"
<1>1. bus \in Seq(BusEvents) /\ Len(bus) \in Nat /\ Len(bus) # 0
  BY DEF TurnTypes
<1>2. 1 \in DOMAIN bus /\ Head(bus) = bus[1]
  BY <1>1
<1>3. \A i \in DOMAIN Tail(bus) : i + 1 \in DOMAIN bus /\ Tail(bus)[i] = bus[i + 1]
  BY <1>1
<1>4. Head(bus).msg \in MsgIds /\ pc[Head(bus).msg] # "new"
  BY <1>1, <1>2 DEF TurnTypes, BusEvents
<1>5. \A i \in DOMAIN Tail(bus) : pc[Tail(bus)[i].msg] # "new"
  BY <1>1, <1>3 DEF TurnTypes
<1>6. QED
  BY <1>1, <1>2, <1>4, <1>5 DEF TurnTypes

LEMMA InitTypes == Init => Types
  BY DEF Init, Types, TurnTypes, ContainerTypes, ViewTypes, Texts

LEMMA NextTypes == Types /\ [Next]_vars => Types'
<1>. SUFFICES ASSUME Types, [Next]_vars PROVE Types'
  OBVIOUS
<1>0. TurnTypes /\ ContainerTypes /\ ViewTypes
  BY DEF Types
<1>1. ASSUME UNCHANGED <<created, bus, turnVars>> PROVE TurnTypes'
  BY <1>0, <1>1 DEF TurnTypes, turnVars
<1>2. ASSUME UNCHANGED containerVars PROVE ContainerTypes'
  BY <1>0, <1>2 DEF ContainerTypes, containerVars
<1>3. ASSUME UNCHANGED <<created, socketVars, browserVars>> PROVE ViewTypes'
  BY <1>0, <1>3 DEF ViewTypes, socketVars, browserVars
<1>4. ASSUME NEW d \in Dialogs, NewChat(d) \/ SelectDialog(d) PROVE Types'
  <2>1. TurnTypes'
    BY <1>0, <1>4 DEF NewChat, SelectDialog, TurnTypes, turnVars
  <2>2. ContainerTypes'
    BY <1>2, <1>4 DEF NewChat, SelectDialog
  <2>3. uplink' \in {uplink, Append(uplink, d)} /\ UNCHANGED <<buffer, wire>>
        /\ active' = d /\ d \in created'
    BY <1>4 DEF NewChat, SelectDialog, Subscribe
  <2>4. snapshot' \in {snapshot, None}
    BY <1>4 DEF NewChat, SelectDialog
  <2>5. ViewTypes'
    <3>1. uplink' \in Seq(Dialogs)
      BY <1>0, <2>3 DEF ViewTypes
    <3>2. snapshot' \in Snapshots(Streams \cup {None}) \cup {None}
      BY <1>0, <2>4 DEF ViewTypes
    <3>3. buffer' \in Seq(Buffered) /\ wire' \in Seq(Shipped)
      BY <1>0, <2>3 DEF ViewTypes
    <3>4. QED
      BY <2>3, <3>1, <3>2, <3>3 DEF ViewTypes
  <2>6. QED
    BY <2>1, <2>2, <2>5 DEF Types
<1>5. ASSUME NEW m \in MsgIds, Post(m) PROVE Types'
  <2>1. /\ active \in Dialogs /\ pc[m] = "new"
        /\ dialog' = [dialog EXCEPT ![m] = active] /\ pc' = [pc EXCEPT ![m] = "queued"]
        /\ bus' = Append(bus, [kind |-> "execute", msg |-> m])
        /\ UNCHANGED <<created, said, stored>>
    BY <1>0, <1>5 DEF Post, ViewTypes, TurnTypes
  <2>2. [kind |-> "execute", msg |-> m] \in BusEvents
    BY DEF BusEvents
  <2>3. \A n \in MsgIds : pc'[n] # "new" => dialog'[n] \in Dialogs
    BY <1>0, <2>1 DEF TurnTypes
  <2>4. bus' \in Seq(BusEvents)
    BY <1>0, <2>1, <2>2 DEF TurnTypes
  <2>5. \A i \in DOMAIN bus' : pc'[bus'[i].msg] # "new"
    <3>1. \A i \in DOMAIN bus' :
            \/ i \in DOMAIN bus /\ bus'[i] = bus[i]
            \/ bus'[i] = [kind |-> "execute", msg |-> m]
      BY <1>0, <2>1 DEF TurnTypes
    <3>2. \A i \in DOMAIN bus : bus[i].msg \in MsgIds /\ pc[bus[i].msg] # "new"
      BY <1>0 DEF TurnTypes, BusEvents
    <3>3. QED
      BY <1>0, <2>1, <3>1, <3>2 DEF TurnTypes
  <2>6. TurnTypes'
    BY <1>0, <2>1, <2>3, <2>4, <2>5 DEF TurnTypes
  <2>7. QED
    BY <1>2, <1>3, <1>5, <2>1, <2>6 DEF Types, Post
\* The steps of a turn: the bus gets events of a message that has a dialog.
<1>6. ASSUME NEW m \in MsgIds, NEW p \in {"streaming", "over"}, pc[m] # "new",
             pc' = [pc EXCEPT ![m] = p], UNCHANGED <<created, dialog>>,
             said' \in [MsgIds -> Nat], stored' \in [Dialogs -> Seq(MsgIds)],
             NEW events \in Seq(BusEvents), \A i \in DOMAIN events : events[i].msg = m,
             bus' = bus \o events
      PROVE  TurnTypes'
  <2>1. bus' \in Seq(BusEvents)
    BY <1>0, <1>6 DEF TurnTypes
  <2>2. \A n \in MsgIds : pc'[n] # "new" => dialog'[n] \in Dialogs
    BY <1>0, <1>6 DEF TurnTypes
  <2>3. pc'[m] # "new" /\ \A n \in MsgIds : pc[n] # "new" => pc'[n] # "new"
    BY <1>0, <1>6 DEF TurnTypes
  <2>4. \A i \in DOMAIN bus' :
          (i \in DOMAIN bus /\ bus'[i] = bus[i]) \/ (\E j \in DOMAIN events : bus'[i] = events[j])
    BY <1>0, <1>6 DEF TurnTypes
  <2>5. \A i \in DOMAIN bus : bus[i].msg \in MsgIds /\ pc[bus[i].msg] # "new"
    BY <1>0 DEF TurnTypes, BusEvents
  <2>7. \A i \in DOMAIN bus' : pc'[bus'[i].msg] # "new"
    BY <1>6, <2>3, <2>4, <2>5
  <2>8. QED
    BY <1>0, <1>6, <2>1, <2>2, <2>7 DEF TurnTypes
<1>7. ASSUME NEW m \in MsgIds, Chunk(m) PROVE Types'
  <2>. DEFINE chunk == <<m, said[m] + 1>>
  <2>1. /\ pc[m] = "streaming" /\ dialog[m] \in Dialogs /\ said[m] \in Nat
        /\ said' = [said EXCEPT ![m] = @ + 1]
        /\ acc' = [acc EXCEPT ![dialog[m]] = Append(@, chunk)]
        /\ UNCHANGED <<created, dialog, pc, stored, display, placeholder, partial, numbers,
                       socketVars, browserVars>>
    BY <1>0, <1>7 DEF Chunk, TurnTypes
  <2>2. chunk \in Chunks
    BY <2>1 DEF Chunks
  <2>3. acc' \in [Dialogs -> Texts]
    BY <1>0, <2>1, <2>2 DEF ContainerTypes, Texts
  <2>. DEFINE event == [kind |-> "progress", msg |-> m, delta |-> chunk,
                        accumulated |-> acc'[dialog[m]]]
  <2>4. event \in BusEvents
    BY <2>1, <2>2, <2>3 DEF BusEvents
  <2>5. bus' = bus \o <<event>>
    <3>1. bus' = Append(bus, event)
      BY <1>7 DEF Chunk
    <3>. HIDE DEF event
    <3>2. QED
      BY <1>0, <2>4, <3>1 DEF TurnTypes
  <2>6. pc' = [pc EXCEPT ![m] = "streaming"]
    BY <1>0, <2>1 DEF TurnTypes
  <2>7. said' \in [MsgIds -> Nat] /\ stored' \in [Dialogs -> Seq(MsgIds)]
    BY <1>0, <2>1 DEF TurnTypes
  <2>8. <<event>> \in Seq(BusEvents) /\ \A i \in DOMAIN <<event>> : <<event>>[i].msg = m
    BY <2>4
  <2>9. TurnTypes'
    <3>. HIDE DEF event
    <3>1. QED
      BY <1>6, <2>1, <2>5, <2>6, <2>7, <2>8
  <2>10. ContainerTypes'
    BY <1>0, <2>1, <2>3 DEF ContainerTypes
  <2>11. QED
    BY <1>3, <2>1, <2>9, <2>10 DEF Types
<1>8. ASSUME NEW m \in MsgIds, EndStream(m) \/ FailStream(m) PROVE Types'
  <2>1. /\ pc[m] = "streaming" /\ pc' = [pc EXCEPT ![m] = "over"]
        /\ UNCHANGED <<created, dialog, said, containerVars, socketVars, browserVars>>
    BY <1>8 DEF EndStream, FailStream
  <2>2. stored' \in [Dialogs -> Seq(MsgIds)]
    <3>1. \A d \in Dialogs : Append(stored[d], m) \in Seq(MsgIds)
      BY <1>0 DEF TurnTypes
    <3>2. CASE EndStream(m)
      BY <1>0, <3>1, <3>2 DEF EndStream, TurnTypes
    <3>3. CASE FailStream(m)
      BY <1>0, <3>1, <3>3 DEF FailStream, TurnTypes
    <3>4. QED
      BY <1>8, <3>2, <3>3
  <2>3. PICK events \in {<<[kind |-> "complete", msg |-> m]>>,
                         <<[kind |-> "error", msg |-> m]>>,
                         <<[kind |-> "complete", msg |-> m], [kind |-> "error", msg |-> m]>>} :
            bus' = bus \o events
    <3>1. /\ [kind |-> "complete", msg |-> m] \in BusEvents
          /\ [kind |-> "error", msg |-> m] \in BusEvents
      BY DEF BusEvents
    <3>2. CASE EndStream(m)
      BY <1>0, <3>1, <3>2 DEF EndStream, TurnTypes
    <3>3. CASE FailStream(m) /\ said[m] > 0
      BY <1>0, <3>1, <3>3 DEF FailStream, TurnTypes
    <3>4. CASE FailStream(m) /\ ~(said[m] > 0)
      BY <1>0, <3>1, <3>4 DEF FailStream, TurnTypes
    <3>5. QED
      BY <1>8, <3>2, <3>3, <3>4
  <2>4. events \in Seq(BusEvents) /\ \A i \in DOMAIN events : events[i].msg = m
    BY <2>3 DEF BusEvents
  <2>5. said' \in [MsgIds -> Nat]
    BY <1>0, <2>1 DEF TurnTypes
  <2>6. TurnTypes'
    BY <1>6, <2>1, <2>2, <2>3, <2>4, <2>5
  <2>7. QED
    BY <1>2, <1>3, <2>1, <2>6 DEF Types
\* The handlers of the bus: the container and the buffer change.
<1>9. ASSUME bus # <<>>, bus' = Tail(bus), UNCHANGED <<created, turnVars>> PROVE TurnTypes'
  BY <1>0, <1>9, TakenTypes DEF TurnTypes, turnVars
<1>10. ASSUME NEW m \in MsgIds, Begin(m) PROVE Types'
  <2>1. /\ bus # <<>> /\ bus' = Tail(bus) /\ Head(bus).msg = m
        /\ pc' = [pc EXCEPT ![m] = "streaming"]
        /\ UNCHANGED <<created, dialog, said, stored, partial, acc, numbers, active, snapshot>>
        /\ display' = [display EXCEPT ![dialog[m]] = "thinking"]
        /\ placeholder' = [placeholder EXCEPT ![dialog[m]] = m]
        /\ Broadcast(<<Status(dialog[m], "thinking"), Built(dialog[m], "thinking", m)>>)
    BY <1>10 DEF Begin, Consume, browserVars
  <2>2. dialog[m] \in Dialogs
    BY <1>0, <2>1, TakenTypes
  <2>3. TurnTypes'
    <3>1. \A n \in MsgIds : pc[n] # "new" => pc'[n] # "new"
      BY <1>0, <2>1 DEF TurnTypes
    <3>2. \A i \in DOMAIN bus' : bus'[i].msg \in MsgIds /\ pc[bus'[i].msg] # "new"
      BY <1>0, <2>1, TakenTypes DEF BusEvents
    <3>3. \A n \in MsgIds : pc'[n] # "new" => dialog'[n] \in Dialogs
      BY <1>0, <2>1, <2>2 DEF TurnTypes
    <3>4. QED
      BY <1>0, <2>1, <3>1, <3>2, <3>3, TakenTypes DEF TurnTypes
  <2>4. ContainerTypes'
    BY <1>0, <2>1, <2>2 DEF ContainerTypes
  <2>5. <<Status(dialog[m], "thinking"), Built(dialog[m], "thinking", m)>> \in Seq(Buffered)
    <3>1. /\ Status(dialog[m], "thinking") \in Buffered
          /\ Built(dialog[m], "thinking", m) \in Buffered
      BY <2>2, EventTypes DEF Buffered, Shown
    <3>2. QED
      BY <3>1
  <2>6. ViewTypes'
    BY <1>0, <2>1, <2>5, BroadcastTypes
  <2>7. QED
    BY <2>3, <2>4, <2>6 DEF Types
<1>11. ASSUME NEW m \in MsgIds, HandleProgress(m) PROVE Types'
  <2>. DEFINE event == Head(bus)
              n == numbers[dialog[m]] + 1
  <2>1. /\ bus # <<>> /\ bus' = Tail(bus) /\ event.kind = "progress" /\ event.msg = m
        /\ UNCHANGED <<created, turnVars, display, placeholder, active, snapshot>>
        /\ acc' = [acc EXCEPT ![dialog[m]] = Append(@, event.delta)]
        /\ \/ partial' = partial
           \/ /\ placeholder[dialog[m]] # None
              /\ partial' = [partial EXCEPT ![placeholder[dialog[m]]] = event.accumulated]
        /\ numbers' = [numbers EXCEPT ![dialog[m]] = n]
        /\ Broadcast(<<Delta(m, event.delta, n)>>)
    BY <1>11 DEF HandleProgress, browserVars
  <2>2. event \in BusEvents /\ dialog[m] \in Dialogs
    BY <1>0, <2>1, TakenTypes
  <2>3. event.delta \in Chunks /\ event.accumulated \in Texts
    BY <2>1, <2>2 DEF BusEvents
  <2>4. dialog[m] \in Dialogs /\ n \in Nat
    BY <1>0, <2>2 DEF ContainerTypes
  <2>5. TurnTypes'
    BY <1>9, <2>1
  <2>6. acc' \in [Dialogs -> Texts] /\ partial' \in [MsgIds -> Texts]
        /\ numbers' \in [Dialogs -> Nat]
    <3>1. Append(acc[dialog[m]], event.delta) \in Texts
      BY <1>0, <2>3, <2>4 DEF ContainerTypes, Texts
    <3>2. partial' \in [MsgIds -> Texts]
      BY <1>0, <2>1, <2>3 DEF ContainerTypes
    <3>3. QED
      BY <1>0, <2>1, <2>4, <3>1, <3>2 DEF ContainerTypes
  <2>7. ContainerTypes'
    BY <1>0, <2>1, <2>6 DEF ContainerTypes
  <2>8. <<Delta(m, event.delta, n)>> \in Seq(Buffered)
    BY <2>3, <2>4, EventTypes DEF Buffered
  <2>9. ViewTypes'
    BY <1>0, <2>1, <2>8, BroadcastTypes
  <2>10. QED
    BY <2>5, <2>7, <2>9 DEF Types
<1>12. ASSUME NEW m \in MsgIds, HandleComplete(m) \/ HandleError(m) PROVE Types'
  <2>1. /\ bus # <<>> /\ bus' = Tail(bus) /\ Head(bus).msg = m
        /\ UNCHANGED <<created, turnVars, partial, acc, numbers, active, snapshot>>
        /\ \E to \in {"idle", "error"} : display' = [display EXCEPT ![dialog[m]] = to]
        /\ placeholder' = [placeholder EXCEPT ![dialog[m]] = None]
        /\ \/ Broadcast(<<Status(dialog[m], "completed"), Status(dialog[m], "idle")>>)
           \/ Broadcast(<<Error(dialog[m]), Status(dialog[m], "error")>>)
    BY <1>12 DEF HandleComplete, HandleError, Consume, browserVars
  <2>2. dialog[m] \in Dialogs
    BY <1>0, <2>1, TakenTypes
  <2>3. TurnTypes'
    BY <1>9, <2>1
  <2>4. ContainerTypes'
    BY <1>0, <2>1, <2>2 DEF ContainerTypes
  <2>5. /\ <<Status(dialog[m], "completed"), Status(dialog[m], "idle")>> \in Seq(Buffered)
        /\ <<Error(dialog[m]), Status(dialog[m], "error")>> \in Seq(Buffered)
    BY <2>2, EventTypes DEF Buffered, Shown
  <2>6. ViewTypes'
    BY <1>0, <2>1, <2>5, BroadcastTypes
  <2>7. QED
    BY <2>3, <2>4, <2>6 DEF Types
<1>13. CASE Serve
  <2>1. /\ uplink # <<>> /\ uplink' = Tail(uplink)
        /\ buffer' = Append(buffer, Built(Head(uplink), display[Head(uplink)],
                                          placeholder[Head(uplink)]))
        /\ UNCHANGED <<created, bus, turnVars, containerVars, wire, browserVars>>
    BY <1>13 DEF Serve
  <2>2. Head(uplink) \in Dialogs /\ Tail(uplink) \in Seq(Dialogs)
    BY <1>0, <2>1 DEF ViewTypes
  <2>3. /\ display[Head(uplink)] \in Shown
        /\ placeholder[Head(uplink)] \in MsgIds \cup {None}
    BY <1>0, <2>2 DEF ContainerTypes, Shown
  <2>4. Built(Head(uplink), display[Head(uplink)], placeholder[Head(uplink)]) \in Buffered
    BY <2>2, <2>3, EventTypes DEF Buffered
  <2>5. ViewTypes'
    BY <1>0, <2>1, <2>2, <2>4 DEF ViewTypes, browserVars
  <2>6. QED
    BY <1>1, <1>2, <2>1, <2>5 DEF Types
<1>14. CASE Send
  <2>1. /\ buffer # <<>> /\ buffer' = Tail(buffer)
        /\ wire' = Append(wire, Serialised(Head(buffer)))
        /\ UNCHANGED <<created, bus, turnVars, containerVars, uplink, browserVars>>
    BY <1>14 DEF Send
  <2>2. Head(buffer) \in Buffered /\ Tail(buffer) \in Seq(Buffered)
    BY <1>0, <2>1 DEF ViewTypes
  <2>3. Serialised(Head(buffer)) \in Shipped
    BY <2>2, ShippedTypes
  <2>4. ViewTypes'
    BY <1>0, <2>1, <2>2, <2>3 DEF ViewTypes, browserVars
  <2>5. QED
    BY <1>1, <1>2, <2>1, <2>4 DEF Types
<1>15. CASE Receive
  <2>1. /\ wire # <<>> /\ wire' = Tail(wire) /\ Fold(Head(wire))
        /\ UNCHANGED <<created, bus, turnVars, containerVars, buffer, uplink, active>>
    BY <1>15 DEF Receive, Fold
  <2>2. Head(wire) \in Shipped /\ Tail(wire) \in Seq(Shipped)
    BY <1>0, <2>1 DEF ViewTypes
  <2>3. snapshot' \in Snapshots(Streams \cup {None}) \cup {None}
    BY <2>1, <2>2, FoldTypes
  <2>4. ViewTypes'
    BY <1>0, <2>1, <2>2, <2>3 DEF ViewTypes
  <2>5. QED
    BY <1>1, <1>2, <2>1, <2>4 DEF Types
<1>16. CASE Break \/ Reconnect
  <2>1. /\ \/ buffer' = <<>> /\ wire' = <<>> /\ uplink' = <<>>
           \/ UNCHANGED <<buffer, wire, uplink>>
        /\ UNCHANGED <<active, created, snapshot>>
    <3>1. CASE Break
      BY <3>1 DEF Break
    <3>2. CASE Reconnect
      BY <3>2 DEF Reconnect, browserVars
    <3>3. QED
      BY <1>16, <3>1, <3>2
  <2>2. ViewTypes'
    <3>0. /\ buffer \in Seq(Buffered) /\ wire \in Seq(Shipped) /\ uplink \in Seq(Dialogs)
          /\ <<>> \in Seq(Buffered) /\ <<>> \in Seq(Shipped) /\ <<>> \in Seq(Dialogs)
      BY <1>0 DEF ViewTypes
    <3>1. buffer' \in Seq(Buffered) /\ wire' \in Seq(Shipped)
      BY <2>1, <3>0
    <3>2. uplink' \in Seq(Dialogs)
      BY <2>1, <3>0
    <3>3. QED
      BY <1>0, <2>1, <3>1, <3>2 DEF ViewTypes
  <2>3. QED
    BY <1>1, <1>2, <1>16, <2>2 DEF Types, Break, Reconnect
<1>17. CASE UNCHANGED vars
  BY <1>1, <1>2, <1>3, <1>17 DEF Types, vars
<1>18. QED
  BY <1>4, <1>5, <1>7, <1>8, <1>10, <1>11, <1>12, <1>13, <1>14, <1>15, <1>16, <1>17
     DEF Next, User, System, Turn, Handle

\* The tables of the server, the events under way and the screen are well
\* typed in every reachable state.
THEOREM ViewTypeCorrect == Spec => []Types
<1>1. QED
  BY InitTypes, NextTypes, PTL DEF Spec
-----------------------------------------------------------------------------
(***************************************************************************)
(* What the screen settles on.  Deltas aside, the last event of a dialog   *)
(* that is under way says what the server has, wherever the event is; and  *)
(* when none is under way the screen does, unless events were lost.        *)
(***************************************************************************)
Answer(s) == IF s = None THEN None ELSE s.msg

\* e, a snapshot with answer a or an event, tells of a dialog that the server
\* has in status s with placeholder p.
Tells(e, a, s, p) ==
    \/ e.type = "status" /\ e.to = "idle" /\ s = "idle" /\ p = None
    \/ e.type = "status" /\ e.to = "error" /\ s = "error"
    \/ e.type = "snapshot" /\ e.status = s /\ (s # "error" => a = p)

About(q, d) == \E i \in DOMAIN q : q[i].type # "delta" /\ q[i].id = d
Latest(q, i) ==
    /\ q[i].type # "delta"
    /\ \A j \in DOMAIN q : j > i /\ q[j].type # "delta" => q[j].id # q[i].id

BufferCurrent ==
    \A i \in DOMAIN buffer : Latest(buffer, i) =>
        Tells(buffer[i], buffer[i].stream, display[buffer[i].id], placeholder[buffer[i].id])
WireCurrent ==
    \A i \in DOMAIN wire : Latest(wire, i) /\ ~About(buffer, wire[i].id) =>
        Tells(wire[i], Answer(wire[i].stream), display[wire[i].id], placeholder[wire[i].id])
ScreenCurrent ==
    snapshot # None /\ ~missed /\ ~About(wire, snapshot.id) /\ ~About(buffer, snapshot.id) =>
        /\ snapshot.status = display[snapshot.id]
        /\ snapshot.status # "error" => Answer(snapshot.stream) = placeholder[snapshot.id]
Down == up \/ (missed /\ buffer = <<>> /\ wire = <<>> /\ uplink = <<>>)

CurrentInv == BufferCurrent /\ WireCurrent /\ ScreenCurrent /\ Down

LEMMA TailLast ==
    ASSUME NEW S, NEW q \in Seq(S), q # <<>>
    PROVE  /\ \A i \in DOMAIN Tail(q) : i + 1 \in DOMAIN q /\ Tail(q)[i] = q[i + 1]
           /\ \A i \in DOMAIN Tail(q) : Latest(Tail(q), i) => Latest(q, i + 1)
           /\ \A d : About(Tail(q), d) => About(q, d)
           /\ \A d : About(q, d) =>
                About(Tail(q), d) \/ (Head(q).type # "delta" /\ Head(q).id = d)
           /\ 1 \in DOMAIN q /\ Head(q) = q[1]
           /\ Head(q).type # "delta" => Latest(q, 1) \/ About(Tail(q), Head(q).id)
<1>1. Len(q) \in Nat /\ Len(q) # 0 /\ DOMAIN q = 1..Len(q)
  OBVIOUS
<1>2. /\ 1 \in DOMAIN q /\ Head(q) = q[1]
      /\ \A i \in DOMAIN Tail(q) : i + 1 \in DOMAIN q /\ Tail(q)[i] = q[i + 1]
  BY <1>1
<1>3. \A j \in DOMAIN q : j = 1 \/ (j - 1 \in DOMAIN Tail(q) /\ Tail(q)[j - 1] = q[j])
  BY <1>1
<1>4. ASSUME NEW i \in DOMAIN Tail(q), Latest(Tail(q), i) PROVE Latest(q, i + 1)
  <2>1. ASSUME NEW j \in DOMAIN q, j > i + 1, q[j].type # "delta"
        PROVE  q[j].id # q[i + 1].id
    <3>1. j - 1 \in DOMAIN Tail(q) /\ Tail(q)[j - 1] = q[j] /\ j - 1 > i
      BY <1>1, <1>3, <2>1
    <3>2. QED
      BY <1>2, <1>4, <2>1, <3>1 DEF Latest
  <2>2. QED
    BY <1>2, <1>4, <2>1 DEF Latest
<1>5. \A d : About(Tail(q), d) => About(q, d)
  BY <1>2 DEF About
<1>6. \A d : About(q, d) => About(Tail(q), d) \/ (Head(q).type # "delta" /\ Head(q).id = d)
  BY <1>2, <1>3 DEF About
<1>7. Head(q).type # "delta" => Latest(q, 1) \/ About(Tail(q), Head(q).id)
  <2>1. ASSUME Head(q).type # "delta", NEW j \in DOMAIN q, j > 1, q[j].type # "delta",
               q[j].id = Head(q).id
        PROVE  About(Tail(q), Head(q).id)
    <3>1. j - 1 \in DOMAIN Tail(q) /\ Tail(q)[j - 1] = q[j]
      BY <1>1, <1>3, <2>1
    <3>2. QED
      BY <2>1, <3>1 DEF About
  <2>2. QED
    BY <1>2, <2>1 DEF Latest
<1>8. QED
  BY <1>2, <1>4, <1>5, <1>6, <1>7

LEMMA ConcatLast ==
    ASSUME NEW S, NEW q \in Seq(S), NEW r \in Seq(S)
    PROVE  /\ \A i \in DOMAIN (q \o r) : Latest(q \o r, i) =>
                \/ /\ i \in DOMAIN q /\ (q \o r)[i] = q[i]
                   /\ Latest(q, i) /\ ~About(r, q[i].id)
                \/ \E k \in DOMAIN r : (q \o r)[i] = r[k] /\ Latest(r, k)
           /\ \A d : About(q \o r, d) <=> About(q, d) \/ About(r, d)
<1>1. /\ Len(q) \in Nat /\ Len(r) \in Nat
      /\ DOMAIN q = 1..Len(q) /\ DOMAIN r = 1..Len(r)
      /\ DOMAIN (q \o r) = 1..(Len(q) + Len(r))
  OBVIOUS
<1>2. /\ \A i \in DOMAIN q : i \in DOMAIN (q \o r) /\ (q \o r)[i] = q[i]
      /\ \A k \in DOMAIN r : Len(q) + k \in DOMAIN (q \o r) /\ (q \o r)[Len(q) + k] = r[k]
  BY <1>1
<1>3. \A i \in DOMAIN (q \o r) : i \in DOMAIN q \/ \E k \in DOMAIN r : i = Len(q) + k
  <2>1. \A i \in DOMAIN (q \o r) : i \in DOMAIN q \/ i - Len(q) \in DOMAIN r
    BY <1>1
  <2>2. \A i \in DOMAIN (q \o r) : i = Len(q) + (i - Len(q))
    BY <1>1
  <2>3. QED
    BY <2>1, <2>2
<1>4. ASSUME NEW i \in DOMAIN q, Latest(q \o r, i) PROVE Latest(q, i) /\ ~About(r, q[i].id)
  <2>1. \A k \in DOMAIN r : Len(q) + k > i
    BY <1>1
  <2>2. QED
    BY <1>2, <1>4, <2>1 DEF Latest, About
<1>5. ASSUME NEW k \in DOMAIN r, Latest(q \o r, Len(q) + k) PROVE Latest(r, k)
  <2>1. \A j \in DOMAIN r : j > k => Len(q) + j > Len(q) + k
    BY <1>1
  <2>2. QED
    BY <1>2, <1>5, <2>1 DEF Latest
<1>6. \A d : About(q \o r, d) <=> About(q, d) \/ About(r, d)
  <2>1. \A d : About(q, d) \/ About(r, d) => About(q \o r, d)
    BY <1>2 DEF About
  <2>2. ASSUME NEW d, NEW i \in DOMAIN (q \o r), (q \o r)[i].type # "delta",
               (q \o r)[i].id = d
        PROVE  About(q, d) \/ About(r, d)
    <3>1. CASE i \in DOMAIN q
      BY <1>2, <2>2, <3>1 DEF About
    <3>2. CASE \E k \in DOMAIN r : i = Len(q) + k
      BY <1>2, <2>2, <3>2 DEF About
    <3>3. QED
      BY <1>3, <3>1, <3>2
  <2>3. \A d : About(q \o r, d) => About(q, d) \/ About(r, d)
    BY <2>2 DEF About
  <2>4. QED
    BY <2>1, <2>3
<1>7. QED
  BY <1>2, <1>3, <1>4, <1>5, <1>6

\* The buffer gets events of a dialog whose last one tells what the server has now.
LEMMA AnnouncementCurrent ==
    ASSUME Types, CurrentInv, NEW d \in Dialogs,
           NEW events \in Seq(Buffered), events # <<>>,
           \A k \in DOMAIN events : events[k].id = d,
           Tells(events[Len(events)], events[Len(events)].stream, display'[d], placeholder'[d]),
           \A e \in Dialogs \ {d} : display'[e] = display[e] /\ placeholder'[e] = placeholder[e],
           buffer' = IF up THEN buffer \o events ELSE buffer,
           UNCHANGED <<wire, snapshot, missed, up>>, up \/ UNCHANGED uplink
    PROVE  CurrentInv'
<1>1. CASE ~up
  BY <1>1 DEF CurrentInv, Down, BufferCurrent, WireCurrent, ScreenCurrent
<1>2. CASE up
  <2>0. buffer' = buffer \o events
    BY <1>2
  <2>1. buffer \in Seq(Buffered) /\ wire \in Seq(Shipped)
    BY DEF Types, ViewTypes
  <2>2. /\ Len(events) \in DOMAIN events
        /\ \A k \in DOMAIN events : k = Len(events) \/ Len(events) > k
    OBVIOUS
  <2>3. events[Len(events)].type # "delta"
    BY DEF Tells
  <2>4. About(events, d) /\ \A k \in DOMAIN events : Latest(events, k) => k = Len(events)
    BY <2>2, <2>3 DEF About, Latest
  <2>5. /\ \A i \in DOMAIN buffer : buffer[i].id \in Dialogs \/ buffer[i].id = d
        /\ \A i \in DOMAIN wire : wire[i].id \in Dialogs
        /\ snapshot # None => snapshot.id \in Dialogs
    BY DEF Types, ViewTypes, Buffered, Shipped, StatusEvents, ErrorEvents, DeltaEvents,
           Snapshots
  <2>6. \A x : About(buffer', x) <=> About(buffer, x) \/ About(events, x)
    BY <2>0, <2>1, ConcatLast
  <2>7. BufferCurrent'
    <3>. SUFFICES ASSUME NEW i \in DOMAIN buffer', Latest(buffer', i)
                  PROVE  Tells(buffer'[i], buffer'[i].stream, display'[buffer'[i].id],
                               placeholder'[buffer'[i].id])
      BY DEF BufferCurrent
    <3>1. CASE /\ i \in DOMAIN buffer /\ buffer'[i] = buffer[i]
               /\ Latest(buffer, i) /\ ~About(events, buffer[i].id)
      <4>1. buffer[i].id # d /\ buffer[i].id \in Dialogs
        BY <2>4, <2>5, <3>1
      <4>2. QED
        BY <3>1, <4>1 DEF CurrentInv, BufferCurrent
    <3>2. CASE \E k \in DOMAIN events : buffer'[i] = events[k] /\ Latest(events, k)
      BY <2>4, <3>2
    <3>3. QED
      BY <2>0, <2>1, <3>1, <3>2, ConcatLast
  <2>8. WireCurrent'
    BY <2>4, <2>5, <2>6 DEF CurrentInv, WireCurrent
  <2>9. ScreenCurrent'
    BY <2>4, <2>5, <2>6 DEF CurrentInv, ScreenCurrent
  <2>10. QED
    BY <1>2, <2>7, <2>8, <2>9 DEF CurrentInv, Down
<1>3. QED
  BY <1>1, <1>2

LEMMA OneEvent ==
    ASSUME NEW S, NEW q \in Seq(S), NEW e \in S
    PROVE  \E r \in Seq(S) : /\ r = <<e>> /\ Append(q, e) = q \o r
                             /\ DOMAIN r = {1} /\ r[1] = e
<1>1. /\ <<e>> \in Seq(S) /\ Append(q, e) = q \o <<e>>
      /\ DOMAIN <<e>> = {1} /\ <<e>>[1] = e
  OBVIOUS
<1>2. QED
  BY <1>1

\* The same, with the length of the tail.
LEMMA TailOfOne ==
    ASSUME NEW S, NEW q \in Seq(S), NEW e \in S
    PROVE  \E r \in Seq(S) : /\ r = <<e>> /\ Append(q, e) = q \o r
                             /\ DOMAIN r = {1} /\ r[1] = e
                             /\ Len(r) = 1 /\ r # <<>>
<1>1. /\ <<e>> \in Seq(S) /\ Append(q, e) = q \o <<e>>
      /\ DOMAIN <<e>> = {1} /\ <<e>>[1] = e
      /\ Len(<<e>>) = 1 /\ <<e>> # <<>>
  OBVIOUS
<1>2. QED
  BY <1>1

\* A delta goes to the buffer.
LEMMA DeltaCurrent ==
    ASSUME Types, CurrentInv, NEW e \in DeltaEvents,
           buffer' = IF up THEN buffer \o <<e>> ELSE buffer,
           UNCHANGED <<display, placeholder, wire, snapshot, missed, up, uplink>>
    PROVE  CurrentInv'
<1>1. CASE ~up
  BY <1>1 DEF CurrentInv, Down, BufferCurrent, WireCurrent, ScreenCurrent
<1>2. CASE up
  <2>1. buffer \in Seq(Buffered) /\ e \in Buffered /\ e.type = "delta"
    BY DEF Types, ViewTypes, Buffered, DeltaEvents
  <2>2. PICK r \in Seq(Buffered) : buffer' = buffer \o r /\ DOMAIN r = {1} /\ r[1] = e
    BY <1>2, <2>1, OneEvent
  <2>3. /\ \A k \in DOMAIN r : ~Latest(r, k)
        /\ \A d : ~About(r, d)
    BY <2>1, <2>2 DEF Latest, About
  <2>C. /\ \A d : About(buffer \o r, d) <=> About(buffer, d) \/ About(r, d)
        /\ \A i \in DOMAIN (buffer \o r) : Latest(buffer \o r, i) =>
              \/ /\ i \in DOMAIN buffer /\ (buffer \o r)[i] = buffer[i]
                 /\ Latest(buffer, i) /\ ~About(r, buffer[i].id)
              \/ \E k \in DOMAIN r : (buffer \o r)[i] = r[k] /\ Latest(r, k)
    BY <2>1, ConcatLast
  <2>4. \A d : About(buffer', d) <=> About(buffer, d)
    BY <2>2, <2>3, <2>C
  <2>5. \A i \in DOMAIN buffer' : Latest(buffer', i) =>
            i \in DOMAIN buffer /\ buffer'[i] = buffer[i] /\ Latest(buffer, i)
    BY <2>2, <2>3, <2>C
  <2>6. QED
    BY <1>2, <2>4, <2>5 DEF CurrentInv, Down, BufferCurrent, WireCurrent, ScreenCurrent
<1>3. QED
  BY <1>1, <1>2

\* Sending a snapshot fixes its text and keeps everything else.
LEMMA ShippedSame ==
    ASSUME Types, NEW e \in Buffered
    PROVE  /\ Serialised(e).type = e.type /\ Serialised(e).id = e.id
           /\ e.type = "status" => Serialised(e).to = e.to
           /\ e.type = "snapshot" =>
                /\ Serialised(e).status = e.status /\ Answer(Serialised(e).stream) = e.stream
                /\ Serialised(e).messages = e.messages /\ Serialised(e).window = e.window
<1>1. CASE e.type # "snapshot"
  BY <1>1 DEF Serialised
<1>2. CASE e.type = "snapshot"
  <2>1. e \in Snapshots(MsgIds \cup {None})
    BY <1>2 DEF Buffered, StatusEvents, ErrorEvents, DeltaEvents
  <2>2. CASE e.stream = None
    BY <1>2, <2>1, <2>2 DEF Serialised, Snapshots, Answer
  <2>3. CASE e.stream # None
    <3>1. e.stream \in MsgIds /\ partial[e.stream] \in Texts
      BY <2>1, <2>3 DEF Snapshots, Types, ContainerTypes
    <3>2. [msg |-> e.stream, text |-> partial[e.stream],
           exact |-> partial[e.stream] = <<>>] \in Streams
      BY <3>1 DEF Streams
    <3>3. [msg |-> e.stream, text |-> partial[e.stream],
           exact |-> partial[e.stream] = <<>>] # None
      BY <3>2, StreamsAssumption DEF Streams, Texts, Chunks
    <3>4. Answer([msg |-> e.stream, text |-> partial[e.stream],
                  exact |-> partial[e.stream] = <<>>]) = e.stream
      BY <3>3 DEF Answer
    <3>5. QED
      BY <1>2, <2>1, <2>3, <3>4 DEF Serialised, Snapshots
  <2>4. QED
    BY <2>2, <2>3
<1>3. QED
  BY <1>1, <1>2

LEMMA SendCurrent == Types /\ CurrentInv /\ Send => CurrentInv'
<1>. SUFFICES ASSUME Types, CurrentInv, Send PROVE CurrentInv'
  OBVIOUS
<1>. DEFINE e == Head(buffer)
            sent == Serialised(e)
<1>1. /\ buffer # <<>> /\ buffer' = Tail(buffer) /\ wire' = Append(wire, sent)
      /\ UNCHANGED <<display, placeholder, snapshot, missed, up, uplink>>
  BY DEF Send, containerVars, browserVars
<1>2. buffer \in Seq(Buffered) /\ wire \in Seq(Shipped) /\ e \in Buffered
  BY <1>1 DEF Types, ViewTypes
<1>3. sent \in Shipped
  BY <1>2, ShippedTypes
<1>4. PICK r \in Seq(Shipped) : wire' = wire \o r /\ DOMAIN r = {1} /\ r[1] = sent
  BY <1>1, <1>2, <1>3, OneEvent
<1>5. sent.type = e.type /\ sent.id = e.id
  BY <1>2, ShippedSame
<1>6. /\ \A d : About(buffer, d) => About(buffer', d) \/ (e.type # "delta" /\ e.id = d)
      /\ \A i \in DOMAIN buffer' : Latest(buffer', i) =>
            i + 1 \in DOMAIN buffer /\ buffer'[i] = buffer[i + 1] /\ Latest(buffer, i + 1)
      /\ e.type # "delta" => Latest(buffer, 1) \/ About(buffer', e.id)
      /\ 1 \in DOMAIN buffer /\ e = buffer[1]
  BY <1>1, <1>2, TailLast
<1>7. \A d : About(r, d) <=> e.type # "delta" /\ e.id = d
  BY <1>4, <1>5 DEF About
<1>8. BufferCurrent'
  BY <1>1, <1>6 DEF CurrentInv, BufferCurrent
<1>9. WireCurrent'
  <2>. HIDE DEF sent
  <2>. SUFFICES ASSUME NEW i \in DOMAIN wire', Latest(wire', i), ~About(buffer', wire'[i].id)
                PROVE  Tells(wire'[i], Answer(wire'[i].stream), display[wire'[i].id],
                             placeholder[wire'[i].id])
    BY <1>1 DEF WireCurrent
  <2>1. CASE /\ i \in DOMAIN wire /\ wire'[i] = wire[i]
             /\ Latest(wire, i) /\ ~About(r, wire[i].id)
    <3>1. ~About(buffer, wire[i].id)
      BY <1>6, <1>7, <2>1
    <3>2. QED
      BY <2>1, <3>1 DEF CurrentInv, WireCurrent
  <2>2. CASE wire'[i] = sent /\ sent.type # "delta"
    <3>1. Latest(buffer, 1)
      BY <1>5, <1>6, <2>2
    <3>2. Tells(e, e.stream, display[e.id], placeholder[e.id])
      BY <1>6, <3>1 DEF CurrentInv, BufferCurrent
    <3>3. Tells(sent, Answer(sent.stream), display[sent.id], placeholder[sent.id])
      BY <1>2, <3>2, ShippedSame DEF Tells, sent
    <3>4. QED
      BY <2>2, <3>3
  <2>3. \/ /\ i \in DOMAIN wire /\ wire'[i] = wire[i]
           /\ Latest(wire, i) /\ ~About(r, wire[i].id)
        \/ \E k \in DOMAIN r : wire'[i] = r[k] /\ Latest(r, k)
    BY <1>2, <1>4, ConcatLast
  <2>4. QED
    BY <1>4, <2>1, <2>2, <2>3 DEF Latest
<1>10. ScreenCurrent'
  <2>1. \A d : ~About(wire', d) /\ ~About(buffer', d) => ~About(wire, d) /\ ~About(buffer, d)
    BY <1>2, <1>4, <1>6, <1>7, ConcatLast
  <2>2. QED
    BY <1>1, <2>1 DEF CurrentInv, ScreenCurrent
<1>11. Down'
  BY <1>1 DEF CurrentInv, Down
<1>12. QED
  BY <1>8, <1>9, <1>10, <1>11 DEF CurrentInv

LEMMA FlushSame ==
    ASSUME NEW s \in Snapshots(Streams \cup {None})
    PROVE  /\ Flush(s).id = s.id /\ Flush(s).status = s.status
           /\ Flush(s).stream = None /\ Flush(s).window = s.window
           /\ s.stream = None => Flush(s).messages = s.messages
           /\ s.stream # None =>
                \/ Flush(s).messages = s.messages
                \/ Flush(s).messages = Append(s.messages, Listed(s.stream.msg, "streamed"))
<1>1. CASE s.stream = None
  BY <1>1 DEF Flush
<1>2. CASE s.stream # None
  BY <1>2 DEF Flush, Snapshots
<1>3. QED
  BY <1>1, <1>2

\* A delta changes the text on the screen and nothing else.
LEMMA DeltaSame ==
    ASSUME Types, NEW e \in Shipped, OnDelta(e), snapshot' # None
    PROVE  /\ snapshot # None /\ missed' = missed
           /\ snapshot'.id = snapshot.id /\ snapshot'.status = snapshot.status
           /\ Answer(snapshot'.stream) = Answer(snapshot.stream)
           /\ snapshot'.messages = snapshot.messages /\ snapshot'.window = snapshot.window
<1>1. CASE snapshot' = snapshot
  BY <1>1 DEF OnDelta
<1>2. CASE /\ Shows(e.id) /\ snapshot.stream # None
           /\ snapshot' = [snapshot EXCEPT !.stream.text = Append(@, e.chunk)]
  <2>1. snapshot \in Snapshots(Streams \cup {None}) /\ snapshot.stream \in Streams
    BY <1>2 DEF Types, ViewTypes, Shows, Snapshots
  <2>. DEFINE next == [snapshot.stream EXCEPT !.text = Append(@, e.chunk)]
  <2>2. snapshot'.stream = next /\ next.msg = snapshot.stream.msg
    BY <1>2, <2>1 DEF Snapshots, Streams
  <2>3. next # None
    <3>1. e.chunk \in Chunks
      BY DEF OnDelta, Shipped, DeltaEvents, StatusEvents, ErrorEvents, Snapshots
    <3>2. Append(snapshot.stream.text, e.chunk) \in Texts
      BY <2>1, <3>1 DEF Streams, Texts
    <3>3. next \in Streams
      BY <2>1, <3>2 DEF Streams
    <3>4. QED
      BY <3>3, StreamsAssumption DEF Streams, Texts, Chunks
  <2>4. QED
    BY <1>2, <2>1, <2>2, <2>3 DEF OnDelta, Shows, Answer, Snapshots
<1>3. QED
  BY <1>1, <1>2 DEF OnDelta

LEMMA ReceiveCurrent == Types /\ CurrentInv /\ Receive => CurrentInv'
<1>. SUFFICES ASSUME Types, CurrentInv, Receive PROVE CurrentInv'
  OBVIOUS
<1>. DEFINE e == Head(wire)
<1>1. /\ wire # <<>> /\ wire' = Tail(wire) /\ Fold(e)
      /\ UNCHANGED <<display, placeholder, buffer, uplink, up>>
  BY DEF Receive, Fold, containerVars
<1>2. wire \in Seq(Shipped) /\ e \in Shipped
  BY <1>1 DEF Types, ViewTypes
<1>3. /\ \A d : About(wire, d) => About(wire', d) \/ (e.type # "delta" /\ e.id = d)
      /\ \A i \in DOMAIN wire' : Latest(wire', i) =>
            i + 1 \in DOMAIN wire /\ wire'[i] = wire[i + 1] /\ Latest(wire, i + 1)
      /\ e.type # "delta" => Latest(wire, 1) \/ About(wire', e.id)
      /\ 1 \in DOMAIN wire /\ e = wire[1]
  BY <1>1, <1>2, TailLast
<1>4. BufferCurrent'
  BY <1>1 DEF CurrentInv, BufferCurrent
<1>5. WireCurrent'
  BY <1>1, <1>3 DEF CurrentInv, WireCurrent
<1>6. Down'
  BY <1>1 DEF CurrentInv, Down
<1>7. ScreenCurrent'
  <2>. HIDE DEF e
  <2>. SUFFICES ASSUME snapshot' # None, ~missed', ~About(wire', snapshot'.id),
                       ~About(buffer, snapshot'.id)
                PROVE  /\ snapshot'.status = display[snapshot'.id]
                       /\ snapshot'.status # "error" =>
                            Answer(snapshot'.stream) = placeholder[snapshot'.id]
    BY <1>1 DEF ScreenCurrent
  <2>1. CASE e.type # "delta" /\ e.id = snapshot'.id
    <3>1. Tells(e, Answer(e.stream), display[e.id], placeholder[e.id])
      BY <1>3, <2>1 DEF CurrentInv, WireCurrent
    <3>2. CASE OnSnapshot(e)
      BY <2>1, <3>1, <3>2 DEF OnSnapshot, Shows, Tells
    <3>3. CASE OnStatus(e)
      <4>1. Shows(e.id)
        BY <2>1, <3>3 DEF OnStatus, Shows
      <4>2. snapshot \in Snapshots(Streams \cup {None})
        BY <4>1 DEF Shows, Types, ViewTypes
      <4>3. e.to \in Shown
        BY <1>2, <3>3 DEF OnStatus, Shipped, DeltaEvents, StatusEvents, ErrorEvents, Snapshots
      <4>. DEFINE next == [snapshot EXCEPT !.status = e.to]
      <4>4. next \in Snapshots(Streams \cup {None}) /\ next.status = e.to /\ next.id = snapshot.id
        BY <4>2, <4>3 DEF Snapshots
      <4>5. CASE e.to = "idle"
        <5>1. snapshot' = Flush(next)
          BY <3>3, <4>1, <4>5 DEF OnStatus
        <5>2. snapshot'.status = "idle" /\ snapshot'.stream = None
          BY <4>4, <4>5, <5>1, FlushSame
        <5>3. display[e.id] = "idle" /\ placeholder[e.id] = None
          BY <3>1, <3>3, <4>5 DEF Tells, OnStatus
        <5>4. QED
          BY <2>1, <5>2, <5>3 DEF Answer
      <4>6. CASE e.to = "error"
        <5>1. snapshot' = next
          BY <3>3, <4>1, <4>6 DEF OnStatus
        <5>2. display[e.id] = "error"
          BY <3>1, <3>3, <4>6 DEF Tells, OnStatus
        <5>3. QED
          BY <2>1, <4>4, <4>6, <5>1, <5>2
      <4>7. QED
        BY <3>1, <3>3, <4>5, <4>6 DEF Tells, OnStatus
    <3>4. QED
      BY <1>1, <2>1, <3>1, <3>2, <3>3 DEF Fold, OnDelta, OnError, Tells
  <2>2. CASE ~(e.type # "delta" /\ e.id = snapshot'.id)
    <3>1. ~About(wire, snapshot'.id)
      BY <1>3, <2>2
    <3>2. CASE snapshot' = snapshot /\ missed' = missed
      BY <3>1, <3>2 DEF CurrentInv, ScreenCurrent
    <3>3. CASE OnDelta(e)
      <4>1. /\ snapshot # None /\ missed' = missed
            /\ snapshot'.id = snapshot.id /\ snapshot'.status = snapshot.status
            /\ Answer(snapshot'.stream) = Answer(snapshot.stream)
        BY <1>2, <3>3, DeltaSame
      <4>2. QED
        BY <3>1, <4>1 DEF CurrentInv, ScreenCurrent
    <3>4. CASE OnSnapshot(e)
      BY <2>2, <3>2, <3>4 DEF OnSnapshot
    <3>5. CASE OnStatus(e)
      <4>1. CASE ~Shows(e.id)
        BY <3>2, <3>5, <4>1 DEF OnStatus
      <4>2. CASE Shows(e.id)
        <5>1. snapshot \in Snapshots(Streams \cup {None}) /\ snapshot.id = e.id
          BY <4>2 DEF Shows, Types, ViewTypes
        <5>2. e.to \in Shown
          BY <1>2, <3>5 DEF OnStatus, Shipped, DeltaEvents, StatusEvents, ErrorEvents,
                            Snapshots
        <5>. DEFINE next == [snapshot EXCEPT !.status = e.to]
        <5>3. next \in Snapshots(Streams \cup {None}) /\ next.id = e.id
          BY <5>1, <5>2 DEF Snapshots
        <5>4. snapshot' = next \/ snapshot' = Flush(next)
          BY <3>5, <4>2 DEF OnStatus
        <5>5. snapshot'.id = e.id
          BY <5>3, <5>4, FlushSame
        <5>6. QED
          BY <2>2, <3>5, <5>5 DEF OnStatus
      <4>3. QED
        BY <4>1, <4>2
    <3>6. QED
      BY <1>1, <3>2, <3>3, <3>4, <3>5 DEF Fold, OnError
  <2>3. QED
    BY <2>1, <2>2
<1>8. QED
  BY <1>4, <1>5, <1>6, <1>7 DEF CurrentInv

LEMMA InitCurrent == Init => CurrentInv
  BY DEF Init, CurrentInv, BufferCurrent, WireCurrent, ScreenCurrent, Down

LEMMA NextCurrent == Types /\ CurrentInv /\ [Next]_vars => CurrentInv'
<1>. SUFFICES ASSUME Types, CurrentInv, [Next]_vars PROVE CurrentInv'
  OBVIOUS
<1>0. TurnTypes /\ ContainerTypes /\ ViewTypes
  BY DEF Types
\* Steps that announce nothing and show nothing new.
<1>1. ASSUME UNCHANGED <<display, placeholder, buffer, wire, missed, up>>,
             up \/ UNCHANGED uplink, snapshot' \in {snapshot, None}
      PROVE  CurrentInv'
  <2>1. BufferCurrent' /\ WireCurrent'
    BY <1>1 DEF CurrentInv, BufferCurrent, WireCurrent
  <2>2. ScreenCurrent'
    BY <1>1 DEF CurrentInv, ScreenCurrent
  <2>3. Down'
    BY <1>1 DEF CurrentInv, Down
  <2>4. QED
    BY <2>1, <2>2, <2>3 DEF CurrentInv
<1>2. ASSUME NEW d \in Dialogs, NewChat(d) \/ SelectDialog(d) PROVE CurrentInv'
  <2>1. /\ UNCHANGED <<display, placeholder, buffer, wire, missed, up>>
        /\ snapshot' \in {snapshot, None}
    BY <1>2 DEF NewChat, SelectDialog, Subscribe, containerVars
  <2>2. up \/ UNCHANGED uplink
    BY <1>2 DEF NewChat, SelectDialog, Subscribe
  <2>3. QED
    BY <1>1, <2>1, <2>2
<1>3. ASSUME NEW m \in MsgIds, Post(m) \/ Chunk(m) \/ EndStream(m) \/ FailStream(m)
      PROVE  CurrentInv'
  <2>1. UNCHANGED <<display, placeholder, buffer, wire, missed, up, uplink, snapshot>>
    BY <1>3 DEF Post, Chunk, EndStream, FailStream, containerVars, socketVars, browserVars
  <2>2. QED
    BY <1>1, <2>1
\* The handlers that announce a change: the last of their two events tells it.
<1>4. ASSUME NEW d \in Dialogs, NEW e1 \in Buffered, NEW e2 \in Buffered,
             e1.id = d, e2.id = d,
             Tells(e2, e2.stream, display'[d], placeholder'[d]),
             \A e \in Dialogs \ {d} : display'[e] = display[e] /\ placeholder'[e] = placeholder[e],
             Broadcast(<<e1, e2>>), UNCHANGED <<snapshot, missed>>
      PROVE  CurrentInv'
  <2>. DEFINE events == <<e1, e2>>
  <2>1. /\ events \in Seq(Buffered) /\ events # <<>> /\ Len(events) = 2
        /\ events[2] = e2 /\ \A k \in DOMAIN events : events[k].id = d
    BY <1>4
  <2>2. /\ buffer' = IF up THEN buffer \o events ELSE buffer
        /\ UNCHANGED <<wire, up, uplink>>
    BY <1>4 DEF Broadcast
  <2>. HIDE DEF events
  <2>3. QED
    BY <1>4, <2>1, <2>2, AnnouncementCurrent
<1>5. ASSUME NEW m \in MsgIds, Begin(m) PROVE CurrentInv'
  <2>1. /\ bus # <<>> /\ Head(bus).msg = m
        /\ display' = [display EXCEPT ![dialog[m]] = "thinking"]
        /\ placeholder' = [placeholder EXCEPT ![dialog[m]] = m]
        /\ Broadcast(<<Status(dialog[m], "thinking"), Built(dialog[m], "thinking", m)>>)
        /\ UNCHANGED <<snapshot, missed>>
    BY <1>5 DEF Begin, Consume, browserVars
  <2>2. dialog[m] \in Dialogs
    BY <1>0, <2>1, TakenTypes
  <2>3. /\ Status(dialog[m], "thinking") \in Buffered
        /\ Built(dialog[m], "thinking", m) \in Buffered
    BY <2>2, EventTypes DEF Buffered, Shown
  <2>4. /\ display'[dialog[m]] = "thinking" /\ placeholder'[dialog[m]] = m
        /\ \A e \in Dialogs \ {dialog[m]} :
              display'[e] = display[e] /\ placeholder'[e] = placeholder[e]
    BY <1>0, <2>1, <2>2 DEF ContainerTypes
  <2>5. Tells(Built(dialog[m], "thinking", m), Built(dialog[m], "thinking", m).stream,
              display'[dialog[m]], placeholder'[dialog[m]])
    BY <2>4 DEF Tells, Built
  <2>6. /\ Status(dialog[m], "thinking").id = dialog[m]
        /\ Built(dialog[m], "thinking", m).id = dialog[m]
    BY DEF Status, Built
  <2>7. QED
    BY <1>4, <2>1, <2>2, <2>3, <2>4, <2>5, <2>6
<1>6. ASSUME NEW m \in MsgIds, HandleProgress(m) PROVE CurrentInv'
  <2>. DEFINE e == Delta(m, Head(bus).delta, numbers[dialog[m]] + 1)
  <2>1. /\ bus # <<>> /\ Head(bus).kind = "progress" /\ Head(bus).msg = m
        /\ Broadcast(<<e>>)
        /\ UNCHANGED <<display, placeholder, snapshot, missed>>
    BY <1>6 DEF HandleProgress, browserVars
  <2>2. dialog[m] \in Dialogs /\ Head(bus) \in BusEvents
    BY <1>0, <2>1, TakenTypes
  <2>3. e \in DeltaEvents
    <3>1. Head(bus).delta \in Chunks /\ numbers[dialog[m]] + 1 \in Nat
      BY <1>0, <2>1, <2>2 DEF BusEvents, ContainerTypes
    <3>2. QED
      BY <2>2, <3>1, EventTypes
  <2>. HIDE DEF e
  <2>4. QED
    BY <2>1, <2>3, DeltaCurrent DEF Broadcast
<1>7. ASSUME NEW m \in MsgIds, HandleComplete(m) \/ HandleError(m) PROVE CurrentInv'
  <2>1. /\ bus # <<>> /\ Head(bus).msg = m /\ UNCHANGED <<snapshot, missed>>
        /\ placeholder' = [placeholder EXCEPT ![dialog[m]] = None]
    BY <1>7 DEF HandleComplete, HandleError, Consume, browserVars
  <2>2. dialog[m] \in Dialogs
    BY <1>0, <2>1, TakenTypes
  <2>3. /\ Status(dialog[m], "completed") \in Buffered /\ Status(dialog[m], "idle") \in Buffered
        /\ Error(dialog[m]) \in Buffered /\ Status(dialog[m], "error") \in Buffered
    BY <2>2, EventTypes DEF Buffered, Shown
  <2>4. /\ \A s : Status(dialog[m], s).id = dialog[m]
        /\ Error(dialog[m]).id = dialog[m]
    BY DEF Status, Error
  <2>5. CASE HandleComplete(m)
    <3>1. /\ display' = [display EXCEPT ![dialog[m]] = "idle"]
          /\ Broadcast(<<Status(dialog[m], "completed"), Status(dialog[m], "idle")>>)
      BY <2>5 DEF HandleComplete
    <3>2. /\ display'[dialog[m]] = "idle" /\ placeholder'[dialog[m]] = None
          /\ \A e \in Dialogs \ {dialog[m]} :
                display'[e] = display[e] /\ placeholder'[e] = placeholder[e]
      BY <1>0, <2>1, <2>2, <3>1 DEF ContainerTypes
    <3>3. Tells(Status(dialog[m], "idle"), Status(dialog[m], "idle").stream,
                display'[dialog[m]], placeholder'[dialog[m]])
      BY <3>2 DEF Tells, Status
    <3>4. QED
      BY <1>4, <2>1, <2>2, <2>3, <2>4, <3>1, <3>2, <3>3
  <2>6. CASE HandleError(m)
    <3>1. /\ display' = [display EXCEPT ![dialog[m]] = "error"]
          /\ Broadcast(<<Error(dialog[m]), Status(dialog[m], "error")>>)
      BY <2>6 DEF HandleError
    <3>2. /\ display'[dialog[m]] = "error" /\ placeholder'[dialog[m]] = None
          /\ \A e \in Dialogs \ {dialog[m]} :
                display'[e] = display[e] /\ placeholder'[e] = placeholder[e]
      BY <1>0, <2>1, <2>2, <3>1 DEF ContainerTypes
    <3>3. Tells(Status(dialog[m], "error"), Status(dialog[m], "error").stream,
                display'[dialog[m]], placeholder'[dialog[m]])
      BY <3>2 DEF Tells, Status
    <3>4. QED
      BY <1>4, <2>1, <2>2, <2>3, <2>4, <3>1, <3>2, <3>3
  <2>7. QED
    BY <1>7, <2>5, <2>6
<1>8. CASE Serve
  <2>. DEFINE d == Head(uplink)
              e == Built(d, display[d], placeholder[d])
  <2>1. /\ uplink # <<>> /\ buffer' = Append(buffer, e)
        /\ UNCHANGED <<display, placeholder, wire, snapshot, missed, up>>
    BY <1>8 DEF Serve, containerVars, browserVars
  <2>2. d \in Dialogs /\ buffer \in Seq(Buffered)
    BY <1>0, <2>1 DEF ViewTypes
  <2>3. /\ display[d] \in Shown /\ placeholder[d] \in MsgIds \cup {None}
    BY <1>0, <2>2 DEF ContainerTypes, Shown
  <2>4. e \in Buffered
    BY <2>2, <2>3, EventTypes DEF Buffered
  <2>5. up
    BY <2>1 DEF CurrentInv, Down
  <2>6. e.id = d /\ Tells(e, e.stream, display'[d], placeholder'[d])
    BY <2>1 DEF Tells, Built
  <2>. HIDE DEF d, e
  <2>7. PICK r \in Seq(Buffered) : /\ buffer' = buffer \o r /\ DOMAIN r = {1}
                                  /\ r[1] = e /\ Len(r) = 1 /\ r # <<>>
    BY <2>1, <2>2, <2>4, TailOfOne
  <2>9. QED
    BY <2>1, <2>2, <2>5, <2>6, <2>7, AnnouncementCurrent
<1>9. CASE Send
  BY <1>9, SendCurrent
<1>10. CASE Receive
  BY <1>10, ReceiveCurrent
<1>11. CASE Break
  BY <1>11 DEF Break, CurrentInv, BufferCurrent, WireCurrent, ScreenCurrent, Down
<1>12. CASE Reconnect
  BY <1>12 DEF Reconnect, CurrentInv, BufferCurrent, WireCurrent, ScreenCurrent, Down,
               containerVars, browserVars
<1>13. CASE UNCHANGED vars
  BY <1>1, <1>13 DEF vars, containerVars, socketVars, browserVars
<1>14. QED
  BY <1>2, <1>3, <1>5, <1>6, <1>7, <1>8, <1>9, <1>10, <1>11, <1>12, <1>13
     DEF Next, User, System, Turn, Handle

\* Once nothing of the dialog on the screen is under way, and unless its socket
\* broke since, the screen has the status and, but for a failed turn, the
\* running answer that the server has: however turns, subscriptions, the sender
\* and the store interleave, and whatever the length of buffer and socket.
THEOREM StatusCorrect == Spec => []StatusConverges
<1>1. Types /\ CurrentInv => StatusConverges
  <2>. SUFFICES ASSUME Types, CurrentInv, snapshot # None, Settled(snapshot.id)
                PROVE  /\ snapshot.status = display[snapshot.id]
                       /\ snapshot.status # "error" =>
                            Answer(snapshot.stream) = placeholder[snapshot.id]
    BY DEF StatusConverges, Answer
  <2>1. wire \in Seq(Shipped) /\ buffer \in Seq(Buffered)
    BY DEF Types, ViewTypes
  <2>2. /\ \A i \in DOMAIN wire : i \in DOMAIN Coming /\ Coming[i] = wire[i]
        /\ \A i \in DOMAIN buffer :
              Len(wire) + i \in DOMAIN Coming /\ Coming[Len(wire) + i] = buffer[i]
    BY <2>1 DEF Coming
  <2>3. ~About(wire, snapshot.id) /\ ~About(buffer, snapshot.id)
    BY <2>2 DEF Settled, About
  <2>4. QED
    BY <2>3 DEF CurrentInv, ScreenCurrent, Settled
<1>2. QED
  BY <1>1, InitTypes, NextTypes, InitCurrent, NextCurrent, PTL DEF Spec
-----------------------------------------------------------------------------
(***************************************************************************)
(* How often the screen lists an answer.  A message is executed once, so   *)
(* its answer is stored once; a snapshot built outside the window between  *)
(* storing and completing lists every answer once and does not list the    *)
(* one that is still running, which the browser then adds at most once.    *)
(***************************************************************************)
ExecuteOnce ==
    /\ \A i \in DOMAIN bus : bus[i].kind = "execute" => pc[bus[i].msg] = "queued"
    /\ \A i, j \in DOMAIN bus :
         bus[i].kind = "execute" /\ bus[j].kind = "execute" /\ bus[i].msg = bus[j].msg => i = j
StoredOnce ==
    \A d \in Dialogs :
        /\ \A i \in DOMAIN stored[d] : pc[stored[d][i]] = "over"
        /\ \A i, j \in DOMAIN stored[d] : stored[d][i] = stored[d][j] => i = j

\* Snapshot e, with running answer a, lists every answer once and not a.
Single(e, a) ==
    \/ e.window
    \/ /\ \A i, j \in DOMAIN e.messages : e.messages[i].msg = e.messages[j].msg => i = j
       /\ a # None => \A i \in DOMAIN e.messages : e.messages[i].msg # a

BufferSingle ==
    \A i \in DOMAIN buffer : buffer[i].type = "snapshot" => Single(buffer[i], buffer[i].stream)
WireSingle ==
    \A i \in DOMAIN wire : wire[i].type = "snapshot" => Single(wire[i], Answer(wire[i].stream))
ScreenSingle == snapshot # None => Single(snapshot, Answer(snapshot.stream))

SingleInv == ExecuteOnce /\ StoredOnce /\ BufferSingle /\ WireSingle /\ ScreenSingle

\* Nothing but Post asks for an execution.
LEMMA OtherEvents ==
    ASSUME Types, ExecuteOnce, NEW events \in Seq(BusEvents), bus' = bus \o events,
           \A i \in DOMAIN events : events[i].kind # "execute",
           \A m \in MsgIds : pc[m] = "queued" => pc'[m] = "queued"
    PROVE  ExecuteOnce'
<1>1. bus \in Seq(BusEvents) /\ Len(bus) \in Nat /\ Len(events) \in Nat
  BY DEF Types, TurnTypes
<1>2. \A i \in DOMAIN bus' : bus'[i].kind = "execute" => i \in DOMAIN bus /\ bus'[i] = bus[i]
  BY <1>1
<1>3. \A i \in DOMAIN bus : bus[i].msg \in MsgIds
  BY <1>1 DEF BusEvents
<1>4. ASSUME NEW i \in DOMAIN bus', bus'[i].kind = "execute"
      PROVE  pc'[bus'[i].msg] = "queued"
  BY <1>2, <1>3, <1>4 DEF ExecuteOnce
<1>5. ASSUME NEW i \in DOMAIN bus', NEW j \in DOMAIN bus', bus'[i].kind = "execute",
             bus'[j].kind = "execute", bus'[i].msg = bus'[j].msg
      PROVE  i = j
  <2>1. /\ i \in DOMAIN bus /\ bus'[i] = bus[i]
        /\ j \in DOMAIN bus /\ bus'[j] = bus[j]
    BY <1>2, <1>5
  <2>2. QED
    BY <1>5, <2>1 DEF ExecuteOnce
<1>6. QED
  BY <1>4, <1>5 DEF ExecuteOnce

\* Taking an event off the bus; an execution that is taken is the only one.
LEMMA TakenOnce ==
    ASSUME Types, ExecuteOnce, bus # <<>>, bus' = Tail(bus),
           \/ pc' = pc
           \/ /\ Head(bus).kind = "execute"
              /\ \A m \in MsgIds \ {Head(bus).msg} : pc'[m] = pc[m]
    PROVE  ExecuteOnce'
<1>1. bus \in Seq(BusEvents) /\ Len(bus) \in Nat /\ Len(bus) # 0
  BY DEF Types, TurnTypes
<1>2. /\ \A i \in DOMAIN bus' : i \in Nat /\ i # 0 /\ i + 1 \in DOMAIN bus /\ bus'[i] = bus[i + 1]
      /\ 1 \in DOMAIN bus /\ Head(bus) = bus[1]
  BY <1>1
<1>3. \A i, j \in DOMAIN bus' : i + 1 = j + 1 => i = j
  BY <1>2
<1>4. \A i \in DOMAIN bus' : i + 1 # 1
  BY <1>2
<1>5. \A i \in DOMAIN bus : bus[i].msg \in MsgIds
  BY <1>1 DEF BusEvents
<1>6. ASSUME NEW i \in DOMAIN bus', bus'[i].kind = "execute"
      PROVE  pc'[bus'[i].msg] = "queued"
  <2>1. pc[bus'[i].msg] = "queued" /\ bus'[i].msg \in MsgIds
    BY <1>2, <1>5, <1>6 DEF ExecuteOnce
  <2>2. Head(bus).kind = "execute" => bus'[i].msg # Head(bus).msg
    BY <1>2, <1>4, <1>6 DEF ExecuteOnce
  <2>3. QED
    BY <2>1, <2>2
<1>7. QED
  BY <1>2, <1>3, <1>6 DEF ExecuteOnce

\* A message whose turn is running is stored once when its turn ends.
LEMMA StoringOnce ==
    ASSUME Types, StoredOnce, NEW m \in MsgIds, pc[m] = "streaming",
           pc' = [pc EXCEPT ![m] = "over"],
           \/ stored' = [stored EXCEPT ![dialog[m]] = Append(@, m)]
           \/ stored' = stored
    PROVE  StoredOnce'
<1>1. pc \in [MsgIds -> {"new", "queued", "streaming", "over"}]
      /\ stored \in [Dialogs -> Seq(MsgIds)] /\ dialog[m] \in Dialogs
  BY DEF Types, TurnTypes
<1>2. SUFFICES ASSUME NEW d \in Dialogs
               PROVE  /\ \A i \in DOMAIN stored'[d] : pc'[stored'[d][i]] = "over"
                      /\ \A i, j \in DOMAIN stored'[d] : stored'[d][i] = stored'[d][j] => i = j
  BY DEF StoredOnce
<1>3. stored[d] \in Seq(MsgIds) /\ Len(stored[d]) \in Nat
  BY <1>1
<1>4. \A i \in DOMAIN stored[d] : stored[d][i] # m /\ stored[d][i] \in MsgIds
  BY <1>3 DEF StoredOnce
<1>5. CASE stored'[d] = stored[d]
  BY <1>1, <1>4, <1>5 DEF StoredOnce
<1>6. CASE stored'[d] = Append(stored[d], m)
  <2>1. \A i \in DOMAIN stored'[d] :
          \/ i \in DOMAIN stored[d] /\ stored'[d][i] = stored[d][i]
          \/ i = Len(stored[d]) + 1 /\ stored'[d][i] = m
    BY <1>3, <1>6
  <2>2. \A i \in DOMAIN stored'[d] : pc'[stored'[d][i]] = "over"
    BY <1>1, <1>4, <2>1 DEF StoredOnce
  <2>3. \A i, j \in DOMAIN stored'[d] : stored'[d][i] = stored'[d][j] => i = j
    BY <1>4, <2>1 DEF StoredOnce
  <2>4. QED
    BY <2>2, <2>3
<1>7. QED
  BY <1>1, <1>5, <1>6

\* A snapshot that is built outside the window is single.
LEMMA BuiltSingle ==
    ASSUME Types, StoredOnce, NEW d \in Dialogs, NEW s, NEW p \in MsgIds \cup {None}
    PROVE  Single(Built(d, s, p), Built(d, s, p).stream)
<1>. DEFINE list == [i \in DOMAIN stored[d] |-> Listed(stored[d][i], "saved")]
            saved == p # None /\ \E i \in DOMAIN stored[d] : stored[d][i] = p
<1>1. /\ Built(d, s, p).messages = list /\ Built(d, s, p).stream = p
      /\ Built(d, s, p).window = saved
  BY DEF Built
<1>2. DOMAIN list = DOMAIN stored[d] /\ \A i \in DOMAIN list : list[i].msg = stored[d][i]
  BY DEF Listed
<1>3. \A i, j \in DOMAIN list : list[i].msg = list[j].msg => i = j
  BY <1>2 DEF StoredOnce
<1>4. ~saved => (p # None => \A i \in DOMAIN list : list[i].msg # p)
  BY <1>2
<1>5. saved \/ (/\ \A i, j \in DOMAIN list : list[i].msg = list[j].msg => i = j
                /\ p # None => \A i \in DOMAIN list : list[i].msg # p)
  BY <1>3, <1>4
<1>. HIDE DEF list, saved
<1>6. QED
  BY <1>1, <1>5 DEF Single

\* The buffer gets events, of which every snapshot is single.
LEMMA BroadcastSingle ==
    ASSUME Types, BufferSingle, NEW events \in Seq(Buffered), Broadcast(events),
           \A i \in DOMAIN events :
             events[i].type = "snapshot" => Single(events[i], events[i].stream)
    PROVE  BufferSingle' /\ UNCHANGED wire
<1>1. buffer \in Seq(Buffered) /\ Len(buffer) \in Nat /\ Len(events) \in Nat
  BY DEF Types, ViewTypes
<1>2. \A i \in DOMAIN (buffer \o events) :
        \/ i \in DOMAIN buffer /\ (buffer \o events)[i] = buffer[i]
        \/ \E k \in DOMAIN events : (buffer \o events)[i] = events[k]
  <2>1. \A i \in DOMAIN (buffer \o events) :
          \/ i \in DOMAIN buffer /\ (buffer \o events)[i] = buffer[i]
          \/ /\ i - Len(buffer) \in DOMAIN events
             /\ (buffer \o events)[i] = events[i - Len(buffer)]
    BY <1>1
  <2>2. QED
    BY <2>1
<1>3. \A i \in DOMAIN (buffer \o events) :
        (buffer \o events)[i].type = "snapshot"
          => Single((buffer \o events)[i], (buffer \o events)[i].stream)
  BY <1>2 DEF BufferSingle
<1>4. buffer' = buffer \o events \/ buffer' = buffer
  BY DEF Broadcast
<1>5. QED
  BY <1>3, <1>4 DEF BufferSingle, Broadcast

LEMMA SendSingle == Types /\ SingleInv /\ Send => SingleInv'
<1>. SUFFICES ASSUME Types, SingleInv, Send PROVE SingleInv'
  OBVIOUS
<1>. DEFINE e == Head(buffer)
            sent == Serialised(e)
<1>1. /\ buffer # <<>> /\ buffer' = Tail(buffer) /\ wire' = Append(wire, sent)
      /\ UNCHANGED <<snapshot, bus, pc, stored>>
  BY DEF Send, browserVars, turnVars
<1>2. /\ buffer \in Seq(Buffered) /\ Len(buffer) \in Nat /\ Len(buffer) # 0
      /\ wire \in Seq(Shipped) /\ Len(wire) \in Nat /\ e \in Buffered
  BY <1>1 DEF Types, ViewTypes
<1>3. /\ \A i \in DOMAIN buffer' : i + 1 \in DOMAIN buffer /\ buffer'[i] = buffer[i + 1]
      /\ 1 \in DOMAIN buffer /\ e = buffer[1]
  BY <1>1, <1>2
<1>4. BufferSingle'
  BY <1>3 DEF SingleInv, BufferSingle
<1>5. sent.type = "snapshot" => Single(sent, Answer(sent.stream))
  <2>1. sent.type = "snapshot" =>
          /\ e.type = "snapshot" /\ Answer(sent.stream) = e.stream
          /\ sent.messages = e.messages /\ sent.window = e.window
    BY <1>2, ShippedSame
  <2>2. e.type = "snapshot" => Single(e, e.stream)
    BY <1>3 DEF SingleInv, BufferSingle
  <2>. HIDE DEF sent, e
  <2>3. QED
    BY <2>1, <2>2 DEF Single
<1>6. WireSingle'
  <2>. HIDE DEF sent
  <2>1. \A i \in DOMAIN wire' : \/ i \in DOMAIN wire /\ wire'[i] = wire[i]
                                \/ wire'[i] = sent
    BY <1>1, <1>2
  <2>2. QED
    BY <1>5, <2>1 DEF SingleInv, WireSingle
<1>7. QED
  BY <1>1, <1>4, <1>6 DEF SingleInv, ExecuteOnce, StoredOnce, ScreenSingle

\* A finished answer is appended to a list that does not have it.
LEMMA FlushSingle ==
    ASSUME NEW s \in Snapshots(Streams \cup {None}), Single(s, Answer(s.stream))
    PROVE  Single(Flush(s), Answer(Flush(s).stream))
<1>1. Flush(s).window = s.window /\ Answer(Flush(s).stream) = None
  BY FlushSame DEF Answer
<1>2. CASE s.window
  BY <1>1, <1>2 DEF Single
<1>3. CASE ~s.window /\ Flush(s).messages = s.messages
  BY <1>1, <1>3 DEF Single
<1>4. CASE /\ ~s.window /\ s.stream # None
           /\ Flush(s).messages = Append(s.messages, Listed(s.stream.msg, "streamed"))
  <2>1. s.messages \in Seq(Entries) /\ Len(s.messages) \in Nat /\ s.stream.msg \in MsgIds
    BY <1>4 DEF Snapshots, Streams
  <2>2. s.stream.msg # None /\ Answer(s.stream) = s.stream.msg
    BY <1>4, <2>1, DialogViewAssumption DEF Answer
  <2>3. \A i \in DOMAIN s.messages : s.messages[i].msg # s.stream.msg
    BY <1>4, <2>2 DEF Single
  <2>4. Listed(s.stream.msg, "streamed").msg = s.stream.msg
    BY DEF Listed
  <2>. DEFINE list == Flush(s).messages
  <2>5. \A i \in DOMAIN list :
          \/ i \in DOMAIN s.messages /\ list[i] = s.messages[i]
          \/ i = Len(s.messages) + 1 /\ list[i].msg = s.stream.msg
    BY <1>4, <2>1, <2>4
  <2>6. \A i, j \in DOMAIN list : list[i].msg = list[j].msg => i = j
    BY <1>4, <2>3, <2>5 DEF Single
  <2>7. QED
    BY <1>1, <2>6 DEF Single
<1>5. QED
  BY <1>2, <1>3, <1>4, FlushSame

LEMMA ReceiveSingle == Types /\ SingleInv /\ Receive => SingleInv'
<1>. SUFFICES ASSUME Types, SingleInv, Receive PROVE SingleInv'
  OBVIOUS
<1>. DEFINE e == Head(wire)
<1>1. /\ wire # <<>> /\ wire' = Tail(wire) /\ Fold(e)
      /\ UNCHANGED <<buffer, bus, pc, stored>>
  BY DEF Receive, Fold, turnVars
<1>2. wire \in Seq(Shipped) /\ Len(wire) \in Nat /\ Len(wire) # 0 /\ e \in Shipped
  BY <1>1 DEF Types, ViewTypes
<1>3. /\ \A i \in DOMAIN wire' : i + 1 \in DOMAIN wire /\ wire'[i] = wire[i + 1]
      /\ 1 \in DOMAIN wire /\ e = wire[1]
  BY <1>1, <1>2
<1>4. WireSingle'
  BY <1>3 DEF SingleInv, WireSingle
<1>5. e.type = "snapshot" => Single(e, Answer(e.stream))
  BY <1>3 DEF SingleInv, WireSingle
<1>. HIDE DEF e
<1>6. ScreenSingle'
  <2>. SUFFICES ASSUME snapshot' # None PROVE Single(snapshot', Answer(snapshot'.stream))
    BY DEF ScreenSingle
  <2>1. CASE snapshot' = snapshot
    BY <2>1 DEF SingleInv, ScreenSingle
  <2>2. CASE OnSnapshot(e)
    BY <1>5, <2>1, <2>2 DEF OnSnapshot
  <2>3. CASE OnDelta(e)
    <3>1. /\ snapshot # None /\ Answer(snapshot'.stream) = Answer(snapshot.stream)
          /\ snapshot'.messages = snapshot.messages /\ snapshot'.window = snapshot.window
      BY <1>2, <2>3, DeltaSame
    <3>2. QED
      BY <3>1 DEF SingleInv, ScreenSingle, Single
  <2>4. CASE OnStatus(e)
    <3>1. CASE ~Shows(e.id)
      BY <2>1, <2>4, <3>1 DEF OnStatus
    <3>2. CASE Shows(e.id)
      <4>1. snapshot \in Snapshots(Streams \cup {None}) /\ snapshot # None
        BY <3>2 DEF Shows, Types, ViewTypes
      <4>2. e.to \in Shown
        BY <1>2, <2>4 DEF OnStatus, Shipped, DeltaEvents, StatusEvents, ErrorEvents, Snapshots
      <4>. DEFINE next == [snapshot EXCEPT !.status = e.to]
      <4>3. /\ next \in Snapshots(Streams \cup {None}) /\ next.stream = snapshot.stream
            /\ next.messages = snapshot.messages /\ next.window = snapshot.window
        BY <4>1, <4>2 DEF Snapshots
      <4>4. snapshot' = next \/ snapshot' = Flush(next)
        BY <2>4, <3>2 DEF OnStatus
      <4>. HIDE DEF next
      <4>5. Single(next, Answer(next.stream))
        BY <4>1, <4>3 DEF SingleInv, ScreenSingle, Single
      <4>6. QED
        BY <4>3, <4>4, <4>5, FlushSingle
    <3>3. QED
      BY <3>1, <3>2
  <2>5. QED
    BY <1>1, <2>1, <2>2, <2>3, <2>4 DEF Fold, OnError
<1>7. QED
  BY <1>1, <1>4, <1>6 DEF SingleInv, ExecuteOnce, StoredOnce, BufferSingle

LEMMA InitSingle == Init => SingleInv
  BY DEF Init, SingleInv, ExecuteOnce, StoredOnce, BufferSingle, WireSingle, ScreenSingle

LEMMA NextSingle == Types /\ SingleInv /\ [Next]_vars => SingleInv'
<1>. SUFFICES ASSUME Types, SingleInv, [Next]_vars PROVE SingleInv'
  OBVIOUS
<1>0. /\ TurnTypes /\ ContainerTypes /\ ViewTypes
      /\ ExecuteOnce /\ StoredOnce /\ BufferSingle /\ WireSingle /\ ScreenSingle
  BY DEF Types, SingleInv
\* Steps that leave parts of the state alone.
<1>1. UNCHANGED <<bus, pc>> => ExecuteOnce'
  BY <1>0 DEF ExecuteOnce
<1>2. UNCHANGED <<stored, pc>> => StoredOnce'
  BY <1>0 DEF StoredOnce
<1>3. UNCHANGED <<buffer, wire>> => BufferSingle' /\ WireSingle'
  BY <1>0 DEF BufferSingle, WireSingle
<1>4. snapshot' \in {snapshot, None} => ScreenSingle'
  BY <1>0 DEF ScreenSingle
<1>5. UNCHANGED wire => WireSingle'
  BY <1>0 DEF WireSingle
<1>6. ASSUME NEW d \in Dialogs, NewChat(d) \/ SelectDialog(d) PROVE SingleInv'
  <2>1. UNCHANGED <<bus, pc, stored, buffer, wire>> /\ snapshot' \in {snapshot, None}
    BY <1>6 DEF NewChat, SelectDialog, Subscribe, turnVars
  <2>2. QED
    BY <1>1, <1>2, <1>3, <1>4, <2>1 DEF SingleInv
<1>7. ASSUME NEW m \in MsgIds, Post(m) PROVE SingleInv'
  <2>. DEFINE event == [kind |-> "execute", msg |-> m]
  <2>1. /\ pc[m] = "new" /\ pc' = [pc EXCEPT ![m] = "queued"]
        /\ bus' = Append(bus, event)
        /\ UNCHANGED <<stored, buffer, wire, snapshot>>
    BY <1>7 DEF Post, socketVars, browserVars
  <2>2. /\ bus \in Seq(BusEvents) /\ Len(bus) \in Nat
        /\ \A i \in DOMAIN bus : bus[i].msg \in MsgIds /\ bus[i].msg # m
    BY <1>0, <2>1 DEF TurnTypes, BusEvents
  <2>3. event.kind = "execute" /\ event.msg = m
    OBVIOUS
  <2>. HIDE DEF event
  <2>4. \A i \in DOMAIN bus' : \/ i \in DOMAIN bus /\ bus'[i] = bus[i]
                               \/ i = Len(bus) + 1 /\ bus'[i] = event
    BY <2>1, <2>2
  <2>5. pc'[m] = "queued" /\ \A x \in MsgIds \ {m} : pc'[x] = pc[x]
    BY <1>0, <2>1 DEF TurnTypes
  <2>6. \A i \in DOMAIN bus' : bus'[i].kind = "execute" => pc'[bus'[i].msg] = "queued"
    BY <1>0, <2>2, <2>3, <2>4, <2>5 DEF ExecuteOnce
  <2>7. \A i, j \in DOMAIN bus' :
          bus'[i].kind = "execute" /\ bus'[j].kind = "execute" /\ bus'[i].msg = bus'[j].msg
            => i = j
    BY <1>0, <2>2, <2>3, <2>4 DEF ExecuteOnce
  <2>8. ExecuteOnce'
    BY <2>6, <2>7 DEF ExecuteOnce
  <2>9. StoredOnce'
    <3>1. \A d \in Dialogs : \A i \in DOMAIN stored[d] :
            stored[d][i] \in MsgIds /\ stored[d][i] # m
      BY <1>0, <2>1 DEF StoredOnce, TurnTypes
    <3>2. QED
      BY <1>0, <2>1, <2>5, <3>1 DEF StoredOnce
  <2>10. QED
    BY <1>3, <1>4, <2>1, <2>8, <2>9 DEF SingleInv
<1>8. ASSUME NEW m \in MsgIds, Chunk(m) PROVE SingleInv'
  <2>. DEFINE chunk == <<m, said[m] + 1>>
              event == [kind |-> "progress", msg |-> m, delta |-> chunk,
                        accumulated |-> acc'[dialog[m]]]
  <2>1. /\ bus' = Append(bus, event) /\ pc[m] = "streaming"
        /\ acc' = [acc EXCEPT ![dialog[m]] = Append(@, chunk)]
        /\ UNCHANGED <<pc, stored, buffer, wire, snapshot>>
    BY <1>8 DEF Chunk, socketVars, browserVars
  <2>2. event \in BusEvents /\ event.kind = "progress"
    <3>1. dialog[m] \in Dialogs /\ chunk \in Chunks
      BY <1>0, <2>1 DEF TurnTypes, Chunks
    <3>2. acc'[dialog[m]] \in Texts
      BY <1>0, <2>1, <3>1 DEF ContainerTypes, Texts
    <3>3. QED
      BY <3>1, <3>2 DEF BusEvents
  <2>3. bus \in Seq(BusEvents)
    BY <1>0 DEF TurnTypes
  <2>. HIDE DEF event
  <2>4. PICK r \in Seq(BusEvents) : bus' = bus \o r /\ DOMAIN r = {1} /\ r[1] = event
    <3>1. event \in BusEvents /\ bus' = Append(bus, event)
      BY <2>1, <2>2
    <3>2. \E r \in Seq(BusEvents) : /\ r = <<event>> /\ Append(bus, event) = bus \o r
                                    /\ DOMAIN r = {1} /\ r[1] = event
      BY <2>3, <3>1, OneEvent
    <3>3. QED
      BY <3>1, <3>2
  <2>5. ExecuteOnce'
    BY <1>0, <2>1, <2>2, <2>4, OtherEvents
  <2>6. QED
    BY <1>2, <1>3, <1>4, <2>1, <2>5 DEF SingleInv
<1>9. ASSUME NEW m \in MsgIds, EndStream(m) \/ FailStream(m) PROVE SingleInv'
  <2>1. /\ pc[m] = "streaming" /\ pc' = [pc EXCEPT ![m] = "over"]
        /\ UNCHANGED <<buffer, wire, snapshot>>
    BY <1>9 DEF EndStream, FailStream, socketVars, browserVars
  <2>2. \/ stored' = [stored EXCEPT ![dialog[m]] = Append(@, m)]
        \/ stored' = stored
    BY <1>0, <1>9 DEF EndStream, FailStream, TurnTypes
  <2>3. StoredOnce'
    BY <1>0, <2>1, <2>2, StoringOnce
  <2>4. PICK events \in {<<[kind |-> "complete", msg |-> m]>>,
                         <<[kind |-> "error", msg |-> m]>>,
                         <<[kind |-> "complete", msg |-> m], [kind |-> "error", msg |-> m]>>} :
            bus' = bus \o events
    <3>1. /\ [kind |-> "complete", msg |-> m] \in BusEvents
          /\ [kind |-> "error", msg |-> m] \in BusEvents
      BY DEF BusEvents
    <3>2. CASE EndStream(m)
      BY <1>0, <3>1, <3>2 DEF EndStream, TurnTypes
    <3>3. CASE FailStream(m) /\ said[m] > 0
      BY <1>0, <3>1, <3>3 DEF FailStream, TurnTypes
    <3>4. CASE FailStream(m) /\ ~(said[m] > 0)
      BY <1>0, <3>1, <3>4 DEF FailStream, TurnTypes
    <3>5. QED
      BY <1>9, <3>2, <3>3, <3>4
  <2>5. events \in Seq(BusEvents) /\ \A i \in DOMAIN events : events[i].kind # "execute"
    <3>. DEFINE done == [kind |-> "complete", msg |-> m]
                failed == [kind |-> "error", msg |-> m]
    <3>1. /\ done \in BusEvents /\ done.kind # "execute"
          /\ failed \in BusEvents /\ failed.kind # "execute"
      BY DEF BusEvents
    <3>2. events \in {<<done>>, <<failed>>, <<done, failed>>}
      BY <2>4
    <3>. HIDE DEF done, failed
    <3>3. events \in Seq(BusEvents)
      <4>1. /\ <<done>> \in Seq(BusEvents) /\ <<failed>> \in Seq(BusEvents)
            /\ <<done, failed>> \in Seq(BusEvents)
        BY <3>1
      <4>2. QED
        BY <3>2, <4>1
    <3>4. \A i \in DOMAIN events : events[i] \in {done, failed}
      BY <3>1, <3>2
    <3>5. QED
      BY <3>1, <3>3, <3>4
  <2>6. \A x \in MsgIds : pc[x] = "queued" => pc'[x] = "queued"
    BY <1>0, <2>1 DEF TurnTypes
  <2>7. ExecuteOnce'
    BY <1>0, <2>4, <2>5, <2>6, OtherEvents
  <2>8. QED
    BY <1>3, <1>4, <2>1, <2>3, <2>7 DEF SingleInv
\* The handlers of the bus.
<1>10. ASSUME NEW m \in MsgIds, Begin(m) PROVE SingleInv'
  <2>1. /\ bus # <<>> /\ bus' = Tail(bus) /\ Head(bus) = [kind |-> "execute", msg |-> m]
        /\ pc' = [pc EXCEPT ![m] = "streaming"]
        /\ Broadcast(<<Status(dialog[m], "thinking"), Built(dialog[m], "thinking", m)>>)
        /\ UNCHANGED <<stored, snapshot>>
    BY <1>10 DEF Begin, Consume, browserVars
  <2>2. dialog[m] \in Dialogs /\ Head(bus).msg = m /\ Head(bus).kind = "execute"
    BY <1>0, <2>1, TakenTypes
  <2>3. ExecuteOnce'
    <3>1. \A x \in MsgIds \ {Head(bus).msg} : pc'[x] = pc[x]
      BY <1>0, <2>1, <2>2 DEF TurnTypes
    <3>2. QED
      BY <1>0, <2>1, <2>2, <3>1, TakenOnce
  <2>4. StoredOnce'
    <3>1. pc[m] = "queued"
      <4>1. 1 \in DOMAIN bus /\ bus[1] = Head(bus)
        BY <1>0, <2>1 DEF TurnTypes
      <4>2. QED
        BY <1>0, <2>2, <4>1 DEF ExecuteOnce
    <3>2. \A d \in Dialogs : \A i \in DOMAIN stored[d] :
            stored[d][i] \in MsgIds /\ stored[d][i] # m
      BY <1>0, <3>1 DEF StoredOnce, TurnTypes
    <3>3. \A x \in MsgIds \ {m} : pc'[x] = pc[x]
      BY <1>0, <2>1 DEF TurnTypes
    <3>4. QED
      BY <1>0, <2>1, <3>2, <3>3 DEF StoredOnce
  <2>5. BufferSingle' /\ UNCHANGED wire
    <3>. DEFINE e1 == Status(dialog[m], "thinking")
                e2 == Built(dialog[m], "thinking", m)
    <3>1. e1 \in Buffered /\ e2 \in Buffered
      BY <2>2, EventTypes DEF Buffered, Shown
    <3>2. e1.type # "snapshot"
      BY DEF Status
    <3>3. Single(e2, e2.stream)
      BY <1>0, <2>2, BuiltSingle
    <3>4. Broadcast(<<e1, e2>>)
      BY <2>1
    <3>. HIDE DEF e1, e2
    <3>5. /\ <<e1, e2>> \in Seq(Buffered)
          /\ \A i \in DOMAIN <<e1, e2>> :
               <<e1, e2>>[i].type = "snapshot" => Single(<<e1, e2>>[i], <<e1, e2>>[i].stream)
      BY <3>1, <3>2, <3>3
    <3>6. QED
      BY <1>0, <3>4, <3>5, BroadcastSingle
  <2>6. QED
    BY <1>4, <1>5, <2>1, <2>3, <2>4, <2>5 DEF SingleInv
<1>11. ASSUME NEW m \in MsgIds, HandleProgress(m) \/ HandleComplete(m) \/ HandleError(m)
       PROVE  SingleInv'
  <2>1. /\ bus # <<>> /\ bus' = Tail(bus) /\ Head(bus).msg = m
        /\ UNCHANGED <<pc, stored, snapshot>>
    BY <1>11 DEF HandleProgress, HandleComplete, HandleError, Consume, turnVars, browserVars
  <2>2. dialog[m] \in Dialogs /\ Head(bus) \in BusEvents
    BY <1>0, <2>1, TakenTypes
  <2>3. ExecuteOnce'
    BY <1>0, <2>1, TakenOnce
  <2>4. BufferSingle' /\ UNCHANGED wire
    <3>1. PICK events \in Seq(Buffered) :
            Broadcast(events) /\ \A i \in DOMAIN events : events[i].type # "snapshot"
      <4>1. CASE HandleProgress(m)
        <5>. DEFINE e == Delta(m, Head(bus).delta, numbers[dialog[m]] + 1)
        <5>1. Broadcast(<<e>>) /\ Head(bus).kind = "progress"
          BY <4>1 DEF HandleProgress
        <5>2. Head(bus).delta \in Chunks /\ numbers[dialog[m]] + 1 \in Nat
          BY <1>0, <2>2, <5>1 DEF BusEvents, ContainerTypes
        <5>3. e \in Buffered /\ e.type # "snapshot"
          BY <2>2, <5>2, EventTypes DEF Buffered, Delta
        <5>. HIDE DEF e
        <5>4. <<e>> \in Seq(Buffered) /\ \A i \in DOMAIN <<e>> : <<e>>[i].type # "snapshot"
          BY <5>3
        <5>5. QED
          BY <5>1, <5>4
      <4>2. CASE HandleComplete(m) \/ HandleError(m)
        <5>1. PICK e1 \in Buffered, e2 \in Buffered :
                Broadcast(<<e1, e2>>) /\ e1.type # "snapshot" /\ e2.type # "snapshot"
          <6>1. /\ Status(dialog[m], "completed") \in Buffered
                /\ Status(dialog[m], "idle") \in Buffered
                /\ Error(dialog[m]) \in Buffered /\ Status(dialog[m], "error") \in Buffered
            BY <2>2, EventTypes DEF Buffered, Shown
          <6>2. /\ \A s : Status(dialog[m], s).type # "snapshot"
                /\ Error(dialog[m]).type # "snapshot"
            BY DEF Status, Error
          <6>3. \/ Broadcast(<<Status(dialog[m], "completed"), Status(dialog[m], "idle")>>)
                \/ Broadcast(<<Error(dialog[m]), Status(dialog[m], "error")>>)
            BY <4>2 DEF HandleComplete, HandleError
          <6>4. QED
            BY <6>1, <6>2, <6>3
        <5>2. /\ <<e1, e2>> \in Seq(Buffered)
              /\ \A i \in DOMAIN <<e1, e2>> : <<e1, e2>>[i].type # "snapshot"
          BY <5>1
        <5>3. QED
          BY <5>1, <5>2
      <4>3. QED
        BY <1>11, <4>1, <4>2
    <3>2. QED
      BY <1>0, <3>1, BroadcastSingle
  <2>5. QED
    BY <1>2, <1>4, <1>5, <2>1, <2>3, <2>4 DEF SingleInv
<1>12. CASE Serve
  <2>. DEFINE d == Head(uplink)
              e == Built(d, display[d], placeholder[d])
  <2>1. /\ uplink # <<>> /\ buffer' = Append(buffer, e)
        /\ UNCHANGED <<bus, pc, stored, wire, snapshot>>
    BY <1>12 DEF Serve, turnVars, browserVars
  <2>2. d \in Dialogs /\ buffer \in Seq(Buffered)
    BY <1>0, <2>1 DEF ViewTypes
  <2>3. display[d] \in Shown /\ placeholder[d] \in MsgIds \cup {None}
    BY <1>0, <2>2 DEF ContainerTypes, Shown
  <2>4. e \in Buffered
    BY <2>2, <2>3, EventTypes DEF Buffered
  <2>5. Single(e, e.stream)
    BY <1>0, <2>2, <2>3, BuiltSingle
  <2>. HIDE DEF d, e
  <2>6. \A i \in DOMAIN buffer' : \/ i \in DOMAIN buffer /\ buffer'[i] = buffer[i]
                                  \/ buffer'[i] = e
    BY <2>1, <2>2, <2>4
  <2>7. BufferSingle'
    BY <1>0, <2>5, <2>6 DEF BufferSingle
  <2>8. QED
    BY <1>1, <1>2, <1>4, <1>5, <2>1, <2>7 DEF SingleInv
<1>13. CASE Send
  BY <1>13, SendSingle
<1>14. CASE Receive
  BY <1>14, ReceiveSingle
<1>15. CASE Break
  <2>1. /\ UNCHANGED <<bus, pc, stored, snapshot>>
        /\ buffer' = <<>> /\ wire' = <<>>
    BY <1>15 DEF Break, turnVars
  <2>2. BufferSingle' /\ WireSingle'
    BY <2>1 DEF BufferSingle, WireSingle
  <2>3. QED
    BY <1>1, <1>2, <1>4, <2>1, <2>2 DEF SingleInv
<1>16. CASE Reconnect \/ UNCHANGED vars
  <2>1. UNCHANGED <<bus, pc, stored, buffer, wire, snapshot>>
    BY <1>16 DEF Reconnect, vars, turnVars, socketVars, browserVars
  <2>2. QED
    BY <1>1, <1>2, <1>3, <1>4, <2>1 DEF SingleInv
<1>17. QED
  BY <1>6, <1>7, <1>8, <1>9, <1>10, <1>11, <1>12, <1>13, <1>14, <1>15, <1>16
     DEF Next, User, System, Turn, Handle

\* An answer is on the screen twice only when the snapshot was built between
\* storing the answer and handling its completion, whatever turns, events and
\* subscriptions come between and however often the browser reconnects.
THEOREM AnswerShownCorrect == Spec => []AnswerShownOnce
<1>1. SingleInv => AnswerShownOnce
  BY DEF SingleInv, ScreenSingle, Single, AnswerShownOnce
<1>2. QED
  BY <1>1, InitTypes, NextTypes, InitSingle, NextSingle, PTL DEF Spec
-----------------------------------------------------------------------------
(***************************************************************************)
(* The order of a dialog's turns.  The events of one turn are on the bus in*)
(* their order, and a turn of the same dialog comes after another only     *)
(* when nothing but the failure of the other is left: while a dialog has a *)
(* running answer its placeholder is that answer, and nothing of another   *)
(* message can take it away.                                               *)
(***************************************************************************)
Runs(m) == placeholder[dialog[m]] = m /\ display[dialog[m]] = "thinking"
Kept(m) == \E i \in DOMAIN stored[dialog[m]] : stored[dialog[m]][i] = m
Queued(kind, m) == \E i \in DOMAIN bus : bus[i].kind = kind /\ bus[i].msg = m

\* Event f may follow event e of the same dialog.
Sequel(e, f) ==
    IF e.msg = f.msg
    THEN \/ e.kind = "progress" /\ f.kind # "execute"
         \/ e.kind = "complete" /\ f.kind = "error"
    ELSE e.kind = "error" /\ f.kind = "execute"

Sequels ==
    \A i, j \in DOMAIN bus :
        i < j /\ dialog[bus[i].msg] = dialog[bus[j].msg] => Sequel(bus[i], bus[j])
Announced ==
    \A m \in MsgIds :
        /\ Queued("execute", m) => pc[m] = "queued"
        /\ Queued("progress", m) => Runs(m)
        /\ Queued("complete", m) => Runs(m) /\ Kept(m) /\ pc[m] = "over"
        /\ Queued("error", m) => pc[m] = "over"
Streaming ==
    \A m \in MsgIds : pc[m] = "streaming" =>
        /\ Runs(m)
        /\ \A n \in MsgIds : dialog[n] = dialog[m] =>
             /\ ~Queued("execute", n) /\ ~Queued("complete", n) /\ ~Queued("error", n)
             /\ Queued("progress", n) => n = m
Waiting ==
    /\ \A m \in MsgIds : pc[m] = "queued" => display[dialog[m]] # "thinking"
    /\ \A m, n \in MsgIds :
         pc[m] = "queued" /\ pc[n] = "queued" /\ dialog[m] = dialog[n] => m = n
Placed ==
    \A d \in Dialogs, m \in MsgIds : placeholder[d] = m =>
        /\ dialog[m] = d /\ display[d] = "thinking"
        /\ pc[m] \in {"streaming", "over"}
        /\ pc[m] = "over" /\ Kept(m) => Queued("complete", m)

TurnsInv == Sequels /\ Announced /\ Streaming /\ Waiting /\ Placed

LEMMA TailEvents ==
    ASSUME NEW S, NEW q \in Seq(S), q # <<>>
    PROVE  /\ 1 \in DOMAIN q /\ Head(q) = q[1] /\ Tail(q) \in Seq(S)
           /\ \A i \in DOMAIN Tail(q) : /\ i + 1 \in DOMAIN q /\ Tail(q)[i] = q[i + 1]
                                        /\ i \in Nat /\ i > 0
           /\ \A i \in DOMAIN q : \/ i = 1
                                  \/ /\ i - 1 \in DOMAIN Tail(q) /\ Tail(q)[i - 1] = q[i]
                                     /\ i \in Nat
           /\ Len(q) \in Nat /\ Len(q) > 0 /\ Len(Tail(q)) = Len(q) - 1
  OBVIOUS

LEMMA ConcatEvents ==
    ASSUME NEW S, NEW q \in Seq(S), NEW r \in Seq(S)
    PROVE  /\ q \o r \in Seq(S) /\ Len(q) \in Nat /\ Len(r) \in Nat
           /\ Len(q \o r) = Len(q) + Len(r)
           /\ \A i \in DOMAIN q : /\ i \in DOMAIN (q \o r) /\ (q \o r)[i] = q[i]
                                  /\ i \in Nat /\ 1 <= i /\ i <= Len(q)
           /\ \A k \in DOMAIN r : /\ Len(q) + k \in DOMAIN (q \o r)
                                  /\ (q \o r)[Len(q) + k] = r[k] /\ k \in Nat /\ k > 0
           /\ \A i \in DOMAIN (q \o r) : \/ i \in DOMAIN q
                                         \/ \E k \in DOMAIN r : i = Len(q) + k
<1>1. /\ Len(q) \in Nat /\ Len(r) \in Nat /\ q \o r \in Seq(S)
      /\ DOMAIN q = 1..Len(q) /\ DOMAIN r = 1..Len(r)
      /\ DOMAIN (q \o r) = 1..(Len(q) + Len(r)) /\ Len(q \o r) = Len(q) + Len(r)
  OBVIOUS
<1>2. /\ \A i \in DOMAIN q : i \in DOMAIN (q \o r) /\ (q \o r)[i] = q[i]
      /\ \A k \in DOMAIN r : Len(q) + k \in DOMAIN (q \o r) /\ (q \o r)[Len(q) + k] = r[k]
  BY <1>1
<1>3. \A i \in DOMAIN (q \o r) : i \in DOMAIN q \/ \E k \in DOMAIN r : i = Len(q) + k
  <2>1. \A i \in DOMAIN (q \o r) : i \in DOMAIN q \/ i - Len(q) \in DOMAIN r
    BY <1>1
  <2>2. \A i \in DOMAIN (q \o r) : i = Len(q) + (i - Len(q))
    BY <1>1
  <2>3. QED
    BY <2>1, <2>2
<1>4. QED
  BY <1>1, <1>2, <1>3

\* The bus loses its first event.
LEMMA BusTail ==
    ASSUME TurnTypes, bus # <<>>, bus' = Tail(bus)
    PROVE  /\ \A k, n : Queued(k, n)' => Queued(k, n)
           /\ \A k, n : Queued(k, n) =>
                Queued(k, n)' \/ (Head(bus).kind = k /\ Head(bus).msg = n)
           /\ Queued(Head(bus).kind, Head(bus).msg)
           /\ Sequels /\ UNCHANGED dialog => Sequels'
           /\ Sequels => \A j \in DOMAIN bus : j # 1 /\ dialog[bus[j].msg] = dialog[Head(bus).msg]
                            => Sequel(Head(bus), bus[j])
           /\ \A k, n : Queued(k, n)' => \E j \in DOMAIN bus :
                            j # 1 /\ bus[j].kind = k /\ bus[j].msg = n
<1>1. bus \in Seq(BusEvents)
  BY DEF TurnTypes
<1>2. /\ 1 \in DOMAIN bus /\ Head(bus) = bus[1]
      /\ \A i \in DOMAIN bus' : i + 1 \in DOMAIN bus /\ bus'[i] = bus[i + 1] /\ i \in Nat /\ i > 0
      /\ \A i \in DOMAIN bus : \/ i = 1
                               \/ i - 1 \in DOMAIN bus' /\ bus'[i - 1] = bus[i] /\ i \in Nat
  BY <1>1, TailEvents
<1>3. \A k, n : Queued(k, n)' => \E j \in DOMAIN bus : j # 1 /\ bus[j].kind = k /\ bus[j].msg = n
  <2>1. \A i \in DOMAIN bus' : i + 1 # 1
    BY <1>2
  <2>2. QED
    BY <1>2, <2>1 DEF Queued
<1>4. \A k, n : Queued(k, n) => Queued(k, n)' \/ (Head(bus).kind = k /\ Head(bus).msg = n)
  BY <1>2 DEF Queued
<1>5. Queued(Head(bus).kind, Head(bus).msg)
  BY <1>2 DEF Queued
<1>6. Sequels /\ UNCHANGED dialog => Sequels'
  <2>1. \A i, j \in DOMAIN bus' : i < j => i + 1 < j + 1
    BY <1>2
  <2>2. QED
    BY <1>2, <2>1 DEF Sequels
<1>7. Sequels => \A j \in DOMAIN bus : j # 1 /\ dialog[bus[j].msg] = dialog[Head(bus).msg]
                    => Sequel(Head(bus), bus[j])
  <2>1. \A j \in DOMAIN bus : j # 1 => 1 < j
    BY <1>1
  <2>2. QED
    BY <1>2, <2>1 DEF Sequels
<1>8. QED
  BY <1>3, <1>4, <1>5, <1>6, <1>7 DEF Queued

LEMMA QueuedGrows ==
    ASSUME TurnTypes, NEW r \in Seq(BusEvents), bus' = bus \o r
    PROVE  \A k, n : Queued(k, n)' <=>
                Queued(k, n) \/ \E i \in DOMAIN r : r[i].kind = k /\ r[i].msg = n
<1>1. bus \in Seq(BusEvents)
  BY DEF TurnTypes
<1>2. /\ \A i \in DOMAIN bus : i \in DOMAIN bus' /\ bus'[i] = bus[i]
      /\ \A k \in DOMAIN r : Len(bus) + k \in DOMAIN bus' /\ bus'[Len(bus) + k] = r[k]
      /\ \A i \in DOMAIN bus' : i \in DOMAIN bus \/ \E k \in DOMAIN r : i = Len(bus) + k
  BY <1>1, ConcatEvents, SMTT(30)
<1>3. ASSUME NEW k, NEW n, NEW i \in DOMAIN bus', bus'[i].kind = k, bus'[i].msg = n
      PROVE  Queued(k, n) \/ \E l \in DOMAIN r : r[l].kind = k /\ r[l].msg = n
  <2>1. CASE i \in DOMAIN bus
    BY <1>2, <1>3, <2>1 DEF Queued
  <2>2. CASE i \notin DOMAIN bus
    <3>1. PICK l \in DOMAIN r : i = Len(bus) + l
      BY <1>2, <2>2
    <3>2. bus'[i] = r[l]
      BY <1>2, <3>1
    <3>3. QED
      BY <1>3, <3>2
  <2>3. QED
    BY <2>1, <2>2
<1>4. ASSUME NEW k, NEW n, Queued(k, n) PROVE Queued(k, n)'
  BY <1>2, <1>4 DEF Queued
<1>5. ASSUME NEW k, NEW n, NEW l \in DOMAIN r, r[l].kind = k, r[l].msg = n PROVE Queued(k, n)'
  BY <1>2, <1>5 DEF Queued
<1>6. \A k, n : Queued(k, n)' => Queued(k, n) \/ \E l \in DOMAIN r : r[l].kind = k /\ r[l].msg = n
  BY <1>3 DEF Queued
<1>7. QED
  BY <1>4, <1>5, <1>6

\* The bus gets events of one dialog that follow what it has of the dialog.
LEMMA SequelsGrow ==
    ASSUME TurnTypes, NEW r \in Seq(BusEvents), bus' = bus \o r, Sequels, NEW d,
           \A i \in DOMAIN bus : dialog'[bus[i].msg] = dialog[bus[i].msg],
           \A k \in DOMAIN r : dialog'[r[k].msg] = d,
           \A i \in DOMAIN bus : dialog[bus[i].msg] = d =>
              \A k \in DOMAIN r : Sequel(bus[i], r[k]),
           \A k, l \in DOMAIN r : k < l => Sequel(r[k], r[l])
    PROVE  Sequels'
<1>1. bus \in Seq(BusEvents)
  BY DEF TurnTypes
<1>2. /\ Len(bus) \in Nat
      /\ \A i \in DOMAIN bus : i \in DOMAIN bus' /\ bus'[i] = bus[i] /\ i \in Nat /\ i <= Len(bus)
      /\ \A k \in DOMAIN r : /\ Len(bus) + k \in DOMAIN bus' /\ bus'[Len(bus) + k] = r[k]
                             /\ k \in Nat /\ k > 0
      /\ \A i \in DOMAIN bus' : i \in DOMAIN bus \/ \E k \in DOMAIN r : i = Len(bus) + k
  BY <1>1, ConcatEvents, SMTT(30)
<1>. SUFFICES ASSUME NEW i \in DOMAIN bus', NEW j \in DOMAIN bus', i < j,
                     dialog'[bus'[i].msg] = dialog'[bus'[j].msg]
              PROVE  Sequel(bus'[i], bus'[j])
  BY SMTT(30) DEF Sequels, Sequel
<1>3. CASE i \in DOMAIN bus /\ j \in DOMAIN bus
  BY <1>2, <1>3 DEF Sequels
<1>4. CASE i \in DOMAIN bus /\ \E k \in DOMAIN r : j = Len(bus) + k
  <2>1. PICK k \in DOMAIN r : j = Len(bus) + k
    BY <1>4
  <2>2. /\ bus'[i] = bus[i] /\ bus'[j] = r[k]
        /\ dialog'[bus[i].msg] = dialog[bus[i].msg] /\ dialog'[r[k].msg] = d
    BY <1>2, <1>4, <2>1
  <2>3. dialog[bus[i].msg] = d
    BY <2>2
  <2>4. QED
    BY <1>4, <2>2, <2>3
<1>5. ASSUME NEW k \in DOMAIN r, i = Len(bus) + k PROVE Sequel(bus'[i], bus'[j])
  <2>1. j \notin DOMAIN bus
    BY <1>2, <1>5
  <2>2. PICK l \in DOMAIN r : j = Len(bus) + l
    BY <1>2, <2>1
  <2>3. k < l
    BY <1>2, <1>5, <2>2
  <2>4. QED
    BY <1>2, <1>5, <2>2, <2>3
<1>6. QED
  BY <1>2, <1>3, <1>4, <1>5

LEMMA InitTurns == Init => TurnsInv
  BY DialogViewAssumption DEF Init, TurnsInv, Sequels, Announced, Streaming, Waiting, Placed, Queued

\* Steps of everything but turns and handlers.
LEMMA ElsewhereTurns ==
    ASSUME TurnsInv, UNCHANGED <<bus, dialog, pc, stored, display, placeholder>>
    PROVE  TurnsInv'
<1>1. Sequels'
  BY DEF TurnsInv, Sequels, Sequel
<1>2. /\ \A m : Runs(m)' <=> Runs(m)
      /\ \A m : Kept(m)' <=> Kept(m)
      /\ \A k, m : Queued(k, m)' <=> Queued(k, m)
  BY DEF Runs, Kept, Queued
<1>3. Announced' /\ Streaming' /\ Waiting' /\ Placed'
  BY <1>2 DEF TurnsInv, Announced, Streaming, Waiting, Placed
<1>4. QED
  BY <1>1, <1>3 DEF TurnsInv

\* A message on the bus has been posted.
LEMMA QueuedTypes ==
    ASSUME TurnTypes
    PROVE  /\ \A k, n : Queued(k, n) => n \in MsgIds /\ pc[n] # "new" /\ dialog[n] \in Dialogs
           /\ \A i \in DOMAIN bus : /\ Queued(bus[i].kind, bus[i].msg)
                                    /\ bus[i].kind \in {"execute", "progress", "complete", "error"}
<1>1. \A i \in DOMAIN bus : bus[i] \in BusEvents
  BY DEF TurnTypes
<1>2. \A e \in BusEvents :
        e.msg \in MsgIds /\ e.kind \in {"execute", "progress", "complete", "error"}
  BY DEF BusEvents
<1>3. \A i \in DOMAIN bus : bus[i].msg \in MsgIds /\ pc[bus[i].msg] # "new"
                            /\ dialog[bus[i].msg] \in Dialogs
  BY <1>1, <1>2 DEF TurnTypes
<1>4. QED
  BY <1>1, <1>2, <1>3 DEF Queued

LEMMA BusOne ==
    ASSUME TurnTypes, NEW e \in BusEvents, bus' = Append(bus, e)
    PROVE  \E r \in Seq(BusEvents) : bus' = bus \o r /\ DOMAIN r = {1} /\ r[1] = e
<1>1. bus \in Seq(BusEvents)
  BY DEF TurnTypes
<1>2. \E r \in Seq(BusEvents) : /\ r = <<e>> /\ Append(bus, e) = bus \o r
                                /\ DOMAIN r = {1} /\ r[1] = e
  BY <1>1, OneEvent
<1>3. QED
  BY <1>2

LEMMA PostTurns ==
    ASSUME Types, TurnsInv, NEW m \in MsgIds, Post(m)
    PROVE  TurnsInv'
<1>. DEFINE event == [kind |-> "execute", msg |-> m]
<1>0. TurnTypes /\ Sequels /\ Announced /\ Streaming /\ Waiting /\ Placed
  BY DEF Types, TurnsInv
<1>1. /\ pc[m] = "new" /\ active \in Dialogs /\ Active(active) = {}
      /\ display[active] # "thinking"
      /\ dialog' = [dialog EXCEPT ![m] = active] /\ pc' = [pc EXCEPT ![m] = "queued"]
      /\ bus' = Append(bus, event)
      /\ UNCHANGED <<stored, display, placeholder>>
  BY DEF Post, containerVars, Types, TurnTypes, ViewTypes
<1>2. event \in BusEvents /\ event.kind = "execute" /\ event.msg = m
  BY DEF BusEvents
<1>. HIDE DEF event
<1>3. PICK r \in Seq(BusEvents) : bus' = bus \o r /\ DOMAIN r = {1} /\ r[1] = event
  BY <1>0, <1>1, <1>2, BusOne
<1>4. /\ dialog'[m] = active /\ pc'[m] = "queued"
      /\ \A n \in MsgIds \ {m} : dialog'[n] = dialog[n] /\ pc'[n] = pc[n]
  BY <1>0, <1>1 DEF TurnTypes
<1>5. \A k, n : Queued(k, n)' <=> Queued(k, n) \/ (k = "execute" /\ n = m)
  BY <1>0, <1>2, <1>3, QueuedGrows
<1>6. \A k, n : Queued(k, n) => n \in MsgIds \ {m} /\ dialog'[n] = dialog[n] /\ pc'[n] = pc[n]
  BY <1>0, <1>1, <1>4, QueuedTypes
<1>7. \A n \in MsgIds : pc[n] \in {"queued", "streaming"} => dialog[n] # active
  BY <1>1 DEF Active
<1>8. Sequels'
  <2>1. ASSUME NEW i \in DOMAIN bus, dialog[bus[i].msg] = active PROVE Sequel(bus[i], event)
    <3>1. /\ Queued(bus[i].kind, bus[i].msg) /\ bus[i].msg \in MsgIds \ {m}
          /\ bus[i].kind \in {"execute", "progress", "complete", "error"}
      BY <1>0, <1>6, QueuedTypes
    <3>2. bus[i].kind \notin {"progress", "complete"}
      BY <1>0, <1>1, <2>1, <3>1 DEF Announced, Runs
    <3>3. bus[i].kind # "execute"
      BY <1>0, <1>7, <2>1, <3>1 DEF Announced
    <3>4. QED
      BY <1>2, <3>1, <3>2, <3>3 DEF Sequel
  <2>2. \A i \in DOMAIN bus : dialog'[bus[i].msg] = dialog[bus[i].msg]
    BY <1>0, <1>6, QueuedTypes
  <2>3. \A k \in DOMAIN r : dialog'[r[k].msg] = active
    BY <1>2, <1>3, <1>4
  <2>4. \A k, l \in DOMAIN r : k < l => Sequel(r[k], r[l])
    BY <1>3
  <2>5. QED
    BY <1>0, <1>3, <2>1, <2>2, <2>3, <2>4, SequelsGrow
<1>9. \A n \in MsgIds \ {m} : (Runs(n)' <=> Runs(n)) /\ (Kept(n)' <=> Kept(n))
  BY <1>1, <1>4 DEF Runs, Kept
<1>10. Announced'
  BY <1>0, <1>4, <1>5, <1>6, <1>9 DEF Announced
<1>11. Streaming'
  BY <1>0, <1>4, <1>5, <1>6, <1>7, <1>9 DEF Streaming
<1>12. Waiting'
  BY <1>0, <1>1, <1>4, <1>7 DEF Waiting
<1>13. Placed'
  BY <1>0, <1>1, <1>4, <1>5, <1>9 DEF Placed
<1>14. QED
  BY <1>8, <1>10, <1>11, <1>12, <1>13 DEF TurnsInv

LEMMA ChunkTurns ==
    ASSUME Types, TurnsInv, NEW m \in MsgIds, Chunk(m)
    PROVE  TurnsInv'
<1>. DEFINE chunk == <<m, said[m] + 1>>
            event == [kind |-> "progress", msg |-> m, delta |-> chunk,
                      accumulated |-> acc'[dialog[m]]]
<1>0. TurnTypes /\ ContainerTypes /\ Sequels /\ Announced /\ Streaming /\ Waiting /\ Placed
  BY DEF Types, TurnsInv
<1>1. /\ bus' = Append(bus, event) /\ pc[m] = "streaming"
      /\ acc' = [acc EXCEPT ![dialog[m]] = Append(@, chunk)]
      /\ UNCHANGED <<dialog, pc, stored, display, placeholder>>
  BY DEF Chunk
<1>2. event \in BusEvents /\ event.kind = "progress" /\ event.msg = m
  <2>1. dialog[m] \in Dialogs /\ chunk \in Chunks
    BY <1>0, <1>1 DEF TurnTypes, Chunks
  <2>2. acc'[dialog[m]] \in Texts
    BY <1>0, <1>1, <2>1 DEF ContainerTypes, Texts
  <2>3. QED
    BY <2>1, <2>2 DEF BusEvents
<1>. HIDE DEF event
<1>3. PICK r \in Seq(BusEvents) : bus' = bus \o r /\ DOMAIN r = {1} /\ r[1] = event
  BY <1>0, <1>1, <1>2, BusOne
<1>4. \A k, n : Queued(k, n)' <=> Queued(k, n) \/ (k = "progress" /\ n = m)
  BY <1>0, <1>2, <1>3, QueuedGrows
<1>5. Runs(m) /\ \A n \in MsgIds : pc[n] = "streaming" /\ dialog[n] = dialog[m] => n = m
  BY <1>0, <1>1 DEF Streaming, Runs
<1>6. Sequels'
  <2>1. ASSUME NEW i \in DOMAIN bus, dialog[bus[i].msg] = dialog[m] PROVE Sequel(bus[i], event)
    <3>1. /\ Queued(bus[i].kind, bus[i].msg) /\ bus[i].msg \in MsgIds
          /\ bus[i].kind \in {"execute", "progress", "complete", "error"}
      BY <1>0, QueuedTypes
    <3>2. bus[i].kind = "progress" /\ bus[i].msg = m
      BY <1>0, <1>1, <2>1, <3>1 DEF Streaming
    <3>3. QED
      BY <1>2, <3>2 DEF Sequel
  <2>2. /\ \A k \in DOMAIN r : dialog'[r[k].msg] = dialog[m]
        /\ \A k, l \in DOMAIN r : k < l => Sequel(r[k], r[l])
    BY <1>1, <1>2, <1>3
  <2>3. \A i \in DOMAIN bus : dialog[bus[i].msg] = dialog[m] =>
            \A k \in DOMAIN r : Sequel(bus[i], r[k])
    BY <1>3, <2>1
  <2>4. QED
    BY <1>0, <1>1, <1>3, <2>2, <2>3, SequelsGrow
<1>7. \A n : (Runs(n)' <=> Runs(n)) /\ (Kept(n)' <=> Kept(n))
  BY <1>1 DEF Runs, Kept
<1>8. Announced'
  BY <1>0, <1>1, <1>4, <1>5, <1>7 DEF Announced
<1>9. Streaming'
  BY <1>0, <1>1, <1>4, <1>5, <1>7 DEF Streaming
<1>10. Waiting' /\ Placed'
  BY <1>0, <1>1, <1>4, <1>7 DEF Waiting, Placed
<1>11. QED
  BY <1>6, <1>8, <1>9, <1>10 DEF TurnsInv

\* What the end of a turn puts on the bus, and when it stores the answer.
LEMMA TurnEnds ==
    ASSUME TurnTypes, NEW m \in MsgIds, EndStream(m) \/ FailStream(m)
    PROVE  \E r \in Seq(BusEvents) :
             /\ bus' = bus \o r
             /\ \A k \in DOMAIN r : r[k].msg = m /\ r[k].kind \in {"complete", "error"}
             /\ \A k, l \in DOMAIN r : k < l => r[k].kind = "complete" /\ r[l].kind = "error"
             /\ \/ /\ stored' = [stored EXCEPT ![dialog[m]] = Append(@, m)]
                   /\ \E k \in DOMAIN r : r[k].kind = "complete"
                \/ /\ stored' = stored
                   /\ \A k \in DOMAIN r : r[k].kind = "error"
<1>. DEFINE done == [kind |-> "complete", msg |-> m]
            failed == [kind |-> "error", msg |-> m]
<1>1. /\ done \in BusEvents /\ done.kind = "complete" /\ done.msg = m
      /\ failed \in BusEvents /\ failed.kind = "error" /\ failed.msg = m
  BY DEF BusEvents
<1>2. \/ /\ bus' = Append(bus, done)
         /\ stored' = [stored EXCEPT ![dialog[m]] = Append(@, m)]
      \/ /\ bus' = bus \o <<done>> \o <<failed>>
         /\ stored' = [stored EXCEPT ![dialog[m]] = Append(@, m)]
      \/ /\ bus' = bus \o <<>> \o <<failed>>
         /\ stored' = [stored EXCEPT ![dialog[m]] = @]
  BY DEF EndStream, FailStream
<1>3. bus \in Seq(BusEvents) /\ [stored EXCEPT ![dialog[m]] = @] = stored
  BY DEF TurnTypes
<1>. HIDE DEF done, failed
<1>4. /\ <<done>> \in Seq(BusEvents) /\ <<failed>> \in Seq(BusEvents)
  BY <1>1
<1>5. /\ Append(bus, done) = bus \o <<done>>
      /\ bus \o <<done>> \o <<failed>> = bus \o (<<done>> \o <<failed>>)
      /\ bus \o <<>> \o <<failed>> = bus \o <<failed>>
  <2>1. bus \o <<>> = bus
    BY <1>3
  <2>2. Append(bus, done) = bus \o <<done>>
    BY <1>1, <1>3
  <2>3. bus \o <<done>> \o <<failed>> = bus \o (<<done>> \o <<failed>>)
    BY <1>3, <1>4, ConcatAssociative
  <2>4. QED
    BY <2>1, <2>2, <2>3
<1>6. CASE bus' = bus \o <<done>> /\ stored' = [stored EXCEPT ![dialog[m]] = Append(@, m)]
  <2>. DEFINE r == <<done>>
  <2>1. r \in Seq(BusEvents) /\ bus' = bus \o r /\ DOMAIN r = {1} /\ r[1] = done
    BY <1>4, <1>6
  <2>. HIDE DEF r
  <2>2. /\ \A k \in DOMAIN r : r[k].msg = m /\ r[k].kind = "complete"
        /\ \A k, l \in DOMAIN r : ~(k < l)
        /\ \E k \in DOMAIN r : r[k].kind = "complete"
    BY <1>1, <2>1
  <2>3. QED
    BY <1>6, <2>1, <2>2
<1>7. CASE /\ bus' = bus \o (<<done>> \o <<failed>>)
           /\ stored' = [stored EXCEPT ![dialog[m]] = Append(@, m)]
  <2>. DEFINE r == <<done>> \o <<failed>>
  <2>1. /\ r \in Seq(BusEvents) /\ bus' = bus \o r
        /\ DOMAIN r = {1, 2} /\ r[1] = done /\ r[2] = failed
    BY <1>4, <1>7
  <2>. HIDE DEF r
  <2>2. /\ \A k \in DOMAIN r : r[k].msg = m /\ r[k].kind \in {"complete", "error"}
        /\ \A k, l \in DOMAIN r : k < l => k = 1 /\ l = 2
        /\ \E k \in DOMAIN r : r[k].kind = "complete"
    BY <1>1, <2>1
  <2>3. QED
    BY <1>1, <1>7, <2>1, <2>2
<1>8. CASE bus' = bus \o <<failed>> /\ stored' = stored
  <2>. DEFINE r == <<failed>>
  <2>1. r \in Seq(BusEvents) /\ bus' = bus \o r /\ DOMAIN r = {1} /\ r[1] = failed
    BY <1>4, <1>8
  <2>. HIDE DEF r
  <2>2. /\ \A k \in DOMAIN r : r[k].msg = m /\ r[k].kind = "error"
        /\ \A k, l \in DOMAIN r : ~(k < l)
    BY <1>1, <2>1
  <2>3. QED
    BY <1>8, <2>1, <2>2
<1>9. QED
  BY <1>2, <1>3, <1>5, <1>6, <1>7, <1>8

LEMMA EndTurns ==
    ASSUME Types, StoredOnce, TurnsInv, NEW m \in MsgIds, EndStream(m) \/ FailStream(m)
    PROVE  TurnsInv'
<1>0. TurnTypes /\ Sequels /\ Announced /\ Streaming /\ Waiting /\ Placed
  BY DEF Types, TurnsInv
<1>1. /\ pc[m] = "streaming" /\ pc' = [pc EXCEPT ![m] = "over"]
      /\ UNCHANGED <<dialog, display, placeholder>>
  BY DEF EndStream, FailStream, containerVars
<1>2. PICK r \in Seq(BusEvents) :
         /\ bus' = bus \o r
         /\ \A k \in DOMAIN r : r[k].msg = m /\ r[k].kind \in {"complete", "error"}
         /\ \A k, l \in DOMAIN r : k < l => r[k].kind = "complete" /\ r[l].kind = "error"
         /\ \/ /\ stored' = [stored EXCEPT ![dialog[m]] = Append(@, m)]
               /\ \E k \in DOMAIN r : r[k].kind = "complete"
            \/ /\ stored' = stored
               /\ \A k \in DOMAIN r : r[k].kind = "error"
  BY <1>0, TurnEnds
<1>3. \A k, n : Queued(k, n)' <=> Queued(k, n) \/ \E i \in DOMAIN r : r[i].kind = k /\ r[i].msg = n
  BY <1>0, <1>2, QueuedGrows
<1>4. /\ pc'[m] = "over" /\ dialog[m] \in Dialogs
      /\ \A n \in MsgIds \ {m} : pc'[n] = pc[n]
  BY <1>0, <1>1 DEF TurnTypes
<1>5. Runs(m) /\ \A n \in MsgIds : pc[n] = "streaming" /\ dialog[n] = dialog[m] => n = m
  BY <1>0, <1>1 DEF Streaming, Runs
<1>6. Sequels'
  <2>1. ASSUME NEW i \in DOMAIN bus, dialog[bus[i].msg] = dialog[m], NEW k \in DOMAIN r
        PROVE  Sequel(bus[i], r[k])
    <3>1. /\ Queued(bus[i].kind, bus[i].msg) /\ bus[i].msg \in MsgIds
          /\ bus[i].kind \in {"execute", "progress", "complete", "error"}
      BY <1>0, QueuedTypes
    <3>2. bus[i].kind = "progress" /\ bus[i].msg = m
      BY <1>0, <1>1, <2>1, <3>1 DEF Streaming
    <3>3. QED
      BY <1>2, <3>2 DEF Sequel
  <2>2. \A k, l \in DOMAIN r : k < l => Sequel(r[k], r[l])
    BY <1>2 DEF Sequel
  <2>3. \A k \in DOMAIN r : dialog'[r[k].msg] = dialog[m]
    BY <1>1, <1>2
  <2>4. QED
    BY <1>0, <1>1, <1>2, <2>1, <2>2, <2>3, SequelsGrow
\* The history of the dialog may get the answer.
<1>7. ASSUME NEW n \in MsgIds, dialog[n] \in Dialogs
      PROVE  /\ Kept(n) => Kept(n)'
             /\ Kept(n)' /\ n # m => Kept(n)
             /\ Kept(m)' <=> \E k \in DOMAIN r : r[k].kind = "complete"
             /\ Runs(n)' <=> Runs(n)
  <2>1. stored[dialog[n]] \in Seq(MsgIds) /\ stored[dialog[m]] \in Seq(MsgIds)
    BY <1>0, <1>4, <1>7 DEF TurnTypes
  <2>2. ~Kept(m)
    BY <1>1, <1>4 DEF Kept, StoredOnce
  <2>3. CASE stored' = stored /\ \A k \in DOMAIN r : r[k].kind = "error"
    BY <1>1, <2>2, <2>3 DEF Kept, Runs
  <2>4. CASE /\ stored' = [stored EXCEPT ![dialog[m]] = Append(@, m)]
             /\ \E k \in DOMAIN r : r[k].kind = "complete"
    <3>1. stored'[dialog[m]] = Append(stored[dialog[m]], m)
      BY <1>0, <1>4, <2>4 DEF TurnTypes
    <3>2. /\ Len(stored[dialog[m]]) + 1 \in DOMAIN stored'[dialog[m]]
          /\ stored'[dialog[m]][Len(stored[dialog[m]]) + 1] = m
          /\ \A i \in DOMAIN stored[dialog[m]] :
               /\ i \in DOMAIN stored'[dialog[m]]
               /\ stored'[dialog[m]][i] = stored[dialog[m]][i]
          /\ \A i \in DOMAIN stored'[dialog[m]] :
               stored'[dialog[m]][i] = m \/ i \in DOMAIN stored[dialog[m]]
      BY <2>1, <3>1
    <3>3. Kept(m)'
      BY <1>1, <3>2 DEF Kept
    <3>4. (Kept(n) => Kept(n)') /\ (Kept(n)' /\ n # m => Kept(n))
      <4>1. CASE dialog[n] = dialog[m]
        BY <1>1, <3>2, <4>1 DEF Kept
      <4>2. CASE dialog[n] # dialog[m]
        BY <1>0, <1>1, <1>7, <2>4, <4>2 DEF Kept, TurnTypes
      <4>3. QED
        BY <4>1, <4>2
    <3>5. QED
      BY <1>1, <2>4, <3>3, <3>4 DEF Runs
  <2>5. QED
    BY <1>2, <2>3, <2>4
<1>8. \A k, n : Queued(k, n) => n \in MsgIds /\ dialog[n] \in Dialogs
  BY <1>0, QueuedTypes
<1>9. \A n : ~Queued("execute", m) /\ (Queued("execute", n)' => Queued("execute", n))
             /\ (Queued("progress", n)' => Queued("progress", n))
             /\ (n # m /\ Queued("complete", n)' => Queued("complete", n))
             /\ (n # m /\ Queued("error", n)' => Queued("error", n))
  BY <1>0, <1>1, <1>2, <1>3 DEF Announced
<1>10. Announced'
  <2>. SUFFICES ASSUME NEW n \in MsgIds
                PROVE  /\ Queued("execute", n)' => pc'[n] = "queued"
                       /\ Queued("progress", n)' => Runs(n)'
                       /\ Queued("complete", n)' => Runs(n)' /\ Kept(n)' /\ pc'[n] = "over"
                       /\ Queued("error", n)' => pc'[n] = "over"
    BY DEF Announced
  <2>1. CASE n = m
    <3>1. Runs(m)'
      BY <1>4, <1>5, <1>7
    <3>2. Queued("complete", m)' => Kept(m)'
      <4>1. ~Queued("complete", m)
        BY <1>0, <1>1 DEF Announced
      <4>2. QED
        BY <1>3, <1>4, <1>7, <4>1
    <3>3. QED
      BY <1>4, <1>9, <2>1, <3>1, <3>2
  <2>2. CASE n # m
    BY <1>0, <1>4, <1>7, <1>8, <1>9, <2>2 DEF Announced
  <2>3. QED
    BY <2>1, <2>2
<1>11. Streaming'
  <2>1. ASSUME NEW n \in MsgIds, pc'[n] = "streaming"
        PROVE  n # m /\ pc[n] = "streaming" /\ dialog[n] # dialog[m] /\ Runs(n)'
    <3>1. n # m /\ pc[n] = "streaming"
      BY <1>4, <2>1
    <3>2. Runs(n) /\ dialog[n] \in Dialogs
      BY <1>0, <3>1 DEF Streaming, TurnTypes
    <3>3. QED
      BY <1>5, <1>7, <3>1, <3>2
  <2>2. QED
    BY <1>0, <1>1, <1>9, <2>1 DEF Streaming
<1>12. Waiting'
  BY <1>0, <1>1, <1>4 DEF Waiting
<1>13. Placed'
  <2>. SUFFICES ASSUME NEW d \in Dialogs, NEW n \in MsgIds, placeholder[d] = n
                PROVE  /\ dialog[n] = d /\ display[d] = "thinking"
                       /\ pc'[n] \in {"streaming", "over"}
                       /\ pc'[n] = "over" /\ Kept(n)' => Queued("complete", n)'
    BY <1>1 DEF Placed
  <2>1. dialog[n] = d /\ display[d] = "thinking" /\ pc'[n] \in {"streaming", "over"}
    BY <1>0, <1>4 DEF Placed
  <2>2. CASE n = m
    BY <1>2, <1>3, <1>7, <2>1, <2>2
  <2>3. CASE n # m
    BY <1>0, <1>3, <1>4, <1>7, <2>1, <2>3 DEF Placed
  <2>4. QED
    BY <2>1, <2>2, <2>3
<1>14. QED
  BY <1>6, <1>10, <1>11, <1>12, <1>13 DEF TurnsInv

LEMMA BeginTurns ==
    ASSUME Types, TurnsInv, NEW m \in MsgIds, Begin(m)
    PROVE  TurnsInv'
<1>. DEFINE d == dialog[m]
<1>0. TurnTypes /\ ContainerTypes /\ Sequels /\ Announced /\ Streaming /\ Waiting /\ Placed
  BY DEF Types, TurnsInv
<1>1. /\ bus # <<>> /\ bus' = Tail(bus) /\ Head(bus).kind = "execute" /\ Head(bus).msg = m
      /\ pc' = [pc EXCEPT ![m] = "streaming"]
      /\ display' = [display EXCEPT ![d] = "thinking"]
      /\ placeholder' = [placeholder EXCEPT ![d] = m]
      /\ UNCHANGED <<dialog, stored>>
  BY DEF Begin, Consume
<1>2. Queued("execute", m) /\ pc[m] = "queued" /\ d \in Dialogs
  BY <1>0, <1>1, BusTail, QueuedTypes DEF Announced
<1>3. Sequels' /\ \A k, n : Queued(k, n)' => Queued(k, n)
  BY <1>0, <1>1, BusTail
<1>4. \A k, n : Queued(k, n)' => n \in MsgIds /\ dialog[n] \in Dialogs /\ dialog[n] # d
  <2>. SUFFICES ASSUME NEW k, NEW n, Queued(k, n)', dialog[n] = d PROVE FALSE
    BY <1>0, <1>3, QueuedTypes
  <2>1. PICK j \in DOMAIN bus : j # 1 /\ bus[j].kind = k /\ bus[j].msg = n
    BY <1>0, <1>1, BusTail
  <2>2. Sequel(Head(bus), bus[j])
    BY <1>0, <1>1, <2>1, BusTail
  <2>3. QED
    BY <1>1, <2>2 DEF Sequel
<1>5. /\ pc'[m] = "streaming" /\ \A n \in MsgIds \ {m} : pc'[n] = pc[n]
      /\ display'[d] = "thinking" /\ placeholder'[d] = m
      /\ \A e \in Dialogs \ {d} : display'[e] = display[e] /\ placeholder'[e] = placeholder[e]
  BY <1>0, <1>1, <1>2 DEF TurnTypes, ContainerTypes
<1>6. /\ \A n : Kept(n)' <=> Kept(n)
      /\ Runs(m)'
      /\ \A n \in MsgIds : dialog[n] \in Dialogs /\ dialog[n] # d => (Runs(n)' <=> Runs(n))
  BY <1>1, <1>5 DEF Kept, Runs
<1>7. Announced'
  <2>1. \A k : ~Queued(k, m)'
    BY <1>4
  <2>2. QED
    BY <1>0, <1>3, <1>4, <1>5, <1>6, <2>1 DEF Announced
<1>8. Streaming'
  <2>1. ASSUME NEW n \in MsgIds, pc'[n] = "streaming", n # m
        PROVE  pc[n] = "streaming" /\ dialog[n] # d /\ Runs(n)'
    <3>1. pc[n] = "streaming" /\ dialog[n] \in Dialogs
      BY <1>0, <1>5, <2>1 DEF TurnTypes
    <3>2. dialog[n] # d
      BY <1>0, <1>2, <3>1 DEF Streaming
    <3>3. QED
      BY <1>0, <1>6, <3>1, <3>2 DEF Streaming
  <2>2. ASSUME NEW n \in MsgIds, pc'[n] = "streaming"
        PROVE  /\ Runs(n)'
               /\ \A x \in MsgIds : dialog[x] = dialog[n] =>
                    /\ ~Queued("execute", x)' /\ ~Queued("complete", x)' /\ ~Queued("error", x)'
                    /\ Queued("progress", x)' => x = n
    <3>1. CASE n = m
      BY <1>4, <1>6, <3>1
    <3>2. CASE n # m
      <4>1. pc[n] = "streaming" /\ Runs(n)'
        BY <2>1, <2>2, <3>2
      <4>2. QED
        BY <1>0, <1>3, <4>1 DEF Streaming
    <3>3. QED
      BY <3>1, <3>2
  <2>3. QED
    BY <1>1, <2>2 DEF Streaming
<1>9. Waiting'
  <2>1. \A n \in MsgIds : pc'[n] = "queued" =>
          n # m /\ pc[n] = "queued" /\ dialog[n] \in Dialogs /\ dialog[n] # d
    BY <1>0, <1>2, <1>5 DEF Waiting, TurnTypes
  <2>2. QED
    BY <1>0, <1>1, <1>5, <2>1 DEF Waiting
<1>10. Placed'
  <2>. SUFFICES ASSUME NEW e \in Dialogs, NEW n \in MsgIds, placeholder'[e] = n
                PROVE  /\ dialog[n] = e /\ display'[e] = "thinking"
                       /\ pc'[n] \in {"streaming", "over"}
                       /\ pc'[n] = "over" /\ Kept(n)' => Queued("complete", n)'
    BY <1>1 DEF Placed
  <2>1. CASE e = d
    BY <1>5, <2>1
  <2>2. CASE e # d
    <3>1. placeholder[e] = n /\ dialog[n] = e /\ n # m
      BY <1>0, <1>5, <2>2 DEF Placed
    <3>2. Queued("complete", n) => Queued("complete", n)'
      BY <1>0, <1>1, BusTail
    <3>3. QED
      BY <1>0, <1>5, <1>6, <2>2, <3>1, <3>2 DEF Placed
  <2>3. QED
    BY <2>1, <2>2
<1>11. QED
  BY <1>3, <1>7, <1>8, <1>9, <1>10 DEF TurnsInv

LEMMA ProgressTurns ==
    ASSUME Types, TurnsInv, NEW m \in MsgIds, HandleProgress(m)
    PROVE  TurnsInv' /\ Runs(m)
<1>0. TurnTypes /\ Sequels /\ Announced /\ Streaming /\ Waiting /\ Placed
  BY DEF Types, TurnsInv
<1>1. /\ bus # <<>> /\ bus' = Tail(bus) /\ Head(bus).kind = "progress" /\ Head(bus).msg = m
      /\ UNCHANGED <<dialog, pc, stored, display, placeholder>>
  BY DEF HandleProgress, turnVars
<1>2. /\ Sequels' /\ Queued("progress", m)
      /\ \A k, n : Queued(k, n)' => Queued(k, n)
      /\ \A k, n : Queued(k, n) => Queued(k, n)' \/ (Head(bus).kind = k /\ Head(bus).msg = n)
  BY <1>0, <1>1, BusTail
<1>3. \A n : (Runs(n)' <=> Runs(n)) /\ (Kept(n)' <=> Kept(n))
  BY <1>1 DEF Runs, Kept
<1>4. Announced' /\ Streaming' /\ Waiting'
  BY <1>0, <1>1, <1>2, <1>3 DEF Announced, Streaming, Waiting
<1>5. Placed'
  BY <1>0, <1>1, <1>2, <1>3 DEF Placed
<1>6. QED
  BY <1>0, <1>2, <1>4, <1>5 DEF TurnsInv, Announced

\* An answer that completes is the placeholder and is stored; a placeholder that
\* a failure takes away is not.
LEMMA FinishTurns ==
    ASSUME Types, TurnsInv, NEW m \in MsgIds, HandleComplete(m) \/ HandleError(m)
    PROVE  /\ TurnsInv'
           /\ HandleComplete(m) => Runs(m) /\ Kept(m)
           /\ HandleError(m) => \A n \in MsgIds : placeholder[dialog[m]] = n => ~Kept(n)
<1>. DEFINE d == dialog[m]
<1>0. TurnTypes /\ ContainerTypes /\ Sequels /\ Announced /\ Streaming /\ Waiting /\ Placed
  BY DEF Types, TurnsInv
<1>1. /\ bus # <<>> /\ bus' = Tail(bus) /\ Head(bus).msg = m
      /\ placeholder' = [placeholder EXCEPT ![d] = None]
      /\ UNCHANGED <<dialog, pc, stored>>
      /\ \/ /\ HandleComplete(m) /\ Head(bus).kind = "complete"
            /\ display' = [display EXCEPT ![d] = "idle"]
         \/ /\ HandleError(m) /\ Head(bus).kind = "error"
            /\ display' = [display EXCEPT ![d] = "error"]
  BY DEF HandleComplete, HandleError, Consume, turnVars
<1>2. /\ Sequels' /\ Queued(Head(bus).kind, m)
      /\ \A k, n : Queued(k, n)' => Queued(k, n)
      /\ \A k, n : Queued(k, n) => Queued(k, n)' \/ (Head(bus).kind = k /\ m = n)
  BY <1>0, <1>1, BusTail
<1>3. d \in Dialogs /\ pc[m] = "over"
  BY <1>0, <1>1, <1>2, QueuedTypes DEF Announced
<1>4. ASSUME NEW k, NEW n, Queued(k, n)', dialog[n] = d
      PROVE  k \in {"error", "execute"} /\ (Head(bus).kind = "error" => k = "execute")
  <2>1. PICK j \in DOMAIN bus : j # 1 /\ bus[j].kind = k /\ bus[j].msg = n
    BY <1>0, <1>1, <1>4, BusTail
  <2>2. Sequel(Head(bus), bus[j])
    BY <1>0, <1>1, <1>4, <2>1, BusTail
  <2>3. QED
    BY <1>1, <2>1, <2>2 DEF Sequel
<1>5. /\ display'[d] # "thinking" /\ placeholder'[d] = None
      /\ \A e \in Dialogs \ {d} : display'[e] = display[e] /\ placeholder'[e] = placeholder[e]
  BY <1>0, <1>1, <1>3 DEF ContainerTypes
<1>6. /\ \A n : Kept(n)' <=> Kept(n)
      /\ \A n \in MsgIds : dialog[n] \in Dialogs /\ dialog[n] # d => (Runs(n)' <=> Runs(n))
  BY <1>1, <1>5 DEF Kept, Runs
<1>7. \A k, n : Queued(k, n)' => n \in MsgIds /\ dialog[n] \in Dialogs
  BY <1>0, <1>2, QueuedTypes
<1>8. Announced'
  BY <1>0, <1>1, <1>2, <1>4, <1>6, <1>7 DEF Announced
<1>9. Streaming'
  <2>1. ASSUME NEW n \in MsgIds, pc[n] = "streaming" PROVE dialog[n] # d /\ dialog[n] \in Dialogs
    BY <1>0, <1>1, <1>2, <2>1 DEF Streaming, TurnTypes
  <2>2. QED
    BY <1>0, <1>1, <1>2, <1>6, <2>1 DEF Streaming
<1>10. Waiting'
  <2>1. \A n \in MsgIds : pc[n] = "queued" => dialog[n] \in Dialogs
    BY <1>0 DEF TurnTypes
  <2>2. QED
    BY <1>0, <1>1, <1>5, <2>1 DEF Waiting
<1>11. Placed'
  <2>. SUFFICES ASSUME NEW e \in Dialogs, NEW n \in MsgIds, placeholder'[e] = n
                PROVE  /\ dialog[n] = e /\ display'[e] = "thinking"
                       /\ pc[n] \in {"streaming", "over"}
                       /\ pc[n] = "over" /\ Kept(n)' => Queued("complete", n)'
    BY <1>1 DEF Placed
  <2>1. e # d /\ placeholder[e] = n
    BY <1>5, DialogViewAssumption
  <2>2. dialog[n] = e /\ n # m
    BY <1>0, <2>1 DEF Placed
  <2>3. QED
    BY <1>0, <1>2, <1>5, <1>6, <2>1, <2>2 DEF Placed
<1>12. Head(bus).kind = "complete" => Runs(m) /\ Kept(m)
  BY <1>0, <1>2 DEF Announced
<1>13. ASSUME Head(bus).kind = "error"
       PROVE  \A n \in MsgIds : placeholder[d] = n => ~Kept(n)
  <2>. SUFFICES ASSUME NEW n \in MsgIds, placeholder[d] = n PROVE ~Kept(n)
    OBVIOUS
  <2>1. dialog[n] = d /\ pc[n] # "streaming" /\ pc[n] \in {"streaming", "over"}
    BY <1>0, <1>2, <1>3, <1>13 DEF Placed, Streaming
  <2>2. ~Queued("complete", n)
    <3>1. ~Queued("complete", n)'
      BY <1>4, <1>13, <2>1
    <3>2. QED
      BY <1>2, <1>13, <3>1
  <2>3. ~Kept(n)
    BY <1>0, <1>3, <2>1, <2>2 DEF Placed
  <2>4. QED
    BY <2>3
<1>14. /\ HandleComplete(m) => Head(bus).kind = "complete"
       /\ HandleError(m) => Head(bus).kind = "error"
  BY DEF HandleComplete, HandleError, Consume
<1>15. QED
  BY <1>2, <1>8, <1>9, <1>10, <1>11, <1>12, <1>13, <1>14 DEF TurnsInv

LEMMA NextTurns == Types /\ StoredOnce /\ TurnsInv /\ [Next]_vars => TurnsInv'
<1>. SUFFICES ASSUME Types, StoredOnce, TurnsInv, [Next]_vars PROVE TurnsInv'
  OBVIOUS
<1>1. ASSUME NEW d \in Dialogs, NewChat(d) \/ SelectDialog(d) PROVE TurnsInv'
  BY <1>1, ElsewhereTurns DEF NewChat, SelectDialog, turnVars, containerVars
<1>2. ASSUME NEW m \in MsgIds, Turn(m) \/ Handle(m) \/ Post(m) PROVE TurnsInv'
  BY <1>2, PostTurns, ChunkTurns, EndTurns, BeginTurns, ProgressTurns, FinishTurns
     DEF Turn, Handle
<1>3. CASE Serve \/ Send \/ Receive \/ Reconnect \/ Break \/ UNCHANGED vars
  BY <1>3, ElsewhereTurns
     DEF Serve, Send, Receive, Reconnect, Break, vars, turnVars, containerVars
<1>4. QED
  BY <1>1, <1>2, <1>3 DEF Next, User, System
-----------------------------------------------------------------------------
(***************************************************************************)
(* The chunks of an answer.  They are handled in the order the model sent  *)
(* them, each once; whatever is accumulated when a chunk is announced has  *)
(* all chunks before it, so the placeholder lacks none that was broadcast. *)
(***************************************************************************)
Has(text, chunk) == \E j \in DOMAIN text : text[j] = chunk
IsProgress(i, m) == bus[i].kind = "progress" /\ bus[i].msg = m
Unhandled(m) == Len(handled[m]) + 1 .. said[m]

Numbered ==
    /\ handled \in [MsgIds -> Texts]
    /\ \A m \in MsgIds : \A i \in DOMAIN handled[m] : handled[m][i] = <<m, i>>
Unsaid == \A m \in MsgIds : pc[m] \in {"new", "queued"} => said[m] = 0
Announces(m) ==
    /\ Len(handled[m]) <= said[m]
    /\ \A i \in DOMAIN bus : IsProgress(i, m) =>
         \E k \in Unhandled(m) :
            /\ bus[i].delta = <<m, k>>
            /\ \A n \in 1..k : Has(bus[i].accumulated, <<m, n>>)
    /\ \A k \in Unhandled(m) : \E i \in DOMAIN bus : IsProgress(i, m) /\ bus[i].delta = <<m, k>>
    /\ \A i, j \in DOMAIN bus :
         i < j /\ IsProgress(i, m) /\ IsProgress(j, m) => bus[i].delta[2] < bus[j].delta[2]
Announcements == \A m \in MsgIds : Announces(m)
Accumulated == \A m \in MsgIds : \A n \in 1..said[m] : Has(acc[dialog[m]], <<m, n>>)
Partials == \A m \in MsgIds : \A i \in DOMAIN handled[m] : Has(partial[m], <<m, i>>)

ChunksInv == Numbered /\ Unsaid /\ Announcements /\ Accumulated /\ Partials

LEMMA BusConcat ==
    ASSUME bus \in Seq(BusEvents), NEW r \in Seq(BusEvents), bus' = bus \o r
    PROVE  /\ Len(bus) \in Nat
           /\ \A i \in DOMAIN bus : /\ i \in DOMAIN bus' /\ bus'[i] = bus[i]
                                    /\ i \in Nat /\ 1 <= i /\ i <= Len(bus)
           /\ \A k \in DOMAIN r : Len(bus) + k \in DOMAIN bus' /\ bus'[Len(bus) + k] = r[k]
           /\ \A i \in DOMAIN bus' : i \in DOMAIN bus \/ \E k \in DOMAIN r : i = Len(bus) + k
  BY ConcatEvents, SMTT(30)

LEMMA HasAppend ==
    ASSUME NEW S, NEW t \in Seq(S), NEW c \in S
    PROVE  \A x : Has(Append(t, c), x) <=> Has(t, x) \/ x = c
<1>1. /\ \A i \in DOMAIN t : i \in DOMAIN Append(t, c) /\ Append(t, c)[i] = t[i]
      /\ Len(t) + 1 \in DOMAIN Append(t, c) /\ Append(t, c)[Len(t) + 1] = c
      /\ \A i \in DOMAIN Append(t, c) : i \in DOMAIN t \/ Append(t, c)[i] = c
  OBVIOUS
<1>2. QED
  BY <1>1 DEF Has

LEMMA InitChunks == Init => ChunksInv
  BY DEF Init, ChunksInv, Numbered, Unsaid, Announcements, Announces, Accumulated, Partials,
         Texts, Unhandled

\* The events of a message that announce chunks stay as they are.
LEMMA OtherAnnouncements ==
    ASSUME Types, ChunksInv, NEW m \in MsgIds, said'[m] = said[m], handled'[m] = handled[m],
           \/ \E r \in Seq(BusEvents) :
                bus' = bus \o r /\ \A i \in DOMAIN r : r[i].kind # "progress" \/ r[i].msg # m
           \/ bus # <<>> /\ bus' = Tail(bus) /\ (Head(bus).kind # "progress" \/ Head(bus).msg # m)
    PROVE  Announces(m)'
<1>1. Announces(m) /\ bus \in Seq(BusEvents) /\ Unhandled(m)' = Unhandled(m)
  BY DEF Types, TurnTypes, ChunksInv, Announcements, Unhandled
<1>2. CASE \E r \in Seq(BusEvents) :
             bus' = bus \o r /\ \A i \in DOMAIN r : r[i].kind # "progress" \/ r[i].msg # m
  <2>1. PICK r \in Seq(BusEvents) :
          bus' = bus \o r /\ \A i \in DOMAIN r : r[i].kind # "progress" \/ r[i].msg # m
    BY <1>2
  <2>2. /\ \A i \in DOMAIN bus : i \in DOMAIN bus' /\ bus'[i] = bus[i]
        /\ \A i \in DOMAIN bus' : i \in DOMAIN bus \/ \E k \in DOMAIN r : bus'[i] = r[k]
    <3>1. /\ \A i \in DOMAIN bus : i \in DOMAIN bus' /\ bus'[i] = bus[i]
          /\ \A k \in DOMAIN r : bus'[Len(bus) + k] = r[k]
          /\ \A i \in DOMAIN bus' : i \in DOMAIN bus \/ \E k \in DOMAIN r : i = Len(bus) + k
      BY <1>1, <2>1, BusConcat
    <3>2. QED
      BY <3>1
  <2>3. /\ \A i \in DOMAIN bus : i \in DOMAIN bus' /\ bus'[i] = bus[i]
        /\ \A i \in DOMAIN bus' : IsProgress(i, m)' => i \in DOMAIN bus /\ IsProgress(i, m)
        /\ \A i \in DOMAIN bus : IsProgress(i, m) => IsProgress(i, m)'
    BY <2>1, <2>2 DEF IsProgress
  <2>4. QED
    BY <1>1, <2>3 DEF Announces
<1>3. CASE bus # <<>> /\ bus' = Tail(bus) /\ (Head(bus).kind # "progress" \/ Head(bus).msg # m)
  <2>1. /\ Head(bus) = bus[1]
        /\ \A i \in DOMAIN bus' : i + 1 \in DOMAIN bus /\ bus'[i] = bus[i + 1] /\ i \in Nat
        /\ \A i \in DOMAIN bus : \/ i = 1
                                 \/ i - 1 \in DOMAIN bus' /\ bus'[i - 1] = bus[i] /\ i \in Nat
    BY <1>1, <1>3, TailEvents
  <2>2. /\ \A i \in DOMAIN bus' : IsProgress(i, m)' => IsProgress(i + 1, m)
        /\ \A i \in DOMAIN bus : IsProgress(i, m) =>
              i - 1 \in DOMAIN bus' /\ bus'[i - 1] = bus[i] /\ IsProgress(i - 1, m)'
    BY <1>3, <2>1 DEF IsProgress
  <2>3. \A i, j \in DOMAIN bus' : i < j => i + 1 < j + 1
    BY <2>1
  <2>4. \A i \in DOMAIN bus' : IsProgress(i, m)' =>
           \E k \in Unhandled(m)' :
              /\ bus'[i].delta = <<m, k>>
              /\ \A n \in 1..k : Has(bus'[i].accumulated, <<m, n>>)
    <3>. SUFFICES ASSUME NEW i \in DOMAIN bus', IsProgress(i, m)'
                  PROVE  \E k \in Unhandled(m) :
                            /\ bus'[i].delta = <<m, k>>
                            /\ \A n \in 1..k : Has(bus'[i].accumulated, <<m, n>>)
      BY <1>1
    <3>1. i + 1 \in DOMAIN bus /\ bus'[i] = bus[i + 1] /\ IsProgress(i + 1, m)
      BY <2>1, <2>2
    <3>2. QED
      BY <1>1, <3>1 DEF Announces
  <2>5. \A k \in Unhandled(m)' :
          \E i \in DOMAIN bus' : IsProgress(i, m)' /\ bus'[i].delta = <<m, k>>
    BY <1>1, <2>2 DEF Announces
  <2>6. \A i, j \in DOMAIN bus' :
          i < j /\ IsProgress(i, m)' /\ IsProgress(j, m)' => bus'[i].delta[2] < bus'[j].delta[2]
    BY <1>1, <2>1, <2>2, <2>3 DEF Announces
  <2>7. QED
    BY <1>1, <2>4, <2>5, <2>6 DEF Announces
<1>4. QED
  BY <1>2, <1>3

\* Steps that handle no chunk and send none.
LEMMA OtherChunks ==
    ASSUME Types, ChunksInv, UNCHANGED <<said, handled, acc, partial>>,
           \A m \in MsgIds : pc'[m] \in {"new", "queued"} => pc[m] \in {"new", "queued"},
           \A m \in MsgIds : dialog'[m] = dialog[m] \/ said[m] = 0,
           \/ \E r \in Seq(BusEvents) :
                bus' = bus \o r /\ \A i \in DOMAIN r : r[i].kind # "progress"
           \/ bus # <<>> /\ bus' = Tail(bus) /\ Head(bus).kind # "progress"
    PROVE  ChunksInv'
<1>1. Numbered' /\ Unsaid' /\ Partials'
  BY DEF ChunksInv, Numbered, Unsaid, Partials
<1>2. Accumulated'
  <2>1. ASSUME NEW m \in MsgIds, NEW n \in 1..said[m] PROVE dialog'[m] = dialog[m]
    <3>1. said[m] # 0
      BY <2>1
    <3>2. QED
      BY <3>1
  <2>2. QED
    BY <2>1 DEF ChunksInv, Accumulated
<1>3. ASSUME NEW m \in MsgIds
      PROVE  \/ \E r \in Seq(BusEvents) :
                  bus' = bus \o r /\ \A i \in DOMAIN r : r[i].kind # "progress" \/ r[i].msg # m
             \/ /\ bus # <<>> /\ bus' = Tail(bus)
                /\ Head(bus).kind # "progress" \/ Head(bus).msg # m
  OBVIOUS
<1>4. Announcements'
  BY <1>3, OtherAnnouncements DEF Announcements
<1>5. QED
  BY <1>1, <1>2, <1>4 DEF ChunksInv

\* Whatever is at the head, a chunk is handled right after the one before it.
LEMMA NextDelta ==
    ASSUME Types, ChunksInv, NEW m \in MsgIds, HandleProgress(m)
    PROVE  /\ Head(bus).delta = <<m, Len(handled[m]) + 1>>
           /\ Len(handled[m]) \in Nat /\ Len(handled[m]) + 1 <= said[m] /\ said[m] \in Nat
           /\ \A n \in 1 .. Len(handled[m]) + 1 : Has(Head(bus).accumulated, <<m, n>>)
<1>1. /\ bus # <<>> /\ Head(bus).kind = "progress" /\ Head(bus).msg = m
      /\ bus \in Seq(BusEvents) /\ Announces(m) /\ Len(handled[m]) \in Nat /\ said[m] \in Nat
  BY DEF HandleProgress, Types, TurnTypes, ChunksInv, Numbered, Announcements, Texts
<1>2. 1 \in DOMAIN bus /\ Head(bus) = bus[1] /\ IsProgress(1, m)
      /\ \A i \in DOMAIN bus : i = 1 \/ 1 < i
  BY <1>1 DEF IsProgress
<1>3. PICK k \in Unhandled(m) :
        bus[1].delta = <<m, k>> /\ \A n \in 1..k : Has(bus[1].accumulated, <<m, n>>)
  BY <1>1, <1>2 DEF Announces
<1>4. k \in Int /\ Len(handled[m]) + 1 <= k /\ k <= said[m]
  BY <1>1, <1>3 DEF Unhandled
<1>5. Len(handled[m]) + 1 \in Unhandled(m)
  BY <1>1, <1>4 DEF Unhandled
<1>6. PICK i \in DOMAIN bus : IsProgress(i, m) /\ bus[i].delta = <<m, Len(handled[m]) + 1>>
  BY <1>1, <1>5 DEF Announces
<1>7. i = 1
  <2>1. 1 < i => k < Len(handled[m]) + 1
    BY <1>1, <1>2, <1>3, <1>6 DEF Announces
  <2>2. QED
    BY <1>1, <1>2, <1>4, <2>1
<1>8. k = Len(handled[m]) + 1
  BY <1>3, <1>6, <1>7
<1>9. QED
  BY <1>1, <1>2, <1>3, <1>4, <1>8

LEMMA ChunkChunks ==
    ASSUME Types, ChunksInv, NEW m \in MsgIds, Chunk(m)
    PROVE  ChunksInv'
<1>. DEFINE d == dialog[m]
            next == said[m] + 1
            event == [kind |-> "progress", msg |-> m, delta |-> <<m, next>>,
                      accumulated |-> acc'[d]]
<1>0. /\ TurnTypes /\ ContainerTypes
      /\ Numbered /\ Unsaid /\ Announces(m) /\ Accumulated /\ Partials
  BY DEF Types, ChunksInv, Announcements
<1>1. /\ pc[m] = "streaming" /\ d \in Dialogs /\ said[m] \in Nat /\ bus \in Seq(BusEvents)
      /\ said' = [said EXCEPT ![m] = next]
      /\ acc' = [acc EXCEPT ![d] = Append(@, <<m, next>>)]
      /\ bus' = Append(bus, event)
      /\ UNCHANGED <<dialog, pc, partial, handled>>
  BY <1>0 DEF Chunk, TurnTypes
<1>2. /\ <<m, next>> \in Chunks /\ acc[d] \in Seq(Chunks)
      /\ acc'[d] = Append(acc[d], <<m, next>>) /\ acc'[d] \in Texts
      /\ \A e \in Dialogs \ {d} : acc'[e] = acc[e]
  <2>1. <<m, next>> \in Chunks
    BY <1>1 DEF Chunks
  <2>2. acc \in [Dialogs -> Seq(Chunks)]
    BY <1>0 DEF ContainerTypes, Texts
  <2>3. Append(acc[d], <<m, next>>) \in Seq(Chunks)
    BY <1>1, <2>1, <2>2
  <2>4. QED
    BY <1>1, <2>1, <2>2, <2>3 DEF Texts
<1>3. \A x : Has(acc'[d], x) <=> Has(acc[d], x) \/ x = <<m, next>>
  BY <1>2, HasAppend
<1>4. said'[m] = next /\ \A n \in MsgIds \ {m} : said'[n] = said[n]
  BY <1>0, <1>1 DEF TurnTypes
<1>5. \A n \in 1..next : Has(acc'[d], <<m, n>>)
  <2>1. \A n \in 1..next : n = next \/ n \in 1..said[m]
    BY <1>1
  <2>2. QED
    BY <1>0, <1>3, <2>1 DEF Accumulated
<1>6. /\ event \in BusEvents /\ event.kind = "progress" /\ event.msg = m
      /\ event.delta = <<m, next>> /\ event.accumulated = acc'[d]
  BY <1>2 DEF BusEvents
<1>. HIDE DEF event
<1>7. Numbered' /\ Unsaid' /\ Partials'
  BY <1>0, <1>1, <1>4 DEF Numbered, Unsaid, Partials
<1>8. Accumulated'
  <2>. SUFFICES ASSUME NEW x \in MsgIds, NEW n \in 1..said'[x]
                PROVE  Has(acc'[dialog[x]], <<x, n>>)
    BY <1>1 DEF Accumulated
  <2>1. CASE x = m
    BY <1>4, <1>5, <2>1
  <2>2. CASE x # m
    <3>1. Has(acc[dialog[x]], <<x, n>>)
      BY <1>0, <1>4, <2>2 DEF Accumulated
    <3>2. dialog[x] \in Dialogs
      <4>1. said[x] # 0
        BY <1>0, <1>4, <2>2 DEF TurnTypes
      <4>2. QED
        BY <1>0, <4>1 DEF Unsaid, TurnTypes
    <3>3. QED
      BY <1>2, <1>3, <3>1, <3>2
  <2>3. QED
    BY <2>1, <2>2
<1>9. PICK r \in Seq(BusEvents) : bus' = bus \o r /\ DOMAIN r = {1} /\ r[1] = event
  BY <1>0, <1>1, <1>6, BusOne
<1>10. PICK last \in Nat :
          /\ \A i \in DOMAIN bus : i \in DOMAIN bus' /\ bus'[i] = bus[i] /\ i \in Nat /\ i < last
          /\ last \in DOMAIN bus' /\ bus'[last] = event
          /\ \A i \in DOMAIN bus' : i \in DOMAIN bus \/ i = last
  <2>1. /\ Len(bus) \in Nat
        /\ \A i \in DOMAIN bus : i \in DOMAIN bus' /\ bus'[i] = bus[i] /\ i \in Nat /\ i <= Len(bus)
        /\ \A k \in DOMAIN r : Len(bus) + k \in DOMAIN bus' /\ bus'[Len(bus) + k] = r[k]
        /\ \A i \in DOMAIN bus' : i \in DOMAIN bus \/ \E k \in DOMAIN r : i = Len(bus) + k
    BY <1>1, <1>9, BusConcat
  <2>2. /\ Len(bus) + 1 \in Nat /\ \A i \in DOMAIN bus : i < Len(bus) + 1
        /\ Len(bus) + 1 \in DOMAIN bus' /\ bus'[Len(bus) + 1] = event
        /\ \A i \in DOMAIN bus' : i \in DOMAIN bus \/ i = Len(bus) + 1
    BY <1>9, <2>1
  <2>3. QED
    BY <2>1, <2>2
<1>11. /\ \A k \in Unhandled(m)' : k = next \/ k \in Unhandled(m)
       /\ Unhandled(m) \subseteq Unhandled(m)' /\ next \in Unhandled(m)'
       /\ Len(handled[m]) <= next /\ \A k \in Unhandled(m) : k < next
  <2>1. Len(handled[m]) \in Nat /\ Len(handled[m]) <= said[m]
    BY <1>0 DEF Numbered, Texts, Announces
  <2>2. QED
    BY <1>1, <1>4, <2>1 DEF Unhandled
<1>12. /\ \A i \in DOMAIN bus : IsProgress(i, m)' <=> IsProgress(i, m)
       /\ IsProgress(last, m)'
  <2>1. \A i \in DOMAIN bus : IsProgress(i, m)' <=> IsProgress(i, m)
    BY <1>10 DEF IsProgress
  <2>2. bus'[last].kind = "progress" /\ bus'[last].msg = m
    BY <1>6, <1>10
  <2>3. QED
    BY <2>1, <2>2 DEF IsProgress
<1>13. Announcements'
  <2>. SUFFICES ASSUME NEW x \in MsgIds PROVE Announces(x)'
    BY DEF Announcements
  <2>1. CASE x # m
    <3>1. \E q \in Seq(BusEvents) :
             bus' = bus \o q /\ \A i \in DOMAIN q : q[i].kind # "progress" \/ q[i].msg # x
      BY <1>6, <1>9, <2>1
    <3>2. QED
      BY <1>1, <1>4, <2>1, <3>1, OtherAnnouncements
  <2>2. CASE x = m
    <3>1. Len(handled'[m]) <= said'[m]
      BY <1>1, <1>4, <1>11
    <3>2. ASSUME NEW i \in DOMAIN bus', IsProgress(i, m)'
          PROVE  \E k \in Unhandled(m)' :
                    /\ bus'[i].delta = <<m, k>>
                    /\ \A n \in 1..k : Has(bus'[i].accumulated, <<m, n>>)
      <4>1. CASE i \in DOMAIN bus
        BY <1>0, <1>10, <1>11, <1>12, <3>2, <4>1 DEF Announces
      <4>2. CASE i = last
        BY <1>5, <1>6, <1>10, <1>11, <4>2
      <4>3. QED
        BY <1>10, <4>1, <4>2
    <3>3. ASSUME NEW k \in Unhandled(m)'
          PROVE  \E i \in DOMAIN bus' : IsProgress(i, m)' /\ bus'[i].delta = <<m, k>>
      <4>1. CASE k = next
        BY <1>6, <1>10, <1>12, <4>1
      <4>2. CASE k \in Unhandled(m)
        BY <1>0, <1>10, <1>12, <4>2 DEF Announces
      <4>3. QED
        BY <1>11, <4>1, <4>2
    <3>4. ASSUME NEW i \in DOMAIN bus', NEW j \in DOMAIN bus', i < j,
                 IsProgress(i, m)', IsProgress(j, m)'
          PROVE  bus'[i].delta[2] < bus'[j].delta[2]
      <4>1. i \in DOMAIN bus
        BY <1>10, <3>4
      <4>2. CASE j \in DOMAIN bus
        BY <1>0, <1>10, <1>12, <3>4, <4>1, <4>2 DEF Announces
      <4>3. CASE j = last
        <5>1. PICK k \in Unhandled(m) : bus[i].delta = <<m, k>>
          BY <1>0, <1>12, <3>4, <4>1 DEF Announces
        <5>2. k < next
          BY <1>11
        <5>3. QED
          BY <1>6, <1>10, <4>1, <4>3, <5>1, <5>2
      <4>4. QED
        BY <1>10, <4>2, <4>3
    <3>5. QED
      BY <2>2, <3>1, <3>2, <3>3, <3>4 DEF Announces
  <2>3. QED
    BY <2>1, <2>2
<1>14. QED
  BY <1>7, <1>8, <1>13 DEF ChunksInv

LEMMA ProgressChunks ==
    ASSUME Types, ChunksInv, NEW m \in MsgIds, HandleProgress(m), Runs(m)
    PROVE  ChunksInv'
<1>. DEFINE d == dialog[m]
            event == Head(bus)
            next == Len(handled[m]) + 1
<1>0. /\ TurnTypes /\ ContainerTypes
      /\ Numbered /\ Unsaid /\ Announces(m) /\ Accumulated /\ Partials
  BY DEF Types, ChunksInv, Announcements
<1>1. /\ bus # <<>> /\ bus' = Tail(bus) /\ event.kind = "progress" /\ event.msg = m
      /\ acc' = [acc EXCEPT ![d] = Append(@, event.delta)]
      /\ partial' = [partial EXCEPT ![m] = event.accumulated]
      /\ handled' = [handled EXCEPT ![m] = Append(@, event.delta)]
      /\ UNCHANGED <<dialog, pc, said>>
  BY DialogViewAssumption DEF HandleProgress, turnVars, Runs
<1>2. /\ event.delta = <<m, next>> /\ Len(handled[m]) \in Nat /\ next <= said[m] /\ said[m] \in Nat
      /\ \A n \in 1..next : Has(event.accumulated, <<m, n>>)
  BY NextDelta
<1>3. /\ bus \in Seq(BusEvents) /\ event \in BusEvents /\ d \in Dialogs
      /\ event.delta \in Chunks /\ event.accumulated \in Texts
  BY <1>0, <1>1, TakenTypes DEF TurnTypes, BusEvents
<1>. HIDE DEF event
<1>4. /\ handled[m] \in Seq(Chunks) /\ handled'[m] = Append(handled[m], event.delta)
      /\ \A n \in MsgIds \ {m} : handled'[n] = handled[n]
      /\ handled' \in [MsgIds -> Texts]
  BY <1>0, <1>1, <1>3 DEF Numbered, Texts
<1>5. /\ Len(handled'[m]) = next /\ DOMAIN handled'[m] = 1..next
      /\ DOMAIN handled[m] = 1..Len(handled[m])
      /\ \A i \in 1..next : handled'[m][i] = IF i = next THEN event.delta ELSE handled[m][i]
  BY <1>2, <1>3, <1>4
<1>6. Numbered'
  <2>1. \A i \in DOMAIN handled'[m] : handled'[m][i] = <<m, i>>
    <3>1. \A i \in 1..next : i = next \/ i \in DOMAIN handled[m]
      BY <1>2, <1>5
    <3>2. QED
      BY <1>0, <1>2, <1>5, <3>1 DEF Numbered
  <2>2. QED
    BY <1>0, <1>4, <2>1 DEF Numbered
<1>7. Unsaid'
  BY <1>0, <1>1 DEF Unsaid
<1>8. Accumulated'
  <2>1. acc[d] \in Seq(Chunks)
    BY <1>0, <1>3 DEF ContainerTypes, Texts
  <2>2. \A e \in Dialogs : acc'[e] = IF e = d THEN Append(acc[d], event.delta) ELSE acc[e]
    BY <1>0, <1>1, <1>3 DEF ContainerTypes
  <2>3. \A e \in Dialogs : \A x : Has(acc[e], x) => Has(acc'[e], x)
    BY <1>3, <2>1, <2>2, HasAppend
  <2>4. \A x \in MsgIds : said[x] # 0 => dialog[x] \in Dialogs
    BY <1>0 DEF Unsaid, TurnTypes
  <2>5. \A x \in MsgIds : \A n \in 1..said[x] : said[x] # 0
    BY <1>0 DEF TurnTypes
  <2>6. QED
    BY <1>0, <1>1, <2>3, <2>4, <2>5 DEF Accumulated
<1>9. Partials'
  <2>1. partial'[m] = event.accumulated /\ \A n \in MsgIds \ {m} : partial'[n] = partial[n]
    BY <1>0, <1>1 DEF ContainerTypes
  <2>2. QED
    BY <1>0, <1>2, <1>4, <1>5, <2>1 DEF Partials
<1>10. /\ event = bus[1] /\ IsProgress(1, m) /\ 1 \in DOMAIN bus
       /\ \A i \in DOMAIN bus' : i + 1 \in DOMAIN bus /\ bus'[i] = bus[i + 1] /\ i \in Nat /\ i > 0
       /\ \A i \in DOMAIN bus : \/ i = 1
                                \/ i - 1 \in DOMAIN bus' /\ bus'[i - 1] = bus[i] /\ i \in Nat
  <2>1. /\ 1 \in DOMAIN bus /\ Head(bus) = bus[1]
        /\ \A i \in DOMAIN bus' : i + 1 \in DOMAIN bus /\ bus'[i] = bus[i + 1] /\ i \in Nat /\ i > 0
        /\ \A i \in DOMAIN bus : \/ i = 1
                                 \/ i - 1 \in DOMAIN bus' /\ bus'[i - 1] = bus[i] /\ i \in Nat
    BY <1>1, <1>3, TailEvents
  <2>2. event = bus[1]
    BY <2>1 DEF event
  <2>3. QED
    BY <1>1, <2>1, <2>2 DEF IsProgress
<1>11. /\ \A i \in DOMAIN bus' : IsProgress(i, m)' => IsProgress(i + 1, m) /\ 1 < i + 1
       /\ \A i \in DOMAIN bus : i # 1 /\ IsProgress(i, m) =>
             i - 1 \in DOMAIN bus' /\ bus'[i - 1] = bus[i] /\ IsProgress(i - 1, m)'
       /\ \A i, j \in DOMAIN bus' : i < j => i + 1 < j + 1
  BY <1>10 DEF IsProgress
<1>12. /\ \A k \in Unhandled(m) : next < k => k \in Unhandled(m)'
       /\ \A k \in Unhandled(m)' : k \in Unhandled(m) /\ k # next
  BY <1>1, <1>2, <1>5 DEF Unhandled
<1>13. Announcements'
  <2>. SUFFICES ASSUME NEW x \in MsgIds PROVE Announces(x)'
    BY DEF Announcements
  <2>1. CASE x # m
    <3>1. Head(bus).msg # x
      BY <1>1, <2>1 DEF event
    <3>2. QED
      BY <1>1, <1>4, <2>1, <3>1, OtherAnnouncements
  <2>2. CASE x = m
    <3>1. Len(handled'[m]) <= said'[m]
      BY <1>1, <1>2, <1>5
    <3>2. ASSUME NEW i \in DOMAIN bus', IsProgress(i, m)'
          PROVE  \E k \in Unhandled(m)' :
                    /\ bus'[i].delta = <<m, k>>
                    /\ \A n \in 1..k : Has(bus'[i].accumulated, <<m, n>>)
      <4>1. IsProgress(i + 1, m) /\ i + 1 \in DOMAIN bus /\ bus'[i] = bus[i + 1] /\ 1 < i + 1
        BY <1>10, <1>11, <3>2
      <4>2. PICK k \in Unhandled(m) :
              bus[i + 1].delta = <<m, k>> /\ \A n \in 1..k : Has(bus[i + 1].accumulated, <<m, n>>)
        BY <1>0, <4>1 DEF Announces
      <4>3. next < k
        <5>1. bus[1].delta[2] < bus[i + 1].delta[2]
          BY <1>0, <1>10, <4>1 DEF Announces
        <5>2. QED
          BY <1>2, <1>10, <4>2, <5>1
      <4>4. QED
        BY <1>12, <4>1, <4>2, <4>3
    <3>3. ASSUME NEW k \in Unhandled(m)'
          PROVE  \E i \in DOMAIN bus' : IsProgress(i, m)' /\ bus'[i].delta = <<m, k>>
      <4>1. k \in Unhandled(m) /\ k # next
        BY <1>12, <3>3
      <4>2. PICK i \in DOMAIN bus : IsProgress(i, m) /\ bus[i].delta = <<m, k>>
        BY <1>0, <4>1 DEF Announces
      <4>3. i # 1
        BY <1>2, <1>10, <4>1, <4>2
      <4>4. QED
        BY <1>11, <4>2, <4>3
    <3>4. ASSUME NEW i \in DOMAIN bus', NEW j \in DOMAIN bus', i < j,
                 IsProgress(i, m)', IsProgress(j, m)'
          PROVE  bus'[i].delta[2] < bus'[j].delta[2]
      <4>1. /\ IsProgress(i + 1, m) /\ IsProgress(j + 1, m) /\ i + 1 < j + 1
            /\ i + 1 \in DOMAIN bus /\ bus'[i] = bus[i + 1]
            /\ j + 1 \in DOMAIN bus /\ bus'[j] = bus[j + 1]
        BY <1>10, <1>11, <3>4
      <4>2. QED
        BY <1>0, <4>1 DEF Announces
    <3>5. QED
      BY <2>2, <3>1, <3>2, <3>3, <3>4 DEF Announces
  <2>3. QED
    BY <2>1, <2>2
<1>14. QED
  BY <1>6, <1>7, <1>8, <1>9, <1>13 DEF ChunksInv

LEMMA NextChunks == Types /\ TurnsInv /\ ChunksInv /\ [Next]_vars => ChunksInv'
<1>. SUFFICES ASSUME Types, TurnsInv, ChunksInv, [Next]_vars PROVE ChunksInv'
  OBVIOUS
<1>0. TurnTypes /\ bus \in Seq(BusEvents)
  BY DEF Types, TurnTypes
<1>1. ASSUME UNCHANGED <<bus, dialog, pc, said, acc, partial, handled>> PROVE ChunksInv'
  <2>1. <<>> \in Seq(BusEvents) /\ bus = bus \o <<>> /\ DOMAIN <<>> = {}
    BY <1>0
  <2>2. \E r \in Seq(BusEvents) : bus' = bus \o r /\ \A i \in DOMAIN r : r[i].kind # "progress"
    <3>1. PICK r \in Seq(BusEvents) : bus' = bus \o r /\ DOMAIN r = {}
      BY <1>1, <2>1
    <3>2. QED
      BY <3>1
  <2>3. QED
    BY <1>1, <2>2, OtherChunks
<1>2. ASSUME NEW d \in Dialogs, NewChat(d) \/ SelectDialog(d) PROVE ChunksInv'
  BY <1>1, <1>2 DEF NewChat, SelectDialog, turnVars, containerVars
<1>3. ASSUME NEW m \in MsgIds, Post(m) PROVE ChunksInv'
  <2>. DEFINE event == [kind |-> "execute", msg |-> m]
  <2>1. /\ pc[m] = "new" /\ dialog' = [dialog EXCEPT ![m] = active]
        /\ pc' = [pc EXCEPT ![m] = "queued"] /\ bus' = Append(bus, event)
        /\ UNCHANGED <<said, acc, partial, handled>>
    BY <1>3 DEF Post, containerVars
  <2>2. event \in BusEvents /\ event.kind = "execute"
    BY DEF BusEvents
  <2>. HIDE DEF event
  <2>3. PICK r \in Seq(BusEvents) : bus' = bus \o r /\ DOMAIN r = {1} /\ r[1] = event
    BY <1>0, <2>1, <2>2, BusOne
  <2>4. \E q \in Seq(BusEvents) : bus' = bus \o q /\ \A i \in DOMAIN q : q[i].kind # "progress"
    BY <2>2, <2>3
  <2>5. /\ \A n \in MsgIds : pc'[n] \in {"new", "queued"} => pc[n] \in {"new", "queued"}
        /\ \A n \in MsgIds : dialog'[n] = dialog[n] \/ said[n] = 0
    BY <1>0, <2>1 DEF TurnTypes, ChunksInv, Unsaid
  <2>6. QED
    BY <2>1, <2>4, <2>5, OtherChunks
<1>4. ASSUME NEW m \in MsgIds, EndStream(m) \/ FailStream(m) PROVE ChunksInv'
  <2>1. /\ pc[m] = "streaming" /\ pc' = [pc EXCEPT ![m] = "over"]
        /\ UNCHANGED <<dialog, said, acc, partial, handled>>
    BY <1>4 DEF EndStream, FailStream, containerVars
  <2>2. PICK r \in Seq(BusEvents) :
           /\ bus' = bus \o r
           /\ \A k \in DOMAIN r : r[k].msg = m /\ r[k].kind \in {"complete", "error"}
    <3>1. \E r \in Seq(BusEvents) :
             /\ bus' = bus \o r
             /\ \A k \in DOMAIN r : r[k].msg = m /\ r[k].kind \in {"complete", "error"}
             /\ \A k, l \in DOMAIN r : k < l => r[k].kind = "complete" /\ r[l].kind = "error"
             /\ \/ /\ stored' = [stored EXCEPT ![dialog[m]] = Append(@, m)]
                   /\ \E k \in DOMAIN r : r[k].kind = "complete"
                \/ /\ stored' = stored
                   /\ \A k \in DOMAIN r : r[k].kind = "error"
      BY <1>0, <1>4, TurnEnds
    <3>2. QED
      BY <3>1
  <2>3. \E q \in Seq(BusEvents) : bus' = bus \o q /\ \A i \in DOMAIN q : q[i].kind # "progress"
    BY <2>2
  <2>4. \A n \in MsgIds : pc'[n] \in {"new", "queued"} => pc[n] \in {"new", "queued"}
    BY <1>0, <2>1 DEF TurnTypes
  <2>5. QED
    BY <2>1, <2>3, <2>4, OtherChunks
<1>5. ASSUME NEW m \in MsgIds, Begin(m) PROVE ChunksInv'
  <2>1. /\ bus # <<>> /\ bus' = Tail(bus) /\ Head(bus).kind # "progress"
        /\ pc' = [pc EXCEPT ![m] = "streaming"]
        /\ UNCHANGED <<dialog, said, acc, partial, handled>>
    BY <1>5 DEF Begin, Consume
  <2>2. \A n \in MsgIds : pc'[n] \in {"new", "queued"} => pc[n] \in {"new", "queued"}
    BY <1>0, <2>1 DEF TurnTypes
  <2>3. QED
    BY <2>1, <2>2, OtherChunks
<1>6. ASSUME NEW m \in MsgIds, HandleComplete(m) \/ HandleError(m) PROVE ChunksInv'
  <2>1. /\ bus # <<>> /\ bus' = Tail(bus) /\ Head(bus).kind # "progress"
        /\ UNCHANGED <<dialog, pc, said, acc, partial, handled>>
    BY <1>6 DEF HandleComplete, HandleError, Consume, turnVars
  <2>2. QED
    BY <2>1, OtherChunks
<1>7. ASSUME NEW m \in MsgIds, HandleProgress(m) PROVE ChunksInv'
  BY <1>7, ProgressTurns, ProgressChunks
<1>8. CASE Serve \/ Send \/ Receive \/ Reconnect \/ Break \/ UNCHANGED vars
  BY <1>1, <1>8
     DEF Serve, Send, Receive, Reconnect, Break, vars, turnVars, containerVars
<1>9. QED
  BY <1>2, <1>3, <1>4, <1>5, <1>6, <1>7, <1>8, ChunkChunks
     DEF Next, User, System, Turn, Handle
-----------------------------------------------------------------------------
(***************************************************************************)
(* The way of the events.  Place 0 is the screen, the others are the places*)
(* of the events on their way, the next to arrive first.  A step of the    *)
(* system adds events at the end, moves one from the buffer to the socket, *)
(* or takes the first one away; whatever holds of all snapshots that are   *)
(* held somewhere holds of the screen.                                     *)
(***************************************************************************)
Places == 0..Len(Coming)
View(k) == IF k = 0 THEN snapshot ELSE Coming[k]
Held(k) ==
    IF k = 0 THEN snapshot # None /\ ~missed
    ELSE k \in DOMAIN Coming /\ Coming[k].type = "snapshot"
Runner(k) == IF k > Len(wire) THEN Coming[k].stream ELSE Answer(View(k).stream)

IsSnapshot(j, d) == Coming[j].type = "snapshot" /\ Coming[j].id = d
IsDelta(j, m) == Coming[j].type = "delta" /\ Coming[j].msg = m
IsFlush(j, d) ==
    /\ Coming[j].type = "status" /\ Coming[j].id = d
    /\ Coming[j].to \in {"completed", "idle"}

\* No later snapshot of d, and a completion of d, on the way behind place k.
Fresh(k, d) == \A j \in DOMAIN Coming : j > k => ~IsSnapshot(j, d)
Flushed(k, d) == \E j \in DOMAIN Coming : j > k /\ IsFlush(j, d)

LEMMA EventKinds ==
    ASSUME NEW e \in Shipped \cup Buffered
    PROVE  /\ e.id \in Dialogs /\ e.type \in {"status", "error", "delta", "snapshot"}
           /\ e.type = "status" => e \in StatusEvents
           /\ e.type = "delta" => e \in DeltaEvents
           /\ e.type = "snapshot" /\ e \in Shipped => e \in Snapshots(Streams \cup {None})
           /\ e.type = "snapshot" /\ e \in Buffered => e \in Snapshots(MsgIds \cup {None})
  BY DEF Shipped, Buffered, StatusEvents, ErrorEvents, DeltaEvents, Snapshots

LEMMA WayTypes ==
    ASSUME ViewTypes
    PROVE  /\ wire \in Seq(Shipped) /\ buffer \in Seq(Buffered)
           /\ Len(wire) \in Nat /\ Len(buffer) \in Nat
           /\ Len(Coming) = Len(wire) + Len(buffer) /\ DOMAIN Coming = 1..Len(Coming)
           /\ Coming \in Seq(Shipped \cup Buffered)
           /\ \A i \in DOMAIN wire : i \in DOMAIN Coming /\ Coming[i] = wire[i] /\ i <= Len(wire)
           /\ \A i \in DOMAIN buffer :
                Len(wire) + i \in DOMAIN Coming /\ Coming[Len(wire) + i] = buffer[i]
           /\ \A j \in DOMAIN Coming :
                \/ j \in DOMAIN wire /\ j <= Len(wire) /\ Coming[j] \in Shipped
                \/ /\ j > Len(wire) /\ Coming[j] \in Buffered
                   /\ j - Len(wire) \in DOMAIN buffer
<1>1. wire \in Seq(Shipped) /\ buffer \in Seq(Buffered)
  BY DEF ViewTypes
<1>2. /\ Len(wire) \in Nat /\ Len(buffer) \in Nat
      /\ DOMAIN wire = 1..Len(wire) /\ DOMAIN buffer = 1..Len(buffer)
  BY <1>1
<1>3. wire \in Seq(Shipped \cup Buffered) /\ buffer \in Seq(Shipped \cup Buffered)
  BY <1>1
<1>4. /\ Coming \in Seq(Shipped \cup Buffered)
      /\ Len(Coming) = Len(wire) + Len(buffer) /\ DOMAIN Coming = 1..Len(Coming)
  BY <1>3 DEF Coming
<1>5. /\ \A i \in DOMAIN wire : i \in DOMAIN Coming /\ Coming[i] = wire[i] /\ i <= Len(wire)
      /\ \A i \in DOMAIN buffer :
            Len(wire) + i \in DOMAIN Coming /\ Coming[Len(wire) + i] = buffer[i]
  BY <1>1, <1>2, <1>4 DEF Coming
<1>6. \A j \in DOMAIN Coming : \/ j \in DOMAIN wire /\ j <= Len(wire)
                               \/ j > Len(wire) /\ j - Len(wire) \in DOMAIN buffer
  BY <1>2, <1>4
<1>7. \A j \in DOMAIN Coming : j = Len(wire) + (j - Len(wire))
  BY <1>2, <1>4
<1>8. \A j \in DOMAIN Coming : \/ j \in DOMAIN wire /\ j <= Len(wire) /\ Coming[j] = wire[j]
                               \/ /\ j > Len(wire) /\ j - Len(wire) \in DOMAIN buffer
                                  /\ Coming[j] = buffer[j - Len(wire)]
  BY <1>5, <1>6, <1>7
<1>9. /\ \A j \in DOMAIN wire : wire[j] \in Shipped
      /\ \A j \in DOMAIN buffer : buffer[j] \in Buffered
  BY <1>1
<1>10. QED
  BY <1>1, <1>2, <1>4, <1>5, <1>8, <1>9

LEMMA AnswerOf ==
    /\ Answer(None) = None
    /\ \A s \in Streams : s # None /\ Answer(s) = s.msg /\ s.msg # None /\ s.msg \in MsgIds
<1>1. None \notin Streams
  BY StreamsAssumption DEF Streams, Texts, Chunks
<1>2. None \notin MsgIds
  BY DialogViewAssumption
<1>3. \A s \in Streams : s.msg \in MsgIds
  BY DEF Streams
<1>4. QED
  BY <1>1, <1>2, <1>3 DEF Answer

LEMMA PlaceTypes ==
    ASSUME Types, NEW k \in Places, Held(k)
    PROVE  /\ View(k).id \in Dialogs /\ View(k).messages \in Seq(Entries)
           /\ Runner(k) \in MsgIds \cup {None}
           /\ k <= Len(wire) =>
                /\ View(k).stream \in Streams \cup {None} /\ Runner(k) = Answer(View(k).stream)
                /\ View(k).stream # None =>
                     View(k).stream \in Streams /\ Runner(k) = View(k).stream.msg
                /\ View(k).stream = None => Runner(k) = None
<1>1. ViewTypes
  BY DEF Types
<1>2. CASE k = 0
  <2>1. ~(k > Len(wire))
    BY <1>1, <1>2, WayTypes
  <2>2. View(k) \in Snapshots(Streams \cup {None})
    BY <1>1, <1>2 DEF Held, View, ViewTypes
  <2>3. /\ View(k).id \in Dialogs /\ View(k).messages \in Seq(Entries)
        /\ View(k).stream \in Streams \cup {None}
    BY <2>2 DEF Snapshots
  <2>4. QED
    BY <2>1, <2>3, AnswerOf DEF Runner
<1>3. CASE k # 0
  <2>1. k \in DOMAIN Coming /\ View(k) = Coming[k] /\ View(k).type = "snapshot"
    BY <1>3 DEF Held, View
  <2>2. CASE k <= Len(wire)
    <3>1. ~(k > Len(wire)) /\ Coming[k] \in Shipped
      BY <1>1, <2>1, <2>2, WayTypes
    <3>2. View(k) \in Snapshots(Streams \cup {None})
      BY <2>1, <3>1, EventKinds
    <3>3. /\ View(k).id \in Dialogs /\ View(k).messages \in Seq(Entries)
          /\ View(k).stream \in Streams \cup {None}
      BY <3>2 DEF Snapshots
    <3>4. QED
      BY <3>1, <3>3, AnswerOf DEF Runner
  <2>3. CASE ~(k <= Len(wire))
    <3>1. k > Len(wire) /\ Coming[k] \in Buffered
      BY <1>1, <2>1, <2>3, WayTypes
    <3>2. View(k) \in Snapshots(MsgIds \cup {None})
      BY <2>1, <3>1, EventKinds
    <3>3. QED
      BY <2>1, <2>3, <3>1, <3>2 DEF Runner, Snapshots
  <2>4. QED
    BY <2>2, <2>3
<1>4. QED
  BY <1>2, <1>3

\* Nothing is held anywhere while the browser is disconnected.
LEMMA NothingHeld ==
    ASSUME Types, Down, ~up, NEW k \in Places
    PROVE  ~Held(k) /\ DOMAIN Coming = {}
<1>1. missed /\ Len(Coming) = 0 /\ DOMAIN Coming = {}
  <2>1. ViewTypes /\ buffer = <<>> /\ wire = <<>> /\ missed
    BY DEF Types, Down
  <2>2. Len(Coming) = Len(wire) + Len(buffer) /\ DOMAIN Coming = 1..Len(Coming)
    BY <2>1, WayTypes
  <2>3. QED
    BY <2>1, <2>2
<1>2. k = 0
  BY <1>1 DEF Places
<1>3. QED
  BY <1>1, <1>2 DEF Held

LEMMA ComingConcat ==
    ASSUME NEW S, Coming \in Seq(S), NEW r \in Seq(S), Coming' = Coming \o r
    PROVE  /\ \A j \in DOMAIN Coming : Coming'[j] = Coming[j] /\ j \in DOMAIN Coming'
           /\ \A i \in DOMAIN r :
                /\ Len(Coming) + i \in DOMAIN Coming' /\ Coming'[Len(Coming) + i] = r[i]
                /\ i \in Nat /\ i > 0
           /\ \A j \in DOMAIN Coming' : j \in DOMAIN Coming \/ \E i \in DOMAIN r : j = Len(Coming) + i
  BY ConcatEvents, SMTT(30)

\* The buffer gets events: they are the last ones on the way.
LEMMA WayGrows ==
    ASSUME Types, NEW r \in Seq(Buffered), buffer' = buffer \o r,
           UNCHANGED <<wire, snapshot, missed>>
    PROVE  /\ Len(Coming)' = Len(Coming) + Len(r) /\ Len(Coming) \in Nat /\ Len(r) \in Nat
           /\ DOMAIN Coming = 1..Len(Coming) /\ DOMAIN Coming' = 1..Len(Coming)'
           /\ \A j \in DOMAIN Coming : Coming'[j] = Coming[j] /\ j \in DOMAIN Coming'
           /\ \A j \in DOMAIN Coming' :
                \/ j \in DOMAIN Coming
                \/ \E i \in DOMAIN r : j = Len(Coming) + i /\ Coming'[j] = r[i]
           /\ \A i \in DOMAIN r :
                /\ Len(Coming) + i \in DOMAIN Coming' /\ Coming'[Len(Coming) + i] = r[i]
                /\ i \in Nat /\ i > 0
           /\ Places \subseteq Places'
           /\ \A k \in Places : /\ View(k)' = View(k) /\ (Held(k)' <=> Held(k))
                                /\ Held(k) => Runner(k)' = Runner(k)
<1>1. /\ Coming \in Seq(Shipped \cup Buffered) /\ r \in Seq(Shipped \cup Buffered)
      /\ wire \in Seq(Shipped \cup Buffered) /\ buffer \in Seq(Shipped \cup Buffered)
      /\ Len(wire) \in Nat
  BY WayTypes DEF Types
<1>2. Coming' = Coming \o r
  <2>. DEFINE E == Shipped \cup Buffered
  <2>0. wire \in Seq(E) /\ buffer \in Seq(E) /\ r \in Seq(E)
    BY <1>1
  <2>. HIDE DEF E
  <2>1. wire \o (buffer \o r) = (wire \o buffer) \o r
    BY <2>0, ConcatAssociative, SMTT(30)
  <2>2. Coming' = wire \o (buffer \o r)
    BY DEF Coming
  <2>3. QED
    BY <2>1, <2>2 DEF Coming
<1>3. /\ Len(Coming)' = Len(Coming) + Len(r) /\ Len(Coming) \in Nat /\ Len(r) \in Nat
      /\ DOMAIN Coming = 1..Len(Coming) /\ DOMAIN Coming' = 1..Len(Coming)'
  BY <1>1, <1>2
<1>4. /\ \A j \in DOMAIN Coming : Coming'[j] = Coming[j] /\ j \in DOMAIN Coming'
      /\ \A i \in DOMAIN r :
            /\ Len(Coming) + i \in DOMAIN Coming' /\ Coming'[Len(Coming) + i] = r[i]
            /\ i \in Nat /\ i > 0
      /\ \A j \in DOMAIN Coming' : j \in DOMAIN Coming \/ \E i \in DOMAIN r : j = Len(Coming) + i
  BY <1>1, <1>2, ComingConcat
<1>5. \A k \in Places : k = 0 \/ k \in DOMAIN Coming
  BY <1>3 DEF Places
<1>6. Places \subseteq Places'
  BY <1>3 DEF Places
<1>7. \A k \in Places : View(k)' = View(k) /\ (Held(k)' <=> Held(k))
  BY <1>4, <1>5 DEF View, Held
<1>8. ASSUME NEW k \in Places PROVE Held(k) => Runner(k)' = Runner(k)
  <2>1. CASE k = 0
    <3>1. ~(0 > Len(wire))
      BY <1>1
    <3>2. QED
      BY <1>7, <2>1, <3>1 DEF Runner
  <2>2. CASE k \in DOMAIN Coming
    BY <1>4, <1>7, <2>2 DEF Runner
  <2>3. QED
    BY <1>5, <2>1, <2>2
<1>9. QED
  BY <1>3, <1>4, <1>6, <1>7, <1>8

\* What is behind a place when the buffer gets events.
LEMMA BehindGrows ==
    ASSUME Types, NEW r \in Seq(Buffered), buffer' = buffer \o r,
           UNCHANGED <<wire, snapshot, missed>>
    PROVE  /\ \A k \in Places : \A d :
                /\ Fresh(k, d)' <=>
                     Fresh(k, d) /\ \A i \in DOMAIN r : ~(r[i].type = "snapshot" /\ r[i].id = d)
                /\ Flushed(k, d)' <=>
                     \/ Flushed(k, d)
                     \/ \E i \in DOMAIN r : /\ r[i].type = "status" /\ r[i].id = d
                                            /\ r[i].to \in {"completed", "idle"}
           /\ \A k \in Places' : k \notin Places /\ Held(k)' =>
                \E i \in DOMAIN r :
                   /\ k = Len(Coming) + i /\ r[i].type = "snapshot" /\ View(k)' = r[i]
                   /\ Runner(k)' = r[i].stream /\ k > Len(wire)
                   /\ i = Len(r) => \A j \in DOMAIN Coming' : ~(j > k)
<1>1. /\ Len(Coming)' = Len(Coming) + Len(r) /\ Len(Coming) \in Nat /\ Len(r) \in Nat
      /\ DOMAIN Coming = 1..Len(Coming) /\ DOMAIN Coming' = 1..Len(Coming)'
      /\ \A j \in DOMAIN Coming : Coming'[j] = Coming[j] /\ j \in DOMAIN Coming'
      /\ \A j \in DOMAIN Coming' :
           j \in DOMAIN Coming \/ \E i \in DOMAIN r : j = Len(Coming) + i /\ Coming'[j] = r[i]
      /\ \A i \in DOMAIN r :
           /\ Len(Coming) + i \in DOMAIN Coming' /\ Coming'[Len(Coming) + i] = r[i]
           /\ i \in Nat /\ i > 0
  BY WayGrows
<1>2. \A k \in Places, i \in DOMAIN r : Len(Coming) + i > k
  BY <1>1 DEF Places
<1>3. ASSUME NEW k \in Places, NEW d
      PROVE  Fresh(k, d)' <=>
               Fresh(k, d) /\ \A i \in DOMAIN r : ~(r[i].type = "snapshot" /\ r[i].id = d)
  BY <1>1, <1>2 DEF Fresh, IsSnapshot
<1>4. ASSUME NEW k \in Places, NEW d
      PROVE  Flushed(k, d)' <=>
               \/ Flushed(k, d)
               \/ \E i \in DOMAIN r : /\ r[i].type = "status" /\ r[i].id = d
                                      /\ r[i].to \in {"completed", "idle"}
  <2>1. \A j \in DOMAIN Coming : IsFlush(j, d)' <=> IsFlush(j, d)
    BY <1>1 DEF IsFlush
  <2>2. PICK n : n = Len(Coming)
    OBVIOUS
  <2>7. \A i \in DOMAIN r : n + i \in DOMAIN Coming' /\ Coming'[n + i] = r[i] /\ n + i > k
    BY <1>1, <1>2, <2>2
  <2>8. \A i \in DOMAIN r : IsFlush(n + i, d)' <=>
          r[i].type = "status" /\ r[i].id = d /\ r[i].to \in {"completed", "idle"}
    BY <2>7 DEF IsFlush
  <2>3. Flushed(k, d) => Flushed(k, d)'
    BY <1>1, <2>1 DEF Flushed
  <2>4. ASSUME NEW i \in DOMAIN r, r[i].type = "status", r[i].id = d,
               r[i].to \in {"completed", "idle"}
        PROVE  Flushed(k, d)'
    BY <2>4, <2>7, <2>8 DEF Flushed
  <2>5. ASSUME NEW j \in DOMAIN Coming', j > k, IsFlush(j, d)'
        PROVE  \/ Flushed(k, d)
               \/ \E i \in DOMAIN r : /\ r[i].type = "status" /\ r[i].id = d
                                      /\ r[i].to \in {"completed", "idle"}
    <3>1. CASE j \in DOMAIN Coming
      BY <2>1, <2>5, <3>1 DEF Flushed
    <3>2. CASE \E i \in DOMAIN r : j = Len(Coming) + i /\ Coming'[j] = r[i]
      BY <2>5, <3>2 DEF IsFlush
    <3>3. QED
      BY <1>1, <3>1, <3>2
  <2>6. QED
    BY <2>3, <2>4, <2>5 DEF Flushed
<1>5. ASSUME NEW k \in Places', k \notin Places, Held(k)'
      PROVE  \E i \in DOMAIN r :
                /\ k = Len(Coming) + i /\ r[i].type = "snapshot" /\ View(k)' = r[i]
                /\ Runner(k)' = r[i].stream /\ k > Len(wire)
                /\ i = Len(r) => \A j \in DOMAIN Coming' : ~(j > k)
  <2>1. k \in DOMAIN Coming' /\ k # 0 /\ k \notin DOMAIN Coming
    BY <1>1, <1>5 DEF Places
  <2>2. PICK i \in DOMAIN r : k = Len(Coming) + i /\ Coming'[k] = r[i]
    BY <1>1, <2>1
  <2>3. k > Len(wire)
    <3>1. Len(wire) \in Nat /\ Len(buffer) \in Nat /\ Len(Coming) = Len(wire) + Len(buffer)
      BY WayTypes DEF Types
    <3>2. i \in Nat /\ i > 0
      BY <1>1
    <3>3. QED
      BY <2>2, <3>1, <3>2
  <2>4. View(k)' = r[i] /\ r[i].type = "snapshot" /\ Runner(k)' = r[i].stream
    BY <1>5, <2>1, <2>2, <2>3 DEF View, Held, Runner
  <2>5. i = Len(r) => \A j \in DOMAIN Coming' : ~(j > k)
    BY <1>1, <2>2
  <2>6. QED
    BY <2>2, <2>3, <2>4, <2>5
<1>6. QED
  BY <1>3, <1>4, <1>5

\* The sender task moves an event from the buffer to the socket.
LEMMA WayMoves ==
    ASSUME Types, Send
    PROVE  \E n \in Nat :
             /\ n = Len(wire) + 1 /\ Len(wire) \in Nat /\ Len(wire)' = n
             /\ n \in DOMAIN Coming /\ DOMAIN Coming' = DOMAIN Coming /\ Places' = Places
             /\ Coming[n] \in Buffered /\ Coming'[n] = Serialised(Coming[n])
             /\ \A j \in DOMAIN Coming : j # n => Coming'[j] = Coming[j]
<1>. DEFINE e == Head(buffer)
            sent == Serialised(e)
<1>1. /\ buffer # <<>> /\ buffer' = Tail(buffer) /\ wire' = Append(wire, sent)
      /\ wire \in Seq(Shipped) /\ buffer \in Seq(Buffered)
      /\ Len(wire) \in Nat /\ Len(buffer) \in Nat
      /\ Len(Coming) = Len(wire) + Len(buffer) /\ DOMAIN Coming = 1..Len(Coming)
      /\ \A i \in DOMAIN wire : i \in DOMAIN Coming /\ Coming[i] = wire[i] /\ i <= Len(wire)
      /\ \A i \in DOMAIN buffer :
           Len(wire) + i \in DOMAIN Coming /\ Coming[Len(wire) + i] = buffer[i]
  BY WayTypes DEF Types, Send
<1>2. e \in Buffered /\ sent \in Shipped
  BY <1>1, ShippedTypes
<1>3. PICK S : wire \in Seq(S) /\ buffer \in Seq(S) /\ sent \in S /\ e \in S
  <2>. DEFINE S == Shipped \cup Buffered
  <2>1. wire \in Seq(S) /\ buffer \in Seq(S)
    BY <1>1
  <2>2. sent \in S /\ e \in S
    BY <1>2
  <2>. HIDE DEF S, e, sent
  <2>3. QED
    BY <2>1, <2>2
<1>4. e = buffer[1] /\ 1 \in DOMAIN buffer
  BY <1>1
<1>. HIDE DEF e, sent
<1>5. /\ wire' \in Seq(S) /\ buffer' \in Seq(S)
      /\ Len(wire)' = Len(wire) + 1 /\ Len(buffer)' = Len(buffer) - 1
      /\ \A i \in 1..Len(wire) : wire'[i] = wire[i]
      /\ wire'[Len(wire) + 1] = sent
      /\ \A i \in 1..(Len(buffer) - 1) : buffer'[i] = buffer[i + 1]
  BY <1>1, <1>3
<1>6. /\ Len(Coming)' = Len(Coming) /\ DOMAIN Coming' = 1..Len(Coming)'
      /\ \A i \in 1..Len(wire)' : Coming'[i] = wire'[i]
      /\ \A i \in 1..Len(buffer)' : Coming'[Len(wire)' + i] = buffer'[i]
  BY <1>1, <1>5 DEF Coming
<1>7. \A j \in DOMAIN Coming : j <= Len(wire) => Coming'[j] = Coming[j]
  BY <1>1, <1>3, <1>5, <1>6
<1>8. \A j \in DOMAIN Coming : j > Len(wire) + 1 => Coming'[j] = Coming[j]
  <2>. SUFFICES ASSUME NEW j \in DOMAIN Coming, j > Len(wire) + 1 PROVE Coming'[j] = Coming[j]
    OBVIOUS
  <2>1. PICK i \in 1..(Len(buffer) - 1) : j = Len(wire) + 1 + i
    <3>1. j - (Len(wire) + 1) \in 1..(Len(buffer) - 1) /\ j = Len(wire) + 1 + (j - (Len(wire) + 1))
      BY <1>1
    <3>2. QED
      BY <3>1
  <2>2. Coming'[j] = buffer'[i]
    BY <1>1, <1>5, <1>6, <2>1
  <2>3. i + 1 \in DOMAIN buffer /\ j = Len(wire) + (i + 1)
    BY <1>1, <2>1
  <2>4. Coming[j] = buffer[i + 1]
    BY <1>1, <2>3
  <2>5. QED
    BY <1>5, <2>1, <2>2, <2>4
<1>9. /\ Len(wire) + 1 \in DOMAIN Coming /\ Coming[Len(wire) + 1] = e
      /\ Coming'[Len(wire) + 1] = sent
  BY <1>1, <1>4, <1>5, <1>6
<1>10. Places' = Places /\ DOMAIN Coming' = DOMAIN Coming
  BY <1>1, <1>6 DEF Places
<1>11. Len(wire) + 1 \in Nat /\ \A j \in DOMAIN Coming : j # Len(wire) + 1 => Coming'[j] = Coming[j]
  BY <1>1, <1>7, <1>8
<1>12. sent = Serialised(e)
  BY DEF sent
<1>13. QED
  BY <1>1, <1>2, <1>5, <1>9, <1>10, <1>11, <1>12

\* The browser takes the first event.
LEMMA WayShrinks ==
    ASSUME Types, Receive
    PROVE  /\ 1 \in DOMAIN Coming /\ Coming[1] \in Shipped /\ Fold(Coming[1]) /\ 1 <= Len(wire)
           /\ Len(wire) \in Nat /\ Len(wire)' = Len(wire) - 1
           /\ Len(Coming) \in Nat /\ Len(Coming)' = Len(Coming) - 1
           /\ DOMAIN Coming = 1..Len(Coming) /\ DOMAIN Coming' = 1..Len(Coming)'
           /\ \A j \in DOMAIN Coming' :
                /\ j + 1 \in DOMAIN Coming /\ Coming'[j] = Coming[j + 1]
                /\ j \in Nat /\ j > 0
           /\ \A j \in DOMAIN Coming :
                /\ j \in Nat
                /\ j = 1 \/ (j > 1 /\ j - 1 \in DOMAIN Coming' /\ Coming'[j - 1] = Coming[j])
<1>. DEFINE e == Head(wire)
<1>1. /\ wire # <<>> /\ wire' = Tail(wire) /\ Fold(e) /\ buffer' = buffer
      /\ wire \in Seq(Shipped) /\ buffer \in Seq(Buffered)
      /\ Len(wire) \in Nat /\ Len(buffer) \in Nat
      /\ Len(Coming) = Len(wire) + Len(buffer) /\ DOMAIN Coming = 1..Len(Coming)
      /\ \A i \in DOMAIN wire : i \in DOMAIN Coming /\ Coming[i] = wire[i] /\ i <= Len(wire)
      /\ \A i \in DOMAIN buffer :
           Len(wire) + i \in DOMAIN Coming /\ Coming[Len(wire) + i] = buffer[i]
  BY WayTypes DEF Types, Receive, Fold
<1>2. e \in Shipped /\ e = wire[1] /\ 1 \in DOMAIN wire
  BY <1>1
<1>. HIDE DEF e
<1>3. PICK S : wire \in Seq(S) /\ buffer \in Seq(S)
  <2>1. wire \in Seq(Shipped \cup Buffered) /\ buffer \in Seq(Shipped \cup Buffered)
    BY <1>1
  <2>2. QED
    BY <2>1
<1>4. /\ wire' \in Seq(S) /\ Len(wire)' = Len(wire) - 1 /\ Len(wire) >= 1
      /\ \A i \in 1..(Len(wire) - 1) : wire'[i] = wire[i + 1]
  BY <1>1, <1>3
<1>5. /\ Len(Coming)' = Len(Coming) - 1 /\ DOMAIN Coming' = 1..Len(Coming)'
      /\ \A i \in 1..Len(wire)' : Coming'[i] = wire'[i]
      /\ \A i \in 1..Len(buffer) : Coming'[Len(wire)' + i] = buffer[i]
  BY <1>1, <1>3, <1>4 DEF Coming
<1>6. \A j \in DOMAIN Coming' : j <= Len(wire) - 1 => Coming'[j] = Coming[j + 1]
  BY <1>1, <1>3, <1>4, <1>5
<1>7. \A j \in DOMAIN Coming' : j > Len(wire) - 1 => Coming'[j] = Coming[j + 1]
  <2>. SUFFICES ASSUME NEW j \in DOMAIN Coming', j > Len(wire) - 1 PROVE Coming'[j] = Coming[j + 1]
    OBVIOUS
  <2>1. PICK i \in 1..Len(buffer) : j = (Len(wire) - 1) + i
    <3>1. j - (Len(wire) - 1) \in 1..Len(buffer) /\ j = (Len(wire) - 1) + (j - (Len(wire) - 1))
      BY <1>1, <1>4, <1>5
    <3>2. QED
      BY <3>1
  <2>2. Coming'[j] = buffer[i]
    BY <1>4, <1>5, <2>1
  <2>3. i \in DOMAIN buffer /\ j + 1 = Len(wire) + i
    BY <1>1, <2>1
  <2>4. Coming[j + 1] = buffer[i]
    BY <1>1, <2>3
  <2>5. QED
    BY <2>2, <2>4
<1>8. \A j \in DOMAIN Coming' : /\ j + 1 \in DOMAIN Coming /\ Coming'[j] = Coming[j + 1]
                                /\ j \in Nat /\ j > 0
  <2>1. \A j \in DOMAIN Coming' : j + 1 \in DOMAIN Coming /\ j \in Nat /\ j > 0
    BY <1>1, <1>5
  <2>2. \A j \in DOMAIN Coming' : j <= Len(wire) - 1 \/ j > Len(wire) - 1
    BY <1>1, <2>1
  <2>3. QED
    BY <1>6, <1>7, <2>1, <2>2
<1>9. ASSUME NEW j \in DOMAIN Coming
      PROVE  j \in Nat /\ (j = 1 \/ (j > 1 /\ j - 1 \in DOMAIN Coming' /\ Coming'[j - 1] = Coming[j]))
  <2>1. CASE j = 1
    BY <2>1
  <2>2. CASE j # 1
    <3>1. j \in Nat /\ j > 1 /\ j - 1 \in DOMAIN Coming' /\ (j - 1) + 1 = j
      BY <1>1, <1>5, <2>2
    <3>2. QED
      BY <1>8, <3>1
  <2>3. QED
    BY <2>1, <2>2
<1>10. 1 \in DOMAIN Coming /\ Coming[1] = e /\ 1 <= Len(wire)
  BY <1>1, <1>2
<1>11. QED
  BY <1>1, <1>2, <1>4, <1>5, <1>8, <1>9, <1>10

\* Sending fixes the text of one snapshot.
LEMMA PlacesMove ==
    ASSUME Types, Send
    PROVE  /\ Places' = Places /\ DOMAIN Coming' = DOMAIN Coming
           /\ \A j \in DOMAIN Coming :
                /\ Coming'[j].type = Coming[j].type /\ Coming'[j].id = Coming[j].id
                /\ Coming[j].type # "snapshot" => Coming'[j] = Coming[j]
           /\ \A k \in Places :
                /\ Held(k)' <=> Held(k)
                /\ k <= Len(wire) => View(k)' = View(k)
                /\ Held(k) =>
                     /\ View(k)'.id = View(k).id /\ View(k)'.messages = View(k).messages
                     /\ View(k)'.window = View(k).window /\ Runner(k)' = Runner(k)
                /\ \A d : /\ Fresh(k, d)' <=> Fresh(k, d)
                          /\ Flushed(k, d)' <=> Flushed(k, d)
<1>1. PICK n \in Nat :
         /\ n = Len(wire) + 1 /\ Len(wire) \in Nat /\ Len(wire)' = n
         /\ n \in DOMAIN Coming /\ DOMAIN Coming' = DOMAIN Coming /\ Places' = Places
         /\ Coming[n] \in Buffered /\ Coming'[n] = Serialised(Coming[n])
         /\ \A j \in DOMAIN Coming : j # n => Coming'[j] = Coming[j]
  BY WayMoves
<1>2. /\ Coming'[n].type = Coming[n].type /\ Coming'[n].id = Coming[n].id
      /\ Coming[n].type # "snapshot" => Coming'[n] = Coming[n]
      /\ Coming[n].type = "snapshot" =>
            /\ Answer(Coming'[n].stream) = Coming[n].stream
            /\ Coming'[n].messages = Coming[n].messages /\ Coming'[n].window = Coming[n].window
  <2>1. Coming[n].type # "snapshot" => Serialised(Coming[n]) = Coming[n]
    BY DEF Serialised
  <2>2. QED
    BY <1>1, <2>1, ShippedSame
<1>3. \A j \in DOMAIN Coming :
        /\ Coming'[j].type = Coming[j].type /\ Coming'[j].id = Coming[j].id
        /\ Coming[j].type # "snapshot" => Coming'[j] = Coming[j]
  BY <1>1, <1>2
<1>4. /\ snapshot' = snapshot /\ missed' = missed /\ DOMAIN Coming = 1..Len(Coming)
      /\ \A k \in Places : k = 0 \/ (k \in DOMAIN Coming /\ k # 0 /\ k \in Nat)
  BY WayTypes DEF Types, Send, browserVars, Places
<1>5. ASSUME NEW k \in Places
      PROVE  /\ Held(k)' <=> Held(k)
             /\ k <= Len(wire) => View(k)' = View(k)
             /\ Held(k) =>
                  /\ View(k)'.id = View(k).id /\ View(k)'.messages = View(k).messages
                  /\ View(k)'.window = View(k).window /\ Runner(k)' = Runner(k)
  <2>1. CASE k = 0
    <3>1. ~(0 > Len(wire)) /\ ~(0 > Len(wire)')
      BY <1>1
    <3>2. QED
      BY <1>4, <2>1, <3>1 DEF Held, View, Runner
  <2>2. CASE k # 0 /\ k # n
    <3>1. k \in DOMAIN Coming /\ Coming'[k] = Coming[k] /\ (k > Len(wire) <=> k > Len(wire)')
      BY <1>1, <1>4, <2>2
    <3>2. QED
      BY <1>1, <2>2, <3>1 DEF Held, View, Runner
  <2>3. CASE k = n
    <3>1. k \in DOMAIN Coming /\ k # 0 /\ ~(k <= Len(wire)) /\ k > Len(wire) /\ ~(k > Len(wire)')
      BY <1>1, <2>3
    <3>2. QED
      BY <1>1, <1>2, <2>3, <3>1 DEF Held, View, Runner
  <2>4. QED
    BY <2>1, <2>2, <2>3
<1>6. ASSUME NEW k \in Places, NEW d
      PROVE  (Fresh(k, d)' <=> Fresh(k, d)) /\ (Flushed(k, d)' <=> Flushed(k, d))
  <2>1. Fresh(k, d)' <=> Fresh(k, d)
    BY <1>1, <1>3 DEF Fresh, IsSnapshot
  <2>2. \A j \in DOMAIN Coming : IsFlush(j, d)' <=> IsFlush(j, d)
    BY <1>3 DEF IsFlush
  <2>3. QED
    BY <1>1, <2>1, <2>2 DEF Flushed
<1>7. QED
  BY <1>1, <1>3, <1>5, <1>6

\* Receiving moves all events one place towards the screen.
LEMMA PlacesShrink ==
    ASSUME Types, Receive
    PROVE  /\ \A k \in Places' : k # 0 =>
                /\ k + 1 \in Places /\ k \in Nat /\ (Held(k)' <=> Held(k + 1))
                /\ View(k)' = View(k + 1) /\ (Held(k)' => Runner(k)' = Runner(k + 1))
                /\ k <= Len(wire)' <=> k + 1 <= Len(wire)
                /\ \A d : /\ Fresh(k, d)' <=> Fresh(k + 1, d)
                          /\ Flushed(k, d)' <=> Flushed(k + 1, d)
           /\ 1 \in Places /\ 0 \in Places
           /\ \A d : /\ Fresh(0, d)' <=> Fresh(1, d)
                     /\ Flushed(0, d)' <=> Flushed(1, d)
                     /\ Fresh(0, d) <=> Fresh(1, d) /\ ~IsSnapshot(1, d)
                     /\ Flushed(0, d) <=> Flushed(1, d) \/ IsFlush(1, d)
<1>1. /\ 1 \in DOMAIN Coming /\ Len(wire) \in Nat /\ Len(wire)' = Len(wire) - 1
      /\ \A j \in DOMAIN Coming' :
           /\ j + 1 \in DOMAIN Coming /\ Coming'[j] = Coming[j + 1]
           /\ j \in Nat /\ j > 0
      /\ \A j \in DOMAIN Coming :
           /\ j \in Nat
           /\ j = 1 \/ (j > 1 /\ j - 1 \in DOMAIN Coming' /\ Coming'[j - 1] = Coming[j])
  BY WayShrinks
<1>2. /\ Len(Coming) \in Nat /\ Len(Coming)' = Len(Coming) - 1
      /\ DOMAIN Coming = 1..Len(Coming) /\ DOMAIN Coming' = 1..Len(Coming)'
  BY WayShrinks
<1>3. /\ 0 \in Places /\ 1 \in Places
      /\ \A k \in Places' : k # 0 =>
           /\ k \in DOMAIN Coming' /\ k \in Nat /\ k + 1 \in Places /\ k + 1 \in DOMAIN Coming
           /\ k + 1 # 0 /\ (k <= Len(wire)' <=> k + 1 <= Len(wire))
           /\ (k > Len(wire)' <=> k + 1 > Len(wire))
  BY <1>1, <1>2 DEF Places
<1>4. ASSUME NEW d
      PROVE  /\ \A j \in DOMAIN Coming' : /\ IsSnapshot(j, d)' <=> IsSnapshot(j + 1, d)
                                          /\ IsFlush(j, d)' <=> IsFlush(j + 1, d)
             /\ \A j \in DOMAIN Coming : j = 1 \/
                   /\ j - 1 \in DOMAIN Coming' /\ j > 1
                   /\ (Coming'[j - 1].type = "snapshot" /\ Coming'[j - 1].id = d)
                         <=> IsSnapshot(j, d)
                   /\ (/\ Coming'[j - 1].type = "status" /\ Coming'[j - 1].id = d
                       /\ Coming'[j - 1].to \in {"completed", "idle"}) <=> IsFlush(j, d)
  <2>1. \A j \in DOMAIN Coming' : /\ IsSnapshot(j, d)' <=> IsSnapshot(j + 1, d)
                                  /\ IsFlush(j, d)' <=> IsFlush(j + 1, d)
    BY <1>1 DEF IsSnapshot, IsFlush
  <2>2. \A j \in DOMAIN Coming : j = 1 \/
           /\ j - 1 \in DOMAIN Coming' /\ j > 1
           /\ (Coming'[j - 1].type = "snapshot" /\ Coming'[j - 1].id = d) <=> IsSnapshot(j, d)
           /\ (/\ Coming'[j - 1].type = "status" /\ Coming'[j - 1].id = d
               /\ Coming'[j - 1].to \in {"completed", "idle"}) <=> IsFlush(j, d)
    BY <1>1 DEF IsSnapshot, IsFlush
  <2>3. QED
    BY <2>1, <2>2
<1>5. ASSUME NEW d, NEW k \in Nat
      PROVE  /\ Fresh(k, d)' <=> Fresh(k + 1, d)
             /\ Flushed(k, d)' <=> Flushed(k + 1, d)
  <2>1. /\ \A j \in DOMAIN Coming' : j > k => j + 1 > k + 1
        /\ \A j \in DOMAIN Coming : j > k + 1 => j # 1 /\ j - 1 > k
    BY <1>1
  <2>2. Fresh(k, d)' => Fresh(k + 1, d)
    BY <1>1, <1>4, <2>1 DEF Fresh, IsSnapshot
  <2>3. Fresh(k + 1, d) => Fresh(k, d)'
    BY <1>1, <1>4, <2>1 DEF Fresh
  <2>4. Flushed(k, d)' => Flushed(k + 1, d)
    BY <1>1, <1>4, <2>1 DEF Flushed
  <2>5. Flushed(k + 1, d) => Flushed(k, d)'
    <3>1. ASSUME NEW j \in DOMAIN Coming, j > k + 1, IsFlush(j, d) PROVE Flushed(k, d)'
      <4>1. PICK i \in DOMAIN Coming' : i > k /\ Coming'[i] = Coming[j]
        BY <1>1, <2>1, <3>1
      <4>2. IsFlush(i, d)'
        BY <3>1, <4>1 DEF IsFlush
      <4>3. QED
        BY <4>1, <4>2 DEF Flushed
    <3>2. QED
      BY <3>1 DEF Flushed
  <2>6. QED
    BY <2>2, <2>3, <2>4, <2>5
<1>6. ASSUME NEW k \in Places', k # 0
      PROVE  /\ Held(k)' <=> Held(k + 1)
             /\ View(k)' = View(k + 1) /\ (Held(k)' => Runner(k)' = Runner(k + 1))
  <2>1. k \in DOMAIN Coming' /\ k + 1 \in DOMAIN Coming /\ k + 1 # 0 /\ Coming'[k] = Coming[k + 1]
        /\ (k > Len(wire)' <=> k + 1 > Len(wire))
    BY <1>1, <1>3, <1>6
  <2>2. QED
    BY <1>6, <2>1 DEF Held, View, Runner
<1>7. ASSUME NEW d
      PROVE  /\ Fresh(0, d)' <=> Fresh(1, d)
             /\ Flushed(0, d)' <=> Flushed(1, d)
             /\ Fresh(0, d) <=> Fresh(1, d) /\ ~IsSnapshot(1, d)
             /\ Flushed(0, d) <=> Flushed(1, d) \/ IsFlush(1, d)
  <2>1. 0 \in Nat /\ 0 + 1 = 1 /\ 1 \in DOMAIN Coming
        /\ \A j \in DOMAIN Coming : j > 0 /\ (j = 1 \/ j > 1)
    BY <1>1
  <2>2. (Fresh(0, d)' <=> Fresh(0 + 1, d)) /\ (Flushed(0, d)' <=> Flushed(0 + 1, d))
    BY <1>5
  <2>3. Fresh(0, d) <=> Fresh(1, d) /\ ~IsSnapshot(1, d)
    BY <2>1 DEF Fresh
  <2>4. Flushed(0, d) <=> Flushed(1, d) \/ IsFlush(1, d)
    BY <2>1 DEF Flushed
  <2>5. QED
    BY <2>1, <2>2, <2>3, <2>4
<1>8. QED
  BY <1>3, <1>5, <1>6, <1>7

\* A finished answer is appended, unless the list has it.
Added(list, s) ==
    \/ s = None /\ list = snapshot.messages
    \/ /\ s # None /\ list = snapshot.messages
       /\ \E i \in DOMAIN list : list[i] = Listed(s.msg, "streamed")
    \/ s # None /\ list = Append(snapshot.messages, Listed(s.msg, "streamed"))

\* The first event becomes the screen, or the screen stays what it is about.
LEMMA Arrives ==
    ASSUME Types, Receive, Held(0)'
    PROVE  \/ /\ Held(1) /\ View(0)' = View(1) /\ Runner(0)' = Runner(1)
              /\ 1 <= Len(wire) /\ Coming[1].type = "snapshot"
           \/ /\ Held(0) /\ ~IsSnapshot(1, snapshot.id)
              /\ snapshot'.id = snapshot.id /\ snapshot'.window = snapshot.window
              /\ \/ /\ ~IsFlush(1, snapshot.id) /\ snapshot'.messages = snapshot.messages
                    /\ Answer(snapshot'.stream) = Answer(snapshot.stream)
                    /\ \/ Coming[1] \in DeltaEvents /\ OnDelta(Coming[1])
                       \/ Coming[1].type # "delta" /\ snapshot'.stream = snapshot.stream
                 \/ /\ IsFlush(1, snapshot.id) /\ snapshot'.stream = None
                    /\ Added(snapshot'.messages, snapshot.stream)
                    /\ Coming[1].type # "delta"
<1>1. /\ 1 \in DOMAIN Coming /\ Coming[1] \in Shipped /\ Fold(Coming[1]) /\ 1 <= Len(wire)
      /\ Len(wire) \in Nat /\ Len(wire)' = Len(wire) - 1
  BY WayShrinks
<1>2. PICK e : e = Coming[1]
  OBVIOUS
<1>3. /\ ~(0 > Len(wire)) /\ ~(0 > Len(wire)') /\ ~(1 > Len(wire)) /\ 1 # 0
      /\ e \in Shipped /\ Fold(e)
      /\ snapshot \in Snapshots(Streams \cup {None}) \cup {None}
      /\ snapshot' # None /\ ~missed'
  BY <1>1, <1>2 DEF Types, ViewTypes, Held
<1>4. CASE OnSnapshot(e)
  <2>0. e.type = "snapshot" /\ e \in Snapshots(Streams \cup {None})
    BY <1>3, <1>4, EventKinds DEF OnSnapshot
  <2>1. CASE snapshot = None \/ Shows(e.id)
    <3>1. snapshot' = e /\ ~missed'
      BY <1>4, <2>1 DEF OnSnapshot
    <3>2. QED
      BY <1>1, <1>2, <1>3, <2>0, <3>1 DEF Held, View, Runner
  <2>2. CASE ~(snapshot = None \/ Shows(e.id))
    <3>1. /\ snapshot' = snapshot /\ missed' = missed /\ e.id # snapshot.id
      BY <1>4, <2>2 DEF OnSnapshot, Shows
    <3>2. QED
      BY <1>2, <2>0, <3>1 DEF Held, IsSnapshot, IsFlush
  <2>3. QED
    BY <2>1, <2>2
<1>5. CASE OnDelta(e)
  <2>0. e.type = "delta" /\ e \in DeltaEvents
    BY <1>3, <1>5, EventKinds DEF OnDelta
  <2>1. QED
    BY <1>2, <1>3, <1>5, <2>0, DeltaSame DEF Held, IsSnapshot, IsFlush
<1>6. CASE OnStatus(e)
  <2>0. e.type = "status" /\ e.to \in Shown
    BY <1>3, <1>6, EventKinds DEF OnStatus, StatusEvents
  <2>1. CASE ~Shows(e.id)
    <3>1. snapshot' = snapshot /\ missed' = missed /\ (snapshot # None => e.id # snapshot.id)
      BY <1>6, <2>1 DEF OnStatus, Shows
    <3>2. QED
      BY <1>2, <2>0, <3>1 DEF Held, IsSnapshot, IsFlush
  <2>2. CASE Shows(e.id)
    <3>1. snapshot # None /\ snapshot.id = e.id /\ snapshot \in Snapshots(Streams \cup {None})
      BY <1>3, <2>2 DEF Shows
    <3>2. PICK next : next = [snapshot EXCEPT !.status = e.to]
      OBVIOUS
    <3>3. /\ next \in Snapshots(Streams \cup {None}) /\ next.id = snapshot.id
          /\ next.stream = snapshot.stream /\ next.messages = snapshot.messages
          /\ next.window = snapshot.window
      BY <2>0, <3>1, <3>2 DEF Snapshots
    <3>4. missed' = missed /\ snapshot' = (IF e.to \in {"completed", "idle"} THEN Flush(next) ELSE next)
      BY <1>6, <2>2, <3>2 DEF OnStatus
    <3>5. CASE e.to \in {"completed", "idle"}
      <4>1. snapshot' = Flush(next)
        BY <3>4, <3>5
      <4>2. /\ snapshot'.id = snapshot.id /\ snapshot'.window = snapshot.window
            /\ snapshot'.stream = None
        BY <3>3, <4>1, FlushSame
      <4>3. Added(snapshot'.messages, snapshot.stream)
        <5>1. CASE next.stream = None
          BY <3>3, <4>1, <5>1, FlushSame DEF Added
        <5>2. CASE next.stream # None
          BY <3>3, <4>1, <5>2 DEF Added, Flush, Snapshots
        <5>3. QED
          BY <5>1, <5>2
      <4>4. QED
        BY <1>2, <1>3, <2>0, <3>1, <3>4, <3>5, <4>2, <4>3 DEF Held, IsSnapshot, IsFlush
    <3>6. CASE ~(e.to \in {"completed", "idle"})
      <4>1. snapshot' = next
        BY <3>4, <3>6
      <4>2. QED
        BY <1>2, <1>3, <2>0, <3>1, <3>3, <3>4, <3>6, <4>1 DEF Held, IsSnapshot, IsFlush
    <3>7. QED
      BY <3>5, <3>6
  <2>3. QED
    BY <2>1, <2>2
<1>7. CASE OnError(e)
  <2>1. /\ snapshot' = snapshot /\ missed' = missed /\ e.type = "error"
    BY <1>7 DEF OnError
  <2>2. QED
    BY <1>2, <2>1 DEF Held, IsSnapshot, IsFlush
<1>8. QED
  BY <1>3, <1>4, <1>5, <1>6, <1>7 DEF Fold
-----------------------------------------------------------------------------
(***************************************************************************)
(* What the snapshots list.  The last snapshot of a dialog has the running *)
(* answer of the dialog, and what it lists, together with the answer when  *)
(* it is finished, is what the session has stored.                         *)
(***************************************************************************)
InStored(d, a) == \E i \in DOMAIN stored[d] : stored[d][i] = a

\* The running answer of place k is stored now, and the list lacks it.
Finished(k, d) ==
    IF placeholder[d] = None THEN Runner(k) # None /\ Flushed(k, d) ELSE InStored(d, Runner(k))
Tallies(k, d) ==
    /\ placeholder[d] # None => Runner(k) = placeholder[d] /\ ~Flushed(k, d)
    /\ ~View(k).window =>
         /\ Finished(k, d) => stored[d] = Append(ListedAnswers(View(k)), Runner(k))
         /\ ~Finished(k, d) => stored[d] = ListedAnswers(View(k))

ListInv ==
    \A k \in Places, d \in Dialogs :
        Held(k) /\ View(k).id = d /\ Fresh(k, d) => Tallies(k, d)

LEMMA TalliesSame ==
    ASSUME NEW j, NEW k, NEW d, Tallies(j, d),
           View(k)'.messages = View(j).messages, View(k)'.window = View(j).window,
           Runner(k)' = Runner(j), Flushed(k, d)' <=> Flushed(j, d),
           stored'[d] = stored[d], placeholder'[d] = placeholder[d]
    PROVE  Tallies(k, d)'
<1>1. ListedAnswers(View(k))' = ListedAnswers(View(j))
  BY DEF ListedAnswers
<1>2. InStored(d, Runner(k))' <=> InStored(d, Runner(j))
  BY DEF InStored
<1>3. Finished(k, d)' <=> Finished(j, d)
  BY <1>2 DEF Finished
<1>4. QED
  BY <1>1, <1>3 DEF Tallies

LEMMA ListedAppend ==
    ASSUME NEW S, NEW s \in Seq(S), NEW e \in S, NEW v, NEW w, v.messages = s,
           w.messages = Append(s, e)
    PROVE  ListedAnswers(w) = Append(ListedAnswers(v), e.msg)
<1>1. /\ DOMAIN s = 1..Len(s) /\ Len(s) \in Nat /\ DOMAIN Append(s, e) = 1..(Len(s) + 1)
      /\ \A i \in 1..Len(s) : Append(s, e)[i] = s[i]
      /\ Append(s, e)[Len(s) + 1] = e
  OBVIOUS
<1>2. PICK q : q = Append(s, e)
  OBVIOUS
<1>3. PICK n \in Nat : n = Len(s)
  BY <1>1
<1>4. /\ ListedAnswers(w) = [i \in 1..(n + 1) |-> q[i].msg]
      /\ ListedAnswers(v) = [i \in 1..n |-> s[i].msg]
  BY <1>1, <1>2, <1>3 DEF ListedAnswers
<1>5. PICK l : l = [i \in 1..n |-> s[i].msg]
  OBVIOUS
<1>6. PICK T : e.msg \in T /\ \A i \in 1..n : s[i].msg \in T
  <2>. DEFINE T == {s[i].msg : i \in 1..n} \cup {e.msg}
  <2>1. e.msg \in T /\ \A i \in 1..n : s[i].msg \in T
    OBVIOUS
  <2>. HIDE DEF T
  <2>2. QED
    BY <2>1
<1>7. l \in Seq(T) /\ Len(l) = n
  <2>1. [i \in 1..n |-> s[i].msg] \in Seq(T)
    BY <1>6, IsASeq
  <2>2. QED
    BY <1>5, <2>1
<1>8. \A i \in 1..(n + 1) : q[i].msg = Append(l, e.msg)[i]
  <2>1. \A i \in 1..n : Append(l, e.msg)[i] = l[i]
    BY <1>6, <1>7
  <2>2. Append(l, e.msg)[n + 1] = e.msg
    BY <1>6, <1>7
  <2>3. \A i \in 1..n : l[i] = s[i].msg
    BY <1>5
  <2>4. \A i \in 1..n : q[i] = s[i]
    BY <1>1, <1>2, <1>3
  <2>5. q[n + 1] = e
    BY <1>1, <1>2, <1>3
  <2>6. \A i \in 1..(n + 1) : i = n + 1 \/ i \in 1..n
    OBVIOUS
  <2>7. QED
    BY <2>1, <2>2, <2>3, <2>4, <2>5, <2>6
<1>9. /\ DOMAIN Append(l, e.msg) = 1..(n + 1)
      /\ Append(l, e.msg) = [i \in DOMAIN Append(l, e.msg) |-> Append(l, e.msg)[i]]
  BY <1>6, <1>7
<1>10. ListedAnswers(w) = Append(l, e.msg)
  BY <1>4, <1>8, <1>9
<1>11. QED
  BY <1>4, <1>5, <1>10

LEMMA ListedBuilt ==
    ASSUME Types, NEW d \in Dialogs, NEW s, NEW p
    PROVE  /\ ListedAnswers(Built(d, s, p)) = stored[d]
           /\ Built(d, s, p).id = d /\ Built(d, s, p).stream = p
           /\ ~Built(d, s, p).window => p = None \/ ~InStored(d, p)
           /\ Built(d, s, p).type = "snapshot"
<1>. DEFINE list == [i \in DOMAIN stored[d] |-> Listed(stored[d][i], "saved")]
<1>1. stored[d] \in Seq(MsgIds)
  BY DEF Types, TurnTypes
<1>2. /\ Built(d, s, p).messages = list /\ Built(d, s, p).id = d /\ Built(d, s, p).stream = p
      /\ Built(d, s, p).type = "snapshot"
      /\ ~Built(d, s, p).window => p = None \/ ~InStored(d, p)
  BY DEF Built, InStored
<1>3. DOMAIN list = DOMAIN stored[d] /\ \A i \in DOMAIN list : list[i].msg = stored[d][i]
  BY DEF Listed
<1>. HIDE DEF list
<1>4. ListedAnswers(Built(d, s, p)) = [i \in DOMAIN stored[d] |-> stored[d][i]]
  BY <1>2, <1>3 DEF ListedAnswers
<1>5. [i \in DOMAIN stored[d] |-> stored[d][i]] = stored[d]
  BY <1>1
<1>6. QED
  BY <1>2, <1>4, <1>5

\* A broadcast adds events, or there is no browser.
LEMMA BroadcastPlaces ==
    ASSUME Types, Down, NEW events \in Seq(Buffered), Broadcast(events),
           UNCHANGED <<snapshot, missed>>
    PROVE  \/ buffer' = buffer \o events /\ UNCHANGED <<wire, snapshot, missed>>
           \/ (\A k \in Places' : ~Held(k)') /\ DOMAIN Coming' = {}
<1>1. CASE up
  BY <1>1 DEF Broadcast
<1>2. CASE ~up
  <2>1. UNCHANGED <<wire, buffer, snapshot, missed>>
    BY <1>2 DEF Broadcast
  <2>2. Coming' = Coming /\ Places' = Places
    BY <2>1 DEF Coming, Places
  <2>3. \A k \in Places : Held(k)' <=> Held(k)
    BY <2>1, <2>2 DEF Held
  <2>4. /\ \A k \in Places : ~Held(k)
        /\ DOMAIN Coming = {}
    <3>1. 0 \in Places
      BY WayTypes DEF Places, Types
    <3>2. QED
      BY <1>2, <3>1, NothingHeld
  <2>5. QED
    BY <2>2, <2>3, <2>4
<1>3. QED
  BY <1>1, <1>2

\* The places there are when the buffer has got events.
LEMMA ListsGrow ==
    ASSUME Types, ListInv, NEW r \in Seq(Buffered), buffer' = buffer \o r,
           UNCHANGED <<wire, snapshot, missed>>,
           NEW k \in Places', NEW d \in Dialogs, Held(k)', View(k)'.id = d, Fresh(k, d)'
    PROVE  \/ /\ k \in Places /\ Tallies(k, d) /\ Held(k) /\ View(k).id = d
              /\ View(k)' = View(k) /\ Runner(k)' = Runner(k)
              /\ \A i \in DOMAIN r : ~(r[i].type = "snapshot" /\ r[i].id = d)
              /\ Flushed(k, d)' <=>
                   \/ Flushed(k, d)
                   \/ \E i \in DOMAIN r : /\ r[i].type = "status" /\ r[i].id = d
                                          /\ r[i].to \in {"completed", "idle"}
           \/ \E i \in DOMAIN r :
                /\ r[i].type = "snapshot" /\ View(k)' = r[i] /\ Runner(k)' = r[i].stream
                /\ i = Len(r) => \A j \in DOMAIN Coming' : ~(j > k)
<1>1. CASE k \in Places
  <2>1. View(k)' = View(k) /\ Held(k) /\ Runner(k)' = Runner(k)
    BY <1>1, WayGrows
  <2>2. /\ Fresh(k, d) /\ \A i \in DOMAIN r : ~(r[i].type = "snapshot" /\ r[i].id = d)
        /\ Flushed(k, d)' <=>
             \/ Flushed(k, d)
             \/ \E i \in DOMAIN r : /\ r[i].type = "status" /\ r[i].id = d
                                    /\ r[i].to \in {"completed", "idle"}
    BY <1>1, BehindGrows
  <2>3. Tallies(k, d)
    BY <1>1, <2>1, <2>2 DEF ListInv
  <2>4. QED
    BY <1>1, <2>1, <2>2, <2>3
<1>2. CASE k \notin Places
  <2>1. \E i \in DOMAIN r :
           /\ k = Len(Coming) + i /\ r[i].type = "snapshot" /\ View(k)' = r[i]
           /\ Runner(k)' = r[i].stream /\ k > Len(wire)
           /\ i = Len(r) => \A j \in DOMAIN Coming' : ~(j > k)
    BY <1>2, BehindGrows
  <2>2. QED
    BY <2>1
<1>3. QED
  BY <1>1, <1>2

LEMMA BuiltTallies ==
    ASSUME Types, NEW k, NEW d \in Dialogs, NEW s, NEW p \in MsgIds \cup {None},
           View(k)' = Built(d, s, p), Runner(k)' = p, placeholder'[d] = p, UNCHANGED stored,
           \A j \in DOMAIN Coming' : ~(j > k)
    PROVE  Tallies(k, d)'
<1>1. ~Flushed(k, d)'
  BY DEF Flushed
<1>2. /\ ListedAnswers(View(k))' = stored'[d]
      /\ ~View(k)'.window => p = None \/ ~InStored(d, p)'
  <2>1. ListedAnswers(Built(d, s, p)) = stored[d]
        /\ (~Built(d, s, p).window => p = None \/ ~InStored(d, p))
    BY ListedBuilt
  <2>2. ListedAnswers(View(k))' = ListedAnswers(Built(d, s, p))
    BY DEF ListedAnswers
  <2>3. InStored(d, p)' <=> InStored(d, p)
    BY DEF InStored
  <2>4. QED
    BY <2>1, <2>2, <2>3
<1>3. InStored(d, Runner(k))' <=> InStored(d, p)'
  BY DEF InStored
<1>4. ~View(k)'.window => ~Finished(k, d)'
  BY <1>1, <1>2, <1>3 DEF Finished
<1>5. QED
  BY <1>1, <1>2, <1>4 DEF Tallies

LEMMA BeginLists ==
    ASSUME Types, CurrentInv, ListInv, NEW m \in MsgIds, Begin(m)
    PROVE  ListInv'
<1>. DEFINE e1 == Status(dialog[m], "thinking")
            e2 == Built(dialog[m], "thinking", m)
<1>1. PICK b \in Dialogs : b = dialog[m]
  <2>1. bus # <<>> /\ Head(bus).msg = m
    BY DEF Begin, Consume
  <2>2. QED
    BY <2>1, TakenTypes DEF Types
<1>2. /\ Broadcast(<<e1, e2>>) /\ UNCHANGED <<stored, snapshot, missed>>
      /\ placeholder'[b] = m /\ \A d \in Dialogs \ {b} : placeholder'[d] = placeholder[d]
  BY <1>1 DEF Begin, browserVars, Types, ContainerTypes
<1>3. /\ e1 \in Buffered /\ e2 \in Buffered /\ e1.type = "status" /\ e2.type = "snapshot"
      /\ e2.id = b /\ e1.to = "thinking" /\ e2.stream = m /\ e2 = Built(b, "thinking", m)
  <2>1. "thinking" \in Shown
    BY DEF Shown
  <2>2. e1 \in StatusEvents /\ e1.type = "status" /\ e1.to = "thinking"
    <3>1. Status(b, "thinking") \in StatusEvents
      BY <2>1, EventTypes
    <3>2. QED
      BY <1>1, <3>1 DEF Status
  <2>3. e2 = Built(b, "thinking", m)
    BY <1>1
  <2>4. Built(b, "thinking", m) \in Snapshots(MsgIds \cup {None})
    BY <2>1, EventTypes
  <2>5. /\ Built(b, "thinking", m).type = "snapshot" /\ Built(b, "thinking", m).id = b
        /\ Built(b, "thinking", m).stream = m
    BY ListedBuilt
  <2>. HIDE DEF e1, e2
  <2>6. QED
    BY <2>2, <2>3, <2>4, <2>5 DEF Buffered
<1>4. Down
  BY DEF CurrentInv
<1>. HIDE DEF e1, e2
<1>5. PICK r \in Seq(Buffered) :
         /\ r = <<e1, e2>> /\ DOMAIN r = {1, 2} /\ r[1] = e1 /\ r[2] = e2 /\ Len(r) = 2
  <2>1. /\ <<e1, e2>> \in Seq(Buffered) /\ DOMAIN <<e1, e2>> = {1, 2} /\ <<e1, e2>>[1] = e1
        /\ <<e1, e2>>[2] = e2 /\ Len(<<e1, e2>>) = 2
    BY <1>3
  <2>2. QED
    BY <2>1
<1>6. SUFFICES ASSUME NEW k \in Places', NEW d \in Dialogs, Held(k)', View(k)'.id = d,
                      Fresh(k, d)'
               PROVE  Tallies(k, d)'
  BY DEF ListInv
<1>7. buffer' = buffer \o r /\ UNCHANGED <<wire, snapshot, missed>>
  BY <1>2, <1>4, <1>5, <1>6, BroadcastPlaces
<1>8. CASE /\ k \in Places /\ Tallies(k, d) /\ View(k)' = View(k) /\ Runner(k)' = Runner(k)
           /\ \A i \in DOMAIN r : ~(r[i].type = "snapshot" /\ r[i].id = d)
           /\ Flushed(k, d)' <=>
                \/ Flushed(k, d)
                \/ \E i \in DOMAIN r : /\ r[i].type = "status" /\ r[i].id = d
                                       /\ r[i].to \in {"completed", "idle"}
  <2>1. d # b
    BY <1>3, <1>5, <1>8
  <2>2. Flushed(k, d)' <=> Flushed(k, d)
    BY <1>3, <1>5, <1>8
  <2>3. QED
    BY <1>2, <1>8, <2>1, <2>2, TalliesSame
<1>9. CASE \E i \in DOMAIN r :
             /\ r[i].type = "snapshot" /\ View(k)' = r[i] /\ Runner(k)' = r[i].stream
             /\ i = Len(r) => \A j \in DOMAIN Coming' : ~(j > k)
  <2>1. /\ View(k)' = Built(b, "thinking", m) /\ Runner(k)' = m /\ d = b
        /\ \A j \in DOMAIN Coming' : ~(j > k)
    BY <1>3, <1>5, <1>6, <1>9
  <2>2. QED
    BY <1>2, <2>1, BuiltTallies
<1>10. QED
  BY <1>6, <1>7, <1>8, <1>9, ListsGrow

LEMMA ServeLists ==
    ASSUME Types, CurrentInv, ListInv, Serve
    PROVE  ListInv'
<1>. DEFINE e == Built(Head(uplink), display[Head(uplink)], placeholder[Head(uplink)])
<1>1. /\ uplink # <<>> /\ buffer' = Append(buffer, e)
      /\ UNCHANGED <<stored, placeholder, wire, snapshot, missed>>
  BY DEF Serve, turnVars, containerVars, browserVars
<1>2. PICK b \in Dialogs : b = Head(uplink)
  BY <1>1 DEF Types, ViewTypes
<1>3. PICK s \in Shown : s = display[b]
  BY <1>2 DEF Types, ContainerTypes, Shown
<1>4. PICK p \in MsgIds \cup {None} : p = placeholder[b]
  BY <1>2 DEF Types, ContainerTypes
<1>5. /\ e = Built(b, s, p) /\ e \in Buffered /\ e.type = "snapshot" /\ e.id = b
      /\ e.stream = p
  <2>1. e = Built(b, s, p)
    BY <1>2, <1>3, <1>4
  <2>2. Built(b, s, p) \in Snapshots(MsgIds \cup {None})
    BY EventTypes
  <2>3. /\ Built(b, s, p).type = "snapshot" /\ Built(b, s, p).id = b
        /\ Built(b, s, p).stream = p
    BY ListedBuilt
  <2>4. QED
    BY <2>1, <2>2, <2>3 DEF Buffered
<1>. HIDE DEF e
<1>6. PICK r \in Seq(Buffered) : buffer' = buffer \o r /\ DOMAIN r = {1} /\ r[1] = e /\ Len(r) = 1
  <2>1. buffer \in Seq(Buffered)
    BY DEF Types, ViewTypes
  <2>2. \E r \in Seq(Buffered) : /\ r = <<e>> /\ Append(buffer, e) = buffer \o r
                                 /\ DOMAIN r = {1} /\ r[1] = e /\ Len(r) = 1 /\ r # <<>>
    BY <1>5, <2>1, TailOfOne
  <2>3. QED
    BY <1>1, <2>2
<1>7. SUFFICES ASSUME NEW k \in Places', NEW d \in Dialogs, Held(k)', View(k)'.id = d,
                      Fresh(k, d)'
               PROVE  Tallies(k, d)'
  BY DEF ListInv
<1>8. CASE /\ k \in Places /\ Tallies(k, d) /\ View(k)' = View(k) /\ Runner(k)' = Runner(k)
           /\ Flushed(k, d)' <=>
                \/ Flushed(k, d)
                \/ \E i \in DOMAIN r : /\ r[i].type = "status" /\ r[i].id = d
                                       /\ r[i].to \in {"completed", "idle"}
  <2>1. Flushed(k, d)' <=> Flushed(k, d)
    BY <1>5, <1>6, <1>8
  <2>2. QED
    BY <1>1, <1>8, <2>1, TalliesSame
<1>9. CASE \E i \in DOMAIN r :
             /\ r[i].type = "snapshot" /\ View(k)' = r[i] /\ Runner(k)' = r[i].stream
             /\ i = Len(r) => \A j \in DOMAIN Coming' : ~(j > k)
  <2>1. /\ View(k)' = Built(b, s, p) /\ Runner(k)' = p /\ d = b
        /\ \A j \in DOMAIN Coming' : ~(j > k)
    BY <1>5, <1>6, <1>7, <1>9
  <2>2. placeholder'[b] = p
    BY <1>1, <1>4
  <2>3. QED
    BY <1>1, <2>1, <2>2, BuiltTallies
<1>10. QED
  BY <1>1, <1>6, <1>7, <1>8, <1>9, ListsGrow

LEMMA TwoEvents ==
    ASSUME NEW S, NEW e1 \in S, NEW e2 \in S
    PROVE  \E r \in Seq(S) :
             r = <<e1, e2>> /\ DOMAIN r = {1, 2} /\ r[1] = e1 /\ r[2] = e2 /\ Len(r) = 2
<1>1. /\ <<e1, e2>> \in Seq(S) /\ DOMAIN <<e1, e2>> = {1, 2} /\ <<e1, e2>>[1] = e1
      /\ <<e1, e2>>[2] = e2 /\ Len(<<e1, e2>>) = 2
  OBVIOUS
<1>2. QED
  BY <1>1

\* The places there are when the buffer has got events of dialog b and no snapshot.
LEMMA ListsTold ==
    ASSUME Types, CurrentInv, ListInv, NEW b \in Dialogs, NEW r \in Seq(Buffered), Broadcast(r),
           UNCHANGED <<stored, snapshot, missed>>,
           \A i \in DOMAIN r : r[i].type # "snapshot" /\ r[i].id = b,
           \A d \in Dialogs \ {b} : placeholder'[d] = placeholder[d],
           \A k \in Places : Held(k) /\ View(k).id = b /\ Tallies(k, b)
              /\ View(k)' = View(k) /\ Runner(k)' = Runner(k)
              /\ (Flushed(k, b)' <=>
                    \/ Flushed(k, b)
                    \/ \E i \in DOMAIN r : r[i].type = "status" /\ r[i].to \in {"completed", "idle"})
              => Tallies(k, b)'
    PROVE  ListInv'
<1>1. SUFFICES ASSUME NEW k \in Places', NEW d \in Dialogs, Held(k)', View(k)'.id = d,
                      Fresh(k, d)'
               PROVE  Tallies(k, d)'
  BY DEF ListInv
<1>2. buffer' = buffer \o r /\ UNCHANGED <<wire, snapshot, missed>>
  BY <1>1, BroadcastPlaces DEF CurrentInv
<1>3. /\ k \in Places /\ Tallies(k, d) /\ Held(k) /\ View(k).id = d
      /\ View(k)' = View(k) /\ Runner(k)' = Runner(k)
      /\ Flushed(k, d)' <=>
           \/ Flushed(k, d)
           \/ \E i \in DOMAIN r : /\ r[i].type = "status" /\ r[i].id = d
                                  /\ r[i].to \in {"completed", "idle"}
  BY <1>1, <1>2, ListsGrow
<1>4. CASE d = b
  <2>1. (\E i \in DOMAIN r : /\ r[i].type = "status" /\ r[i].id = d
                             /\ r[i].to \in {"completed", "idle"})
          <=> \E i \in DOMAIN r : r[i].type = "status" /\ r[i].to \in {"completed", "idle"}
    BY <1>4
  <2>2. QED
    BY <1>3, <1>4, <2>1
<1>5. CASE d # b
  <2>1. Flushed(k, d)' <=> Flushed(k, d)
    BY <1>3, <1>5
  <2>2. QED
    BY <1>3, <1>5, <2>1, TalliesSame
<1>6. QED
  BY <1>4, <1>5

LEMMA CompleteLists ==
    ASSUME Types, CurrentInv, TurnsInv, ListInv, NEW m \in MsgIds, HandleComplete(m)
    PROVE  ListInv'
<1>. DEFINE e1 == Status(dialog[m], "completed")
            e2 == Status(dialog[m], "idle")
<1>1. PICK b \in Dialogs : b = dialog[m]
  <2>1. bus # <<>> /\ Head(bus).msg = m
    BY DEF HandleComplete, Consume
  <2>2. QED
    BY <2>1, TakenTypes DEF Types
<1>2. /\ Broadcast(<<e1, e2>>) /\ UNCHANGED <<stored, snapshot, missed>>
      /\ placeholder'[b] = None /\ \A d \in Dialogs \ {b} : placeholder'[d] = placeholder[d]
  BY <1>1 DEF HandleComplete, browserVars, turnVars, Types, ContainerTypes
<1>3. placeholder[b] = m /\ InStored(b, m) /\ m # None
  BY <1>1, FinishTurns, DialogViewAssumption DEF Runs, Kept, InStored
<1>4. /\ e1 \in Buffered /\ e2 \in Buffered /\ e1.id = b /\ e2.id = b
      /\ e1.type = "status" /\ e2.type = "status" /\ e1.to = "completed" /\ e2.to = "idle"
  <2>1. Status(b, "completed") \in Buffered /\ Status(b, "idle") \in Buffered
    BY EventTypes DEF Buffered, Shown
  <2>2. QED
    BY <1>1, <2>1 DEF Status
<1>. HIDE DEF e1, e2
<1>5. PICK r \in Seq(Buffered) :
         r = <<e1, e2>> /\ DOMAIN r = {1, 2} /\ r[1] = e1 /\ r[2] = e2 /\ Len(r) = 2
  BY <1>4, TwoEvents
<1>6. ASSUME NEW k \in Places, Tallies(k, b), View(k)' = View(k), Runner(k)' = Runner(k),
             Flushed(k, b)' <=>
               \/ Flushed(k, b)
               \/ \E i \in DOMAIN r : r[i].type = "status" /\ r[i].to \in {"completed", "idle"}
      PROVE  Tallies(k, b)'
  <2>1. Flushed(k, b)'
    BY <1>4, <1>5, <1>6
  <2>2. Runner(k) = m /\ Finished(k, b)
    BY <1>3, <1>6 DEF Tallies, Finished
  <2>3. Finished(k, b)'
    BY <1>2, <1>3, <1>6, <2>1, <2>2 DEF Finished
  <2>4. ListedAnswers(View(k))' = ListedAnswers(View(k))
    BY <1>6 DEF ListedAnswers
  <2>5. QED
    BY <1>2, <1>6, <2>2, <2>3, <2>4 DEF Tallies
<1>7. Broadcast(r) /\ \A i \in DOMAIN r : r[i].type # "snapshot" /\ r[i].id = b
  <2>1. Broadcast(r)
    BY <1>2, <1>5
  <2>2. QED
    BY <1>4, <1>5, <2>1
<1>8. /\ UNCHANGED <<stored, snapshot, missed>>
      /\ \A d \in Dialogs \ {b} : placeholder'[d] = placeholder[d]
  BY <1>2
<1>9. QED
  BY <1>6, <1>7, <1>8, ListsTold

LEMMA ErrorLists ==
    ASSUME Types, CurrentInv, TurnsInv, ListInv, NEW m \in MsgIds, HandleError(m)
    PROVE  ListInv'
<1>. DEFINE e1 == Error(dialog[m])
            e2 == Status(dialog[m], "error")
<1>1. PICK b \in Dialogs : b = dialog[m]
  <2>1. bus # <<>> /\ Head(bus).msg = m
    BY DEF HandleError, Consume
  <2>2. QED
    BY <2>1, TakenTypes DEF Types
<1>2. /\ Broadcast(<<e1, e2>>) /\ UNCHANGED <<stored, snapshot, missed>>
      /\ placeholder'[b] = None /\ \A d \in Dialogs \ {b} : placeholder'[d] = placeholder[d]
  BY <1>1 DEF HandleError, browserVars, turnVars, Types, ContainerTypes
<1>3. placeholder[b] # None => ~InStored(b, placeholder[b])
  <2>1. ASSUME NEW n \in MsgIds, placeholder[b] = n PROVE ~InStored(b, n)
    <3>1. ~Kept(n)
      BY <1>1, <2>1, FinishTurns
    <3>2. dialog[n] = b
      BY <2>1 DEF TurnsInv, Placed
    <3>3. QED
      BY <3>1, <3>2 DEF Kept, InStored
  <2>2. placeholder[b] \in MsgIds \cup {None}
    BY DEF Types, ContainerTypes
  <2>3. QED
    BY <2>1, <2>2
<1>4. /\ e1 \in Buffered /\ e2 \in Buffered /\ e1.id = b /\ e2.id = b
      /\ e1.type = "error" /\ e2.type = "status" /\ e2.to = "error"
  <2>1. Error(b) \in Buffered /\ Status(b, "error") \in Buffered
    BY EventTypes DEF Buffered, Shown
  <2>2. QED
    BY <1>1, <2>1 DEF Status, Error
<1>. HIDE DEF e1, e2
<1>5. PICK r \in Seq(Buffered) :
         r = <<e1, e2>> /\ DOMAIN r = {1, 2} /\ r[1] = e1 /\ r[2] = e2 /\ Len(r) = 2
  BY <1>4, TwoEvents
<1>6. ASSUME NEW k \in Places, Tallies(k, b), View(k)' = View(k), Runner(k)' = Runner(k),
             Flushed(k, b)' <=>
               \/ Flushed(k, b)
               \/ \E i \in DOMAIN r : r[i].type = "status" /\ r[i].to \in {"completed", "idle"}
      PROVE  Tallies(k, b)'
  <2>1. Flushed(k, b)' <=> Flushed(k, b)
    BY <1>4, <1>5, <1>6
  <2>2. Finished(k, b)' <=> Finished(k, b)
    <3>1. CASE placeholder[b] = None
      BY <1>2, <1>6, <2>1, <3>1 DEF Finished
    <3>2. CASE placeholder[b] # None
      <4>1. Runner(k) = placeholder[b] /\ ~Flushed(k, b)
        BY <1>6, <3>2 DEF Tallies
      <4>2. ~Finished(k, b)
        BY <1>3, <3>2, <4>1 DEF Finished
      <4>3. ~Finished(k, b)'
        BY <1>2, <2>1, <4>1 DEF Finished
      <4>4. QED
        BY <4>2, <4>3
    <3>3. QED
      BY <3>1, <3>2
  <2>3. ListedAnswers(View(k))' = ListedAnswers(View(k))
    BY <1>6 DEF ListedAnswers
  <2>4. QED
    BY <1>2, <1>6, <2>2, <2>3 DEF Tallies
<1>7. Broadcast(r) /\ \A i \in DOMAIN r : r[i].type # "snapshot" /\ r[i].id = b
  <2>1. Broadcast(r)
    BY <1>2, <1>5
  <2>2. QED
    BY <1>4, <1>5, <2>1
<1>8. /\ UNCHANGED <<stored, snapshot, missed>>
      /\ \A d \in Dialogs \ {b} : placeholder'[d] = placeholder[d]
  BY <1>2
<1>9. QED
  BY <1>6, <1>7, <1>8, ListsTold

LEMMA ProgressLists ==
    ASSUME Types, CurrentInv, ListInv, NEW m \in MsgIds, HandleProgress(m)
    PROVE  ListInv'
<1>. DEFINE e == Delta(m, Head(bus).delta, numbers[dialog[m]] + 1)
<1>1. PICK b \in Dialogs : b = dialog[m] /\ Head(bus) \in BusEvents
  <2>1. bus # <<>> /\ Head(bus).msg = m
    BY DEF HandleProgress
  <2>2. QED
    BY <2>1, TakenTypes DEF Types
<1>2. Broadcast(<<e>>) /\ UNCHANGED <<stored, placeholder, snapshot, missed>>
  BY DEF HandleProgress, browserVars, turnVars
<1>3. e \in Buffered /\ e.id = b /\ e.type = "delta"
  <2>1. Head(bus).kind = "progress"
    BY DEF HandleProgress
  <2>2. Head(bus).delta \in Chunks /\ numbers[b] + 1 \in Nat
    BY <1>1, <2>1 DEF BusEvents, Types, ContainerTypes
  <2>3. QED
    BY <1>1, <2>2, EventTypes DEF Buffered, Delta
<1>. HIDE DEF e
<1>4. PICK r \in Seq(Buffered) : r = <<e>> /\ DOMAIN r = {1} /\ r[1] = e
  <2>1. <<e>> \in Seq(Buffered) /\ DOMAIN <<e>> = {1} /\ <<e>>[1] = e
    BY <1>3
  <2>2. QED
    BY <2>1
<1>5. ASSUME NEW k \in Places, Tallies(k, b), View(k)' = View(k), Runner(k)' = Runner(k),
             Flushed(k, b)' <=>
               \/ Flushed(k, b)
               \/ \E i \in DOMAIN r : r[i].type = "status" /\ r[i].to \in {"completed", "idle"}
      PROVE  Tallies(k, b)'
  <2>1. Flushed(k, b)' <=> Flushed(k, b)
    BY <1>3, <1>4, <1>5
  <2>2. QED
    BY <1>2, <1>5, <2>1, TalliesSame
<1>6. QED
  BY <1>2, <1>3, <1>4, <1>5, ListsTold

LEMMA Still ==
    ASSUME UNCHANGED <<wire, buffer, snapshot, missed>>
    PROVE  /\ Coming' = Coming /\ Places' = Places
           /\ \A k : Held(k)' <=> Held(k)
           /\ \A k : View(k)' = View(k) /\ Runner(k)' = Runner(k)
           /\ \A k, d : (Fresh(k, d)' <=> Fresh(k, d)) /\ (Flushed(k, d)' <=> Flushed(k, d))
<1>1. Coming' = Coming
  BY DEF Coming
<1>2. Places' = Places
  BY <1>1 DEF Places
<1>3. \A k : View(k)' = View(k)
  BY <1>1 DEF View
<1>4. \A k : (Held(k)' <=> Held(k)) /\ Runner(k)' = Runner(k)
  BY <1>1, <1>3 DEF Held, Runner
<1>5. \A k, d : (Fresh(k, d)' <=> Fresh(k, d)) /\ (Flushed(k, d)' <=> Flushed(k, d))
  BY <1>1 DEF Fresh, Flushed, IsSnapshot, IsFlush
<1>6. QED
  BY <1>1, <1>2, <1>3, <1>4, <1>5

LEMMA StillLists ==
    ASSUME ListInv, UNCHANGED <<wire, buffer, snapshot, missed, stored, placeholder>>
    PROVE  ListInv'
<1>1. SUFFICES ASSUME NEW k \in Places', NEW d \in Dialogs, Held(k)', View(k)'.id = d,
                      Fresh(k, d)'
               PROVE  Tallies(k, d)'
  BY DEF ListInv
<1>2. k \in Places /\ View(k)' = View(k) /\ Tallies(k, d) /\ Runner(k)' = Runner(k)
      /\ (Flushed(k, d)' <=> Flushed(k, d))
  BY <1>1, Still DEF ListInv
<1>3. QED
  BY <1>2, TalliesSame

LEMMA StoreLists ==
    ASSUME Types, StoredOnce, TurnsInv, ListInv, NEW m \in MsgIds,
           EndStream(m) \/ FailStream(m)
    PROVE  ListInv'
<1>1. PICK b \in Dialogs : b = dialog[m] /\ pc[m] = "streaming"
  BY DEF EndStream, FailStream, Types, TurnTypes
<1>2. /\ UNCHANGED <<wire, buffer, snapshot, missed, placeholder>>
      /\ \A d \in Dialogs \ {b} : stored'[d] = stored[d]
      /\ stored'[b] = Append(stored[b], m) \/ stored'[b] = stored[b]
  BY <1>1 DEF EndStream, FailStream, socketVars, browserVars, containerVars, Types, TurnTypes
<1>3. /\ placeholder[b] = m /\ m # None /\ ~InStored(b, m)
      /\ stored[b] \in Seq(MsgIds)
  <2>1. ~InStored(b, m)
    BY <1>1 DEF StoredOnce, InStored
  <2>2. QED
    BY <1>1, <2>1, DialogViewAssumption DEF TurnsInv, Streaming, Runs, Types, TurnTypes
<1>4. SUFFICES ASSUME NEW k \in Places', NEW d \in Dialogs, Held(k)', View(k)'.id = d,
                      Fresh(k, d)'
               PROVE  Tallies(k, d)'
  BY DEF ListInv
<1>5. k \in Places /\ View(k)' = View(k) /\ Tallies(k, d) /\ Runner(k)' = Runner(k)
      /\ (Flushed(k, d)' <=> Flushed(k, d))
  BY <1>2, <1>4, Still DEF ListInv
<1>6. CASE d # b \/ stored'[b] = stored[b]
  <2>1. stored'[d] = stored[d] /\ placeholder'[d] = placeholder[d]
    BY <1>2, <1>6
  <2>2. QED
    BY <1>5, <2>1, TalliesSame
<1>7. CASE d = b /\ stored'[b] = Append(stored[b], m)
  <2>1. Runner(k) = m /\ ~Flushed(k, b) /\ ~Finished(k, b)
    BY <1>3, <1>5, <1>7 DEF Tallies, Finished
  <2>2. InStored(b, m)'
    <3>1. PICK q : q = stored[b]
      OBVIOUS
    <3>2. q \in Seq(MsgIds) /\ stored'[b] = Append(q, m)
      BY <1>3, <1>7, <3>1
    <3>3. \E i \in DOMAIN Append(q, m) : Append(q, m)[i] = m
      <4>1. Len(q) + 1 \in DOMAIN Append(q, m) /\ Append(q, m)[Len(q) + 1] = m
        BY <3>2
      <4>2. QED
        BY <4>1
    <3>4. QED
      BY <3>2, <3>3 DEF InStored
  <2>3. Finished(k, b)'
    BY <1>2, <1>3, <1>5, <2>1, <2>2 DEF Finished, InStored
  <2>4. ListedAnswers(View(k))' = ListedAnswers(View(k))
    BY <1>5 DEF ListedAnswers
  <2>5. QED
    BY <1>2, <1>3, <1>5, <1>7, <2>1, <2>3, <2>4 DEF Tallies
<1>8. QED
  BY <1>2, <1>6, <1>7

LEMMA SendLists ==
    ASSUME Types, ListInv, Send
    PROVE  ListInv'
<1>1. SUFFICES ASSUME NEW k \in Places', NEW d \in Dialogs, Held(k)', View(k)'.id = d,
                      Fresh(k, d)'
               PROVE  Tallies(k, d)'
  BY DEF ListInv
<1>2. /\ k \in Places /\ Held(k) /\ View(k).id = d /\ Fresh(k, d)
      /\ View(k)'.messages = View(k).messages /\ View(k)'.window = View(k).window
      /\ Runner(k)' = Runner(k) /\ (Flushed(k, d)' <=> Flushed(k, d))
  BY <1>1, PlacesMove
<1>3. Tallies(k, d) /\ UNCHANGED <<stored, placeholder>>
  BY <1>2 DEF ListInv, Send, turnVars, containerVars
<1>4. QED
  BY <1>2, <1>3, TalliesSame

\* A completion that arrives: the answer the list lacked is appended.
LEMMA FlushTallies ==
    ASSUME Types, ScreenSingle, NEW d \in Dialogs, Held(0), snapshot.id = d, Tallies(0, d),
           UNCHANGED <<stored, placeholder>>, Flushed(0, d), Held(0)', Runner(0)' = None,
           snapshot'.window = snapshot.window, Added(snapshot'.messages, snapshot.stream)
    PROVE  Tallies(0, d)'
<1>1. /\ snapshot # None /\ snapshot \in Snapshots(Streams \cup {None}) /\ View(0) = snapshot
      /\ View(0)' = snapshot'
  BY DEF Held, Types, ViewTypes, View
<1>2. /\ Runner(0) = Answer(snapshot.stream)
      /\ snapshot.messages \in Seq(Entries)
      /\ snapshot.stream # None => Runner(0) = snapshot.stream.msg /\ Runner(0) # None
                                   /\ snapshot.stream.msg \in MsgIds
      /\ snapshot.stream = None => Runner(0) = None
  <2>1. Len(wire) \in Nat /\ 0 \in Places
    BY WayTypes DEF Types, Places
  <2>2. 0 <= Len(wire)
    BY <2>1
  <2>3. QED
    BY <1>1, <2>1, <2>2, PlaceTypes, AnswerOf
<1>3. placeholder[d] = None
  BY DEF Tallies
<1>4. ~Finished(0, d)'
  BY <1>3 DEF Finished
<1>5. Finished(0, d) <=> snapshot.stream # None
  BY <1>2, <1>3 DEF Finished
<1>6. ~snapshot.window => ListedAnswers(snapshot') = stored[d]
  <2>. SUFFICES ASSUME ~snapshot.window PROVE ListedAnswers(snapshot') = stored[d]
    OBVIOUS
  <2>1. CASE snapshot.stream = None
    <3>1. snapshot'.messages = snapshot.messages
      BY <2>1 DEF Added
    <3>2. ListedAnswers(snapshot') = ListedAnswers(snapshot)
      BY <3>1 DEF ListedAnswers
    <3>3. QED
      BY <1>1, <1>5, <2>1, <3>2 DEF Tallies
  <2>2. CASE snapshot.stream # None
    <3>1. PICK e \in Entries : e = Listed(snapshot.stream.msg, "streamed")
                               /\ e.msg = snapshot.stream.msg
      <4>1. PICK a \in MsgIds : a = snapshot.stream.msg
        BY <1>2, <2>2
      <4>2. Listed(a, "streamed") \in Entries /\ Listed(a, "streamed").msg = a
        BY DEF Listed, Entries
      <4>3. QED
        BY <4>1, <4>2
    <3>2. \A i \in DOMAIN snapshot.messages : snapshot.messages[i].msg # e.msg
      <4>1. Single(snapshot, Answer(snapshot.stream))
        BY <1>1 DEF ScreenSingle
      <4>2. QED
        BY <1>2, <2>2, <3>1, <4>1 DEF Single
    <3>3. snapshot'.messages = Append(snapshot.messages, e)
      BY <2>2, <3>1, <3>2 DEF Added
    <3>4. ListedAnswers(snapshot') = Append(ListedAnswers(snapshot), e.msg)
      <4>1. PICK list \in Seq(Entries) : list = snapshot.messages
        BY <1>2
      <4>2. snapshot'.messages = Append(list, e)
        BY <3>3, <4>1
      <4>3. QED
        BY <4>1, <4>2, ListedAppend
    <3>5. QED
      BY <1>1, <1>2, <1>5, <2>2, <3>1, <3>4 DEF Tallies
  <2>3. QED
    BY <2>1, <2>2
<1>7. QED
  BY <1>1, <1>3, <1>4, <1>6 DEF Tallies

LEMMA ReceiveLists ==
    ASSUME Types, ScreenSingle, ListInv, Receive
    PROVE  ListInv'
<1>1. SUFFICES ASSUME NEW k \in Places', NEW d \in Dialogs, Held(k)', View(k)'.id = d,
                      Fresh(k, d)'
               PROVE  Tallies(k, d)'
  BY DEF ListInv
<1>2. UNCHANGED <<stored, placeholder>>
  BY DEF Receive, turnVars, containerVars
<1>3. CASE k # 0
  <2>1. /\ k + 1 \in Places /\ Held(k + 1) /\ View(k)' = View(k + 1) /\ Fresh(k + 1, d)
        /\ Runner(k)' = Runner(k + 1) /\ (Flushed(k, d)' <=> Flushed(k + 1, d))
    BY <1>1, <1>3, PlacesShrink
  <2>2. PICK j \in Places : j = k + 1
    BY <2>1
  <2>3. Tallies(j, d)
    BY <1>1, <2>1, <2>2 DEF ListInv
  <2>4. QED
    BY <1>2, <2>1, <2>2, <2>3, TalliesSame
<1>4. CASE k = 0
  <2>1. /\ 1 \in Places /\ 0 \in Places /\ Fresh(1, d) /\ (Flushed(0, d)' <=> Flushed(1, d))
        /\ Fresh(0, d) <=> Fresh(1, d) /\ ~IsSnapshot(1, d)
        /\ Flushed(0, d) <=> Flushed(1, d) \/ IsFlush(1, d)
    BY <1>1, <1>4, PlacesShrink
  <2>2. CASE Held(1) /\ View(0)' = View(1) /\ Runner(0)' = Runner(1)
    <3>1. Tallies(1, d)
      BY <1>1, <1>4, <2>1, <2>2 DEF ListInv
    <3>2. QED
      BY <1>2, <1>4, <2>1, <2>2, <3>1, TalliesSame
  <2>3. CASE /\ Held(0) /\ ~IsSnapshot(1, snapshot.id)
             /\ snapshot'.id = snapshot.id /\ snapshot'.window = snapshot.window
             /\ \/ /\ ~IsFlush(1, snapshot.id) /\ snapshot'.messages = snapshot.messages
                   /\ Answer(snapshot'.stream) = Answer(snapshot.stream)
                \/ /\ IsFlush(1, snapshot.id) /\ snapshot'.stream = None
                   /\ Added(snapshot'.messages, snapshot.stream)
    <3>1. /\ View(0) = snapshot /\ View(0)' = snapshot' /\ snapshot.id = d
          /\ Runner(0) = Answer(snapshot.stream) /\ Runner(0)' = Answer(snapshot'.stream)
      <4>1. Len(wire) \in Nat /\ Len(wire)' \in Nat
        BY WayShrinks
      <4>2. ~(0 > Len(wire)) /\ ~(0 > Len(wire)')
        BY <4>1
      <4>3. QED
        BY <1>1, <1>4, <2>3, <4>2 DEF View, Runner
    <3>2. Tallies(0, d)
      BY <2>1, <2>3, <3>1 DEF ListInv
    <3>3. CASE /\ ~IsFlush(1, d) /\ snapshot'.messages = snapshot.messages
               /\ Answer(snapshot'.stream) = Answer(snapshot.stream)
      BY <1>2, <1>4, <2>1, <2>3, <3>1, <3>2, <3>3, TalliesSame
    <3>4. CASE /\ IsFlush(1, d) /\ snapshot'.stream = None
               /\ Added(snapshot'.messages, snapshot.stream)
      BY <1>1, <1>2, <1>4, <2>1, <2>3, <3>1, <3>2, <3>4, FlushTallies, AnswerOf
    <3>5. QED
      BY <2>3, <3>1, <3>3, <3>4
  <2>4. QED
    BY <1>1, <1>4, <2>2, <2>3, Arrives
<1>5. QED
  BY <1>3, <1>4

LEMMA InitLists == Init => ListInv
<1>. SUFFICES ASSUME Init PROVE ListInv
  OBVIOUS
<1>1. Coming = <<>> /\ snapshot = None
  BY DEF Init, Coming
<1>2. \A k : ~Held(k)
  BY <1>1 DEF Held
<1>3. QED
  BY <1>2 DEF ListInv

\* Nothing is held when the screen is cleared, but what is on the way.
LEMMA NextLists ==
    Types /\ CurrentInv /\ SingleInv /\ TurnsInv /\ ListInv /\ [Next]_vars => ListInv'
<1>. SUFFICES ASSUME Types, CurrentInv, SingleInv, TurnsInv, ListInv, [Next]_vars
              PROVE  ListInv'
  OBVIOUS
<1>1. ASSUME NEW d \in Dialogs, NewChat(d) PROVE ListInv'
  BY <1>1, StillLists DEF NewChat, Subscribe, turnVars, containerVars
<1>2. ASSUME NEW b \in Dialogs, SelectDialog(b) PROVE ListInv'
  <2>1. /\ snapshot' = None
        /\ UNCHANGED <<wire, buffer, missed, stored, placeholder>>
    BY <1>2 DEF SelectDialog, Subscribe, turnVars, containerVars
  <2>2. SUFFICES ASSUME NEW k \in Places', NEW d \in Dialogs, Held(k)', View(k)'.id = d,
                        Fresh(k, d)'
                 PROVE  Tallies(k, d)'
    BY DEF ListInv
  <2>3. k # 0
    BY <2>1, <2>2 DEF Held
  <2>4. Coming' = Coming
    BY <2>1 DEF Coming
  <2>5. /\ k \in Places /\ View(k)' = View(k) /\ Held(k) /\ Runner(k)' = Runner(k)
        /\ Fresh(k, d) /\ (Flushed(k, d)' <=> Flushed(k, d))
    BY <2>1, <2>2, <2>3, <2>4 DEF Places, View, Held, Runner, Fresh, Flushed, IsSnapshot, IsFlush
  <2>6. Tallies(k, d)
    BY <2>2, <2>5 DEF ListInv
  <2>7. QED
    BY <2>1, <2>5, <2>6, TalliesSame
<1>3. ASSUME NEW m \in MsgIds, Post(m) \/ Chunk(m) PROVE ListInv'
  BY <1>3, StillLists DEF Post, Chunk, containerVars, socketVars, browserVars
<1>4. ASSUME NEW m \in MsgIds, EndStream(m) \/ FailStream(m) PROVE ListInv'
  BY <1>4, StoreLists DEF SingleInv
<1>5. CASE Break
  <2>1. missed' /\ Coming' = <<>>
    BY <1>5 DEF Break, Coming
  <2>2. \A k : ~Held(k)'
    BY <2>1 DEF Held
  <2>3. QED
    BY <2>2 DEF ListInv
<1>6. CASE Reconnect \/ UNCHANGED vars
  BY <1>6, StillLists DEF Reconnect, vars, turnVars, containerVars, socketVars, browserVars
<1>7. ScreenSingle
  BY DEF SingleInv
<1>8. QED
  BY <1>1, <1>2, <1>3, <1>4, <1>5, <1>6, <1>7, BeginLists, ServeLists, ProgressLists,
     CompleteLists, ErrorLists, SendLists, ReceiveLists
     DEF Next, User, System, Turn, Handle

\* When the turns of the dialog on the screen are over and everything has
\* arrived, the screen lists the answers the session has stored, in order,
\* whatever the browser missed, joined late or asked for twice on the way.
THEOREM StoredIsShown == Spec => []ShowsWhatIsStored
<1>1. Types /\ TurnsInv /\ ListInv => ShowsWhatIsStored
  <2>. SUFFICES ASSUME Types, TurnsInv, ListInv, snapshot # None, ~snapshot.window,
                       Settled(snapshot.id), display[snapshot.id] # "thinking"
                PROVE  ListedAnswers(snapshot) = stored[snapshot.id]
    BY DEF ShowsWhatIsStored
  <2>1. 0 \in Places /\ View(0) = snapshot /\ Held(0)
    BY WayTypes DEF Types, Places, View, Held, Settled
  <2>2. PICK d \in Dialogs : d = snapshot.id
    BY <2>1, PlaceTypes
  <2>3. Fresh(0, d) /\ ~Flushed(0, d)
    BY <2>2 DEF Settled, Fresh, Flushed, IsSnapshot, IsFlush
  <2>4. placeholder[d] = None
    <3>1. placeholder[d] \in MsgIds \cup {None}
      BY DEF Types, ContainerTypes
    <3>2. QED
      BY <2>2, <3>1 DEF TurnsInv, Placed
  <2>5. Tallies(0, d) /\ ~Finished(0, d)
    BY <2>1, <2>2, <2>3, <2>4 DEF ListInv, Finished
  <2>6. QED
    BY <2>1, <2>2, <2>5 DEF Tallies
<1>2. SingleInv => StoredOnce
  BY DEF SingleInv
<1>3. QED
  BY <1>1, <1>2, InitTypes, NextTypes, InitCurrent, NextCurrent, InitSingle, NextSingle,
     InitTurns, NextTurns, InitLists, NextLists, PTL DEF Spec
-----------------------------------------------------------------------------
(***************************************************************************)
(* The deltas on their way.  Each has a chunk that was handled, a number   *)
(* that was given and that the browser has not seen; the deltas of one     *)
(* answer have growing numbers and growing chunks.                         *)
(***************************************************************************)
Told(e) ==
    /\ e.id = dialog[e.msg] /\ pc[e.msg] # "new" /\ e.sequence <= numbers[e.id]
    /\ \E n \in DOMAIN handled[e.msg] : e.chunk = <<e.msg, n>>
DeltasTold == \A j \in DOMAIN Coming : Coming[j].type = "delta" => Told(Coming[j])
DeltasOrdered ==
    \A i, j \in DOMAIN Coming :
        i < j /\ Coming[i].type = "delta" /\ Coming[j].type = "delta"
        /\ Coming[i].msg = Coming[j].msg
          => /\ Coming[i].sequence < Coming[j].sequence
             /\ Coming[i].chunk[2] < Coming[j].chunk[2]
DeltasUnseen ==
    \A j \in DOMAIN Coming :
        Coming[j].type = "delta" => <<Coming[j].msg, Coming[j].sequence>> \notin seen
SeenTold ==
    \A key \in seen : \E m \in MsgIds, n \in Nat :
        key = <<m, n>> /\ pc[m] # "new" /\ n <= numbers[dialog[m]]

DeltaInv == DeltasTold /\ DeltasOrdered /\ DeltasUnseen /\ SeenTold

\* The events on the way were on the way before, perhaps one place further.
Moved(s) ==
    \A j \in DOMAIN Coming' : Coming'[j].type = "delta" =>
        j \in Nat /\ j + s \in DOMAIN Coming /\ Coming'[j] = Coming[j + s]

LEMMA DeltaTypes ==
    ASSUME Types, NEW j \in DOMAIN Coming, Coming[j].type = "delta"
    PROVE  /\ Coming[j] \in DeltaEvents /\ Coming[j].msg \in MsgIds /\ Coming[j].id \in Dialogs
           /\ Coming[j].sequence \in Nat /\ Coming[j].chunk \in Chunks
<1>1. Coming[j] \in Shipped \cup Buffered
  BY WayTypes DEF Types
<1>2. Coming[j] \in DeltaEvents
  BY <1>1, EventKinds
<1>3. QED
  BY <1>2 DEF DeltaEvents

\* Whatever was told of a posted message stays told.
LEMMA DeltasStay ==
    ASSUME Types, DeltaInv, NEW s \in {0, 1}, Moved(s), UNCHANGED <<numbers, handled, seen>>,
           \A m \in MsgIds : pc[m] # "new" => pc'[m] # "new" /\ dialog'[m] = dialog[m]
    PROVE  DeltaInv'
<1>1. ASSUME NEW j \in DOMAIN Coming', Coming'[j].type = "delta"
      PROVE  /\ j + s \in DOMAIN Coming /\ j \in Nat /\ Coming'[j] = Coming[j + s]
             /\ Coming[j + s].msg \in MsgIds /\ Coming[j + s].type = "delta" /\ Told(Coming[j + s])
  <2>1. j + s \in DOMAIN Coming /\ j \in Nat /\ Coming'[j] = Coming[j + s]
    BY <1>1 DEF Moved
  <2>2. QED
    BY <1>1, <2>1, DeltaTypes DEF DeltaInv, DeltasTold
<1>2. ASSUME NEW e, e.msg \in MsgIds, Told(e)
      PROVE  /\ e.id = dialog'[e.msg] /\ pc'[e.msg] # "new" /\ e.sequence <= numbers'[e.id]
             /\ \E n \in DOMAIN handled'[e.msg] : e.chunk = <<e.msg, n>>
  BY <1>2 DEF Told
<1>3. DeltasTold'
  BY <1>1, <1>2 DEF DeltasTold, Told
<1>4. DeltasOrdered'
  <2>1. \A i, j \in Nat : i < j => i + s < j + s
    OBVIOUS
  <2>2. QED
    BY <1>1, <2>1 DEF DeltaInv, DeltasOrdered
<1>5. DeltasUnseen'
  BY <1>1 DEF DeltaInv, DeltasUnseen
<1>6. SeenTold'
  BY DEF DeltaInv, SeenTold
<1>7. QED
  BY <1>3, <1>4, <1>5, <1>6 DEF DeltaInv

LEMMA MovedGrows ==
    ASSUME Types, NEW r \in Seq(Buffered), buffer' = buffer \o r,
           UNCHANGED <<wire, snapshot, missed>>, \A i \in DOMAIN r : r[i].type # "delta"
    PROVE  Moved(0)
<1>1. /\ \A j \in DOMAIN Coming : Coming'[j] = Coming[j] /\ j \in DOMAIN Coming'
      /\ \A j \in DOMAIN Coming' :
           j \in DOMAIN Coming \/ \E i \in DOMAIN r : j = Len(Coming) + i /\ Coming'[j] = r[i]
      /\ DOMAIN Coming = 1..Len(Coming) /\ Len(Coming) \in Nat
  BY WayGrows
<1>2. \A j \in DOMAIN Coming : j \in Nat /\ j + 0 = j
  BY <1>1
<1>3. QED
  BY <1>1, <1>2 DEF Moved

LEMMA MovedSend == ASSUME Types, Send PROVE Moved(0)
<1>1. \A j \in DOMAIN Coming : j \in Nat /\ j + 0 = j
  BY WayTypes DEF Types
<1>2. QED
  BY <1>1, PlacesMove DEF Moved

LEMMA MovedReceive == ASSUME Types, Receive PROVE Moved(1)
  BY WayShrinks DEF Moved

LEMMA MovedNothing == ASSUME DOMAIN Coming' = {} \/ Coming' = Coming, Types PROVE Moved(0)
<1>1. \A j \in DOMAIN Coming : j \in Nat /\ j + 0 = j
  BY WayTypes DEF Types
<1>2. QED
  BY <1>1 DEF Moved

\* A broadcast of anything but deltas.
LEMMA MovedBroadcast ==
    ASSUME Types, CurrentInv, NEW events \in Seq(Buffered), Broadcast(events),
           UNCHANGED <<snapshot, missed>>, \A i \in DOMAIN events : events[i].type # "delta"
    PROVE  Moved(0)
<1>1. CASE buffer' = buffer \o events /\ UNCHANGED <<wire, snapshot, missed>>
  BY <1>1, MovedGrows
<1>2. CASE DOMAIN Coming' = {}
  BY <1>2, MovedNothing
<1>3. QED
  BY <1>1, <1>2, BroadcastPlaces DEF CurrentInv

\* The events the handlers of a turn's ends and of its beginning broadcast.
LEMMA HandlersTell ==
    ASSUME Types, NEW m \in MsgIds, Begin(m) \/ HandleComplete(m) \/ HandleError(m)
    PROVE  \E r \in Seq(Buffered) : Broadcast(r) /\ \A i \in DOMAIN r : r[i].type # "delta"
<1>1. PICK b \in Dialogs : b = dialog[m]
  <2>1. bus # <<>> /\ Head(bus).msg = m
    BY DEF Begin, HandleComplete, HandleError, Consume
  <2>2. QED
    BY <2>1, TakenTypes DEF Types
<1>3. /\ \A s \in Shown : Status(b, s) \in Buffered /\ Status(b, s).type # "delta"
      /\ Error(b) \in Buffered /\ Error(b).type # "delta"
      /\ Built(b, "thinking", m) \in Buffered /\ Built(b, "thinking", m).type # "delta"
  <2>1. \A s \in Shown : Status(b, s) \in Buffered /\ Status(b, s).type # "delta"
    BY EventTypes DEF Buffered, Status
  <2>2. Error(b) \in Buffered /\ Error(b).type # "delta"
    BY EventTypes DEF Buffered, Error
  <2>3. Built(b, "thinking", m) \in Snapshots(MsgIds \cup {None})
    BY EventTypes DEF Shown
  <2>4. Built(b, "thinking", m).type = "snapshot"
    BY ListedBuilt
  <2>5. QED
    BY <2>1, <2>2, <2>3, <2>4 DEF Buffered
<1>4. ASSUME NEW e1 \in Buffered, NEW e2 \in Buffered, e1.type # "delta", e2.type # "delta",
             Broadcast(<<e1, e2>>)
      PROVE  \E r \in Seq(Buffered) : Broadcast(r) /\ \A i \in DOMAIN r : r[i].type # "delta"
  <2>1. PICK r \in Seq(Buffered) :
          r = <<e1, e2>> /\ DOMAIN r = {1, 2} /\ r[1] = e1 /\ r[2] = e2 /\ Len(r) = 2
    BY TwoEvents
  <2>2. Broadcast(r)
    BY <1>4, <2>1
  <2>3. \A i \in DOMAIN r : r[i].type # "delta"
    BY <1>4, <2>1
  <2>4. QED
    BY <2>2, <2>3
<1>5. CASE Begin(m)
  <2>1. Broadcast(<<Status(b, "thinking"), Built(b, "thinking", m)>>)
    BY <1>1, <1>5 DEF Begin
  <2>2. "thinking" \in Shown
    BY DEF Shown
  <2>3. QED
    BY <1>3, <1>4, <2>1, <2>2
<1>6. CASE HandleComplete(m)
  <2>1. Broadcast(<<Status(b, "completed"), Status(b, "idle")>>)
    BY <1>1, <1>6 DEF HandleComplete
  <2>2. "completed" \in Shown /\ "idle" \in Shown
    BY DEF Shown
  <2>3. QED
    BY <1>3, <1>4, <2>1, <2>2
<1>7. CASE HandleError(m)
  <2>1. Broadcast(<<Error(b), Status(b, "error")>>)
    BY <1>1, <1>7 DEF HandleError
  <2>2. "error" \in Shown
    BY DEF Shown
  <2>3. QED
    BY <1>3, <1>4, <2>1, <2>2
<1>8. QED
  BY <1>5, <1>6, <1>7

LEMMA MovedHandlers ==
    ASSUME Types, CurrentInv, NEW m \in MsgIds, Begin(m) \/ HandleComplete(m) \/ HandleError(m)
    PROVE  Moved(0)
<1>1. UNCHANGED <<snapshot, missed>>
  BY DEF Begin, HandleComplete, HandleError, browserVars
<1>2. QED
  BY <1>1, HandlersTell, MovedBroadcast

\* The answer to a subscription is the last event on the way.
LEMMA ServeTells ==
    ASSUME Types, Serve
    PROVE  \E r \in Seq(Buffered) :
             /\ buffer' = buffer \o r /\ UNCHANGED <<wire, snapshot, missed>>
             /\ \A i \in DOMAIN r : r[i].type # "delta"
<1>. DEFINE e == Built(Head(uplink), display[Head(uplink)], placeholder[Head(uplink)])
<1>1. /\ uplink # <<>> /\ buffer' = Append(buffer, e) /\ UNCHANGED <<wire, snapshot, missed>>
  BY DEF Serve, browserVars
<1>2. PICK b \in Dialogs : b = Head(uplink)
  BY <1>1 DEF Types, ViewTypes
<1>3. e \in Buffered /\ e.type = "snapshot"
  <2>1. display[b] \in Shown /\ placeholder[b] \in MsgIds \cup {None}
    BY DEF Types, ContainerTypes, Shown
  <2>2. Built(b, display[b], placeholder[b]) \in Snapshots(MsgIds \cup {None})
    BY <2>1, EventTypes
  <2>3. Built(b, display[b], placeholder[b]).type = "snapshot"
    BY ListedBuilt
  <2>4. QED
    BY <1>2, <2>2, <2>3 DEF Buffered
<1>. HIDE DEF e
<1>4. PICK r \in Seq(Buffered) : buffer' = buffer \o r /\ DOMAIN r = {1} /\ r[1] = e
  <2>1. buffer \in Seq(Buffered)
    BY DEF Types, ViewTypes
  <2>2. \E r \in Seq(Buffered) : /\ r = <<e>> /\ Append(buffer, e) = buffer \o r
                                 /\ DOMAIN r = {1} /\ r[1] = e
    BY <1>3, <2>1, OneEvent
  <2>3. QED
    BY <1>1, <2>2
<1>5. \A i \in DOMAIN r : r[i].type # "delta"
  BY <1>3, <1>4
<1>6. QED
  BY <1>1, <1>4, <1>5

LEMMA MovedServe == ASSUME Types, Serve PROVE Moved(0)
  BY ServeTells, MovedGrows

\* What handling a chunk changes: the answer gets it, the dialog counts it.
LEMMA ProgressHandles ==
    ASSUME Types, ChunksInv, NEW m \in MsgIds, HandleProgress(m)
    PROVE  /\ Len(handled[m]) \in Nat /\ DOMAIN handled[m] = 1..Len(handled[m])
           /\ DOMAIN handled'[m] = 1 .. Len(handled[m]) + 1
           /\ Len(handled'[m]) = Len(handled[m]) + 1
           /\ \A x \in MsgIds \ {m} : handled'[x] = handled[x]
           /\ numbers[dialog[m]] \in Nat /\ numbers'[dialog[m]] = numbers[dialog[m]] + 1
           /\ \A d \in Dialogs \ {dialog[m]} : numbers'[d] = numbers[d]
           /\ dialog[m] \in Dialogs /\ pc[m] # "new"
           /\ UNCHANGED <<dialog, pc, placeholder, wire, snapshot, seen, missed>>
<1>1. /\ bus # <<>> /\ Head(bus).kind = "progress" /\ Head(bus).msg = m
      /\ handled' = [handled EXCEPT ![m] = Append(@, Head(bus).delta)]
      /\ numbers' = [numbers EXCEPT ![dialog[m]] = numbers[dialog[m]] + 1]
      /\ UNCHANGED <<dialog, pc, placeholder, wire, snapshot, seen, missed>>
  BY DEF HandleProgress, Broadcast, turnVars, browserVars
<1>2. Head(bus) \in BusEvents /\ dialog[m] \in Dialogs /\ pc[m] # "new"
  BY <1>1, TakenTypes DEF Types, TurnTypes
<1>3. Head(bus).delta \in Chunks
  BY <1>1, <1>2 DEF BusEvents
<1>4. handled \in [MsgIds -> Seq(Chunks)] /\ numbers \in [Dialogs -> Nat]
  BY DEF ChunksInv, Numbered, Texts, Types, ContainerTypes
<1>5. handled[m] \in Seq(Chunks) /\ handled'[m] = Append(handled[m], Head(bus).delta)
      /\ \A x \in MsgIds \ {m} : handled'[x] = handled[x]
  BY <1>1, <1>4
<1>6. /\ Len(handled[m]) \in Nat /\ DOMAIN handled[m] = 1..Len(handled[m])
      /\ DOMAIN handled'[m] = 1 .. Len(handled[m]) + 1
      /\ Len(handled'[m]) = Len(handled[m]) + 1
  BY <1>3, <1>5
<1>7. QED
  BY <1>1, <1>2, <1>4, <1>5, <1>6

\* The delta of a chunk is the last event on the way, or nobody is connected.
Joins(m, e, last) ==
    /\ e.type = "delta" /\ e.msg = m /\ e.id = dialog[m]
    /\ e.sequence = numbers[dialog[m]] + 1 /\ e.chunk = <<m, Len(handled[m]) + 1>>
    /\ last \in DOMAIN Coming' /\ Coming'[last] = e
    /\ \A j \in DOMAIN Coming :
         j \in DOMAIN Coming' /\ Coming'[j] = Coming[j] /\ j < last /\ j \in Nat
    /\ \A j \in DOMAIN Coming' : j \in DOMAIN Coming \/ j = last
    /\ \A k \in Places' : Held(k)' =>
         /\ k \in Places /\ k < last /\ k \in Nat /\ Held(k)
         /\ View(k)' = View(k) /\ Runner(k)' = Runner(k)

LEMMA DeltaAdded ==
    ASSUME Types, CurrentInv, ChunksInv, NEW m \in MsgIds, HandleProgress(m)
    PROVE  \/ (\A k \in Places' : ~Held(k)') /\ DOMAIN Coming' = {}
           \/ \E e \in DeltaEvents : \E last \in Nat : Joins(m, e, last)
<1>1. PICK e : e = Delta(m, Head(bus).delta, numbers[dialog[m]] + 1)
  OBVIOUS
<1>2. /\ Head(bus).delta = <<m, Len(handled[m]) + 1>> /\ Len(handled[m]) \in Nat
      /\ dialog[m] \in Dialogs /\ numbers[dialog[m]] \in Nat
      /\ UNCHANGED <<snapshot, missed>>
  BY NextDelta, ProgressHandles
<1>3. /\ e \in DeltaEvents /\ e.type = "delta" /\ e.msg = m /\ e.id = dialog[m]
      /\ e.sequence = numbers[dialog[m]] + 1 /\ e.chunk = <<m, Len(handled[m]) + 1>>
  <2>1. Head(bus).delta \in Chunks /\ numbers[dialog[m]] + 1 \in Nat
    <3>1. Len(handled[m]) + 1 \in Nat /\ numbers[dialog[m]] + 1 \in Nat
      BY <1>2
    <3>2. <<m, Len(handled[m]) + 1>> \in Chunks
      BY <3>1 DEF Chunks
    <3>3. QED
      BY <1>2, <3>1, <3>2
  <2>2. e \in DeltaEvents
    BY <1>1, <1>2, <2>1, EventTypes
  <2>3. QED
    BY <1>1, <1>2, <2>2 DEF Delta
<1>4. PICK r \in Seq(Buffered) : r = <<e>> /\ DOMAIN r = {1} /\ r[1] = e /\ Len(r) = 1
  <2>1. e \in Buffered
    BY <1>3 DEF Buffered
  <2>2. <<e>> \in Seq(Buffered) /\ DOMAIN <<e>> = {1} /\ <<e>>[1] = e /\ Len(<<e>>) = 1
    BY <2>1
  <2>3. QED
    BY <2>2
<1>5. Broadcast(r)
  BY <1>1, <1>4 DEF HandleProgress
<1>6. Down
  BY DEF CurrentInv
<1>7. CASE buffer' = buffer \o r /\ UNCHANGED <<wire, snapshot, missed>>
  <2>1. /\ Len(Coming)' = Len(Coming) + 1 /\ Len(Coming) \in Nat
        /\ DOMAIN Coming = 1..Len(Coming) /\ DOMAIN Coming' = 1..Len(Coming)'
        /\ \A j \in DOMAIN Coming : Coming'[j] = Coming[j] /\ j \in DOMAIN Coming'
        /\ \A i \in DOMAIN r :
             /\ Len(Coming) + i \in DOMAIN Coming' /\ Coming'[Len(Coming) + i] = r[i]
        /\ \A k \in Places : /\ View(k)' = View(k) /\ (Held(k)' <=> Held(k))
                             /\ Held(k) => Runner(k)' = Runner(k)
    BY <1>4, <1>7, WayGrows
  <2>2. PICK last \in Nat : last = Len(Coming) + 1
    BY <2>1
  <2>3. /\ last \in DOMAIN Coming' /\ Coming'[last] = e
        /\ \A j \in DOMAIN Coming :
             j \in DOMAIN Coming' /\ Coming'[j] = Coming[j] /\ j < last /\ j \in Nat
        /\ \A j \in DOMAIN Coming' : j \in DOMAIN Coming \/ j = last
    BY <1>4, <2>1, <2>2
  <2>4. ASSUME NEW k \in Places', Held(k)'
        PROVE  /\ k \in Places /\ k < last /\ k \in Nat /\ Held(k)
               /\ View(k)' = View(k) /\ Runner(k)' = Runner(k)
    <3>1. k \in Nat /\ (k = last \/ (k < last /\ k \in Places))
      BY <2>1, <2>2 DEF Places
    <3>2. k # last
      BY <1>3, <2>2, <2>3, <2>4 DEF Held
    <3>3. QED
      BY <2>1, <2>4, <3>1, <3>2
  <2>5. Joins(m, e, last)
    BY <1>3, <2>3, <2>4 DEF Joins
  <2>6. QED
    BY <1>3, <2>5
<1>8. QED
  BY <1>2, <1>5, <1>6, <1>7, BroadcastPlaces

LEMMA ProgressDeltas ==
    ASSUME Types, CurrentInv, ChunksInv, DeltaInv, NEW m \in MsgIds, HandleProgress(m)
    PROVE  DeltaInv'
<1>0. /\ Len(handled[m]) \in Nat /\ DOMAIN handled[m] = 1..Len(handled[m])
      /\ DOMAIN handled'[m] = 1 .. Len(handled[m]) + 1
      /\ \A x \in MsgIds \ {m} : handled'[x] = handled[x]
      /\ numbers[dialog[m]] \in Nat /\ numbers'[dialog[m]] = numbers[dialog[m]] + 1
      /\ \A d \in Dialogs \ {dialog[m]} : numbers'[d] = numbers[d]
      /\ dialog[m] \in Dialogs /\ pc[m] # "new"
      /\ UNCHANGED <<dialog, pc, seen>>
  BY ProgressHandles
<1>1. /\ \A d \in Dialogs : numbers[d] \in Nat /\ numbers'[d] \in Nat /\ numbers[d] <= numbers'[d]
      /\ \A x \in MsgIds : DOMAIN handled[x] \subseteq DOMAIN handled'[x]
      /\ \A x \in MsgIds : pc[x] # "new" => dialog[x] \in Dialogs
  <2>1. \A d \in Dialogs : numbers[d] \in Nat /\ (d = dialog[m] \/ numbers'[d] = numbers[d])
    BY <1>0 DEF Types, ContainerTypes
  <2>2. \A d \in Dialogs : numbers[d] \in Nat /\ numbers'[d] \in Nat /\ numbers[d] <= numbers'[d]
    BY <1>0, <2>1
  <2>3. DOMAIN handled[m] \subseteq DOMAIN handled'[m]
    BY <1>0
  <2>4. \A x \in MsgIds : DOMAIN handled[x] \subseteq DOMAIN handled'[x]
    BY <1>0, <2>3
  <2>5. \A x \in MsgIds : pc[x] # "new" => dialog[x] \in Dialogs
    BY DEF Types, TurnTypes
  <2>6. QED
    BY <2>2, <2>4, <2>5
<1>2. SeenTold'
  <2>. SUFFICES ASSUME NEW key \in seen
                PROVE  \E x \in MsgIds, n \in Nat :
                         key = <<x, n>> /\ pc[x] # "new" /\ n <= numbers'[dialog[x]]
    BY <1>0 DEF SeenTold
  <2>1. PICK x \in MsgIds, n \in Nat : key = <<x, n>> /\ pc[x] # "new" /\ n <= numbers[dialog[x]]
    BY DEF DeltaInv, SeenTold
  <2>2. n <= numbers'[dialog[x]]
    BY <1>1, <2>1
  <2>3. QED
    BY <2>1, <2>2
<1>3. CASE DOMAIN Coming' = {}
  BY <1>2, <1>3 DEF DeltaInv, DeltasTold, DeltasOrdered, DeltasUnseen
<1>4. ASSUME NEW e \in DeltaEvents, NEW last \in Nat, Joins(m, e, last)
      PROVE  DeltaInv'
  <2>0. /\ e.type = "delta" /\ e.msg = m /\ e.id = dialog[m]
        /\ e.sequence = numbers[dialog[m]] + 1 /\ e.chunk = <<m, Len(handled[m]) + 1>>
        /\ last \in DOMAIN Coming' /\ Coming'[last] = e
        /\ \A j \in DOMAIN Coming :
             j \in DOMAIN Coming' /\ Coming'[j] = Coming[j] /\ j < last /\ j \in Nat
        /\ \A j \in DOMAIN Coming' : j \in DOMAIN Coming \/ j = last
    BY <1>4 DEF Joins
  <2>1. ASSUME NEW j \in DOMAIN Coming, Coming[j].type = "delta"
        PROVE  /\ Coming[j].msg \in MsgIds /\ Coming[j].id \in Dialogs
               /\ Coming[j].sequence \in Nat /\ Told(Coming[j])
    BY <2>1, DeltaTypes DEF DeltaInv, DeltasTold
  <2>2. Told(e)'
    <3>1. Len(handled[m]) + 1 \in DOMAIN handled'[m]
      BY <1>0
    <3>2. e.id = dialog'[m] /\ pc'[m] # "new" /\ e.sequence <= numbers'[e.id]
      BY <1>0, <2>0
    <3>3. QED
      BY <2>0, <3>1, <3>2 DEF Told
  <2>3. ASSUME NEW x, x.msg \in MsgIds, x.id \in Dialogs, x.sequence \in Nat, Told(x)
        PROVE  /\ x.id = dialog'[x.msg] /\ pc'[x.msg] # "new" /\ x.sequence <= numbers'[x.id]
               /\ \E n \in DOMAIN handled'[x.msg] : x.chunk = <<x.msg, n>>
    BY <1>0, <1>1, <2>3 DEF Told
  <2>4. DeltasTold'
    BY <2>0, <2>1, <2>2, <2>3 DEF DeltasTold, Told
  <2>5. DeltasOrdered'
    <3>. SUFFICES ASSUME NEW i \in DOMAIN Coming', NEW j \in DOMAIN Coming', i < j,
                         Coming'[i].type = "delta", Coming'[j].type = "delta",
                         Coming'[i].msg = Coming'[j].msg
                  PROVE  /\ Coming'[i].sequence < Coming'[j].sequence
                         /\ Coming'[i].chunk[2] < Coming'[j].chunk[2]
      BY DEF DeltasOrdered
    <3>1. i \in DOMAIN Coming /\ Coming'[i] = Coming[i]
      <4>1. CASE i = last
        <5>1. i \in Nat /\ j \in Nat /\ (j < last \/ j = last)
          BY <2>0, <4>1
        <5>2. QED
          BY <4>1, <5>1
      <4>2. QED
        BY <2>0, <4>1
    <3>2. CASE j \in DOMAIN Coming
      BY <2>0, <3>1, <3>2 DEF DeltaInv, DeltasOrdered
    <3>3. CASE j = last
      <4>1. Coming[i].msg = m /\ Coming[i].id = dialog[m] /\ Told(Coming[i])
            /\ Coming[i].sequence \in Nat
        BY <2>0, <2>1, <3>1, <3>3 DEF Told
      <4>2. Coming[i].sequence < e.sequence
        BY <1>0, <2>0, <4>1 DEF Told
      <4>3. PICK n \in DOMAIN handled[m] : Coming[i].chunk = <<m, n>>
        BY <4>1 DEF Told
      <4>4. Coming[i].chunk[2] < e.chunk[2]
        BY <1>0, <2>0, <4>3
      <4>5. QED
        BY <2>0, <3>1, <3>3, <4>2, <4>4
    <3>4. QED
      BY <2>0, <3>2, <3>3
  <2>6. DeltasUnseen'
    <3>1. <<m, numbers[dialog[m]] + 1>> \notin seen
      BY <1>0 DEF DeltaInv, SeenTold
    <3>2. QED
      BY <1>0, <2>0, <3>1 DEF DeltaInv, DeltasUnseen
  <2>7. QED
    BY <1>2, <2>4, <2>5, <2>6 DEF DeltaInv
<1>5. QED
  BY <1>3, <1>4, DeltaAdded

\* The browser remembers the delta it takes, and nothing else.
LEMMA SeenGrows ==
    ASSUME NEW e, Fold(e)
    PROVE  \/ e.type # "delta" /\ seen' = seen
           \/ e.type = "delta" /\ seen' = seen \cup {<<e.msg, e.sequence>>}
  BY DEF Fold, OnSnapshot, OnDelta, OnStatus, OnError

LEMMA ReceiveDeltas ==
    ASSUME Types, DeltaInv, Receive
    PROVE  DeltaInv'
<1>0. UNCHANGED <<dialog, pc, numbers, handled>>
  BY DEF Receive, turnVars, containerVars
<1>1. /\ 1 \in DOMAIN Coming /\ Fold(Coming[1])
      /\ \A j \in DOMAIN Coming' :
           j + 1 \in DOMAIN Coming /\ Coming'[j] = Coming[j + 1] /\ j \in Nat /\ j > 0
  BY WayShrinks
<1>2. CASE seen' = seen
  <2>1. Moved(1)
    BY MovedReceive
  <2>2. QED
    BY <1>0, <1>2, <2>1, DeltasStay
<1>3. CASE Coming[1].type = "delta" /\ seen' = seen \cup {<<Coming[1].msg, Coming[1].sequence>>}
  <2>1. /\ Told(Coming[1]) /\ Coming[1].msg \in MsgIds /\ Coming[1].sequence \in Nat
    BY <1>1, <1>3, DeltaTypes DEF DeltaInv, DeltasTold
  <2>2. SeenTold'
    <3>1. \A key \in seen' : \E m \in MsgIds, n \in Nat :
            key = <<m, n>> /\ pc[m] # "new" /\ n <= numbers[dialog[m]]
      <4>1. \A key \in seen : \E m \in MsgIds, n \in Nat :
              key = <<m, n>> /\ pc[m] # "new" /\ n <= numbers[dialog[m]]
        BY DEF DeltaInv, SeenTold
      <4>2. pc[Coming[1].msg] # "new" /\ Coming[1].sequence <= numbers[dialog[Coming[1].msg]]
        BY <2>1 DEF Told
      <4>3. QED
        BY <1>3, <2>1, <4>1, <4>2
    <3>2. QED
      BY <1>0, <3>1 DEF SeenTold
  <2>3. DeltasTold'
    <3>1. \A j \in DOMAIN Coming' : Coming'[j].type = "delta" => Told(Coming'[j])
      BY <1>1 DEF DeltaInv, DeltasTold
    <3>2. QED
      BY <1>0, <3>1 DEF DeltasTold, Told
  <2>4. DeltasOrdered'
    <3>1. \A i, j \in DOMAIN Coming' : i < j => i + 1 < j + 1
      BY <1>1
    <3>2. QED
      BY <1>1, <3>1 DEF DeltaInv, DeltasOrdered
  <2>5. DeltasUnseen'
    <3>. SUFFICES ASSUME NEW j \in DOMAIN Coming', Coming'[j].type = "delta"
                  PROVE  <<Coming'[j].msg, Coming'[j].sequence>> \notin seen'
      BY DEF DeltasUnseen
    <3>1. /\ j + 1 \in DOMAIN Coming /\ Coming'[j] = Coming[j + 1] /\ 1 < j + 1
          /\ Coming[j + 1].type = "delta"
      BY <1>1
    <3>2. /\ <<Coming[j + 1].msg, Coming[j + 1].sequence>> \notin seen
          /\ Coming[j + 1].sequence \in Nat
          /\ Coming[j + 1].msg = Coming[1].msg => Coming[1].sequence < Coming[j + 1].sequence
      BY <1>1, <1>3, <3>1, DeltaTypes DEF DeltaInv, DeltasUnseen, DeltasOrdered
    <3>3. <<Coming[j + 1].msg, Coming[j + 1].sequence>> # <<Coming[1].msg, Coming[1].sequence>>
      BY <2>1, <3>2
    <3>4. QED
      BY <1>3, <3>1, <3>2, <3>3
  <2>6. QED
    BY <2>2, <2>3, <2>4, <2>5 DEF DeltaInv
<1>4. QED
  BY <1>1, <1>2, <1>3, SeenGrows

LEMMA InitDeltas == Init => DeltaInv
<1>. SUFFICES ASSUME Init PROVE DeltaInv
  OBVIOUS
<1>1. Coming = <<>> /\ seen = {}
  BY DEF Init, Coming
<1>2. DOMAIN Coming = {}
  BY <1>1
<1>3. QED
  BY <1>1, <1>2 DEF DeltaInv, DeltasTold, DeltasOrdered, DeltasUnseen, SeenTold

LEMMA NextDeltas ==
    Types /\ CurrentInv /\ ChunksInv /\ DeltaInv /\ [Next]_vars => DeltaInv'
<1>. SUFFICES ASSUME Types, CurrentInv, ChunksInv, DeltaInv, [Next]_vars PROVE DeltaInv'
  OBVIOUS
<1>1. ASSUME UNCHANGED <<wire, buffer, numbers, handled, seen>>,
             \A m \in MsgIds : pc[m] # "new" => pc'[m] # "new" /\ dialog'[m] = dialog[m]
      PROVE  DeltaInv'
  <2>1. Coming' = Coming
    BY <1>1 DEF Coming
  <2>2. Moved(0)
    BY <2>1, MovedNothing
  <2>3. QED
    BY <1>1, <2>2, DeltasStay
<1>2. ASSUME NEW d \in Dialogs, NewChat(d) \/ SelectDialog(d) PROVE DeltaInv'
  BY <1>1, <1>2 DEF NewChat, SelectDialog, Subscribe, turnVars, containerVars
<1>3. ASSUME NEW m \in MsgIds, Post(m) \/ Turn(m) PROVE DeltaInv'
  <2>1. UNCHANGED <<wire, buffer, numbers, handled, seen>>
    BY <1>3 DEF Post, Turn, Chunk, EndStream, FailStream, containerVars, socketVars, browserVars
  <2>2. \A n \in MsgIds : pc[n] # "new" => pc'[n] # "new" /\ dialog'[n] = dialog[n]
    BY <1>3 DEF Post, Turn, Chunk, EndStream, FailStream, Types, TurnTypes
  <2>3. QED
    BY <1>1, <2>1, <2>2
<1>4. ASSUME NEW m \in MsgIds, Begin(m) \/ HandleComplete(m) \/ HandleError(m) PROVE DeltaInv'
  <2>1. Moved(0)
    BY <1>4, MovedHandlers
  <2>2. UNCHANGED <<numbers, handled, seen>>
    BY <1>4 DEF Begin, HandleComplete, HandleError, browserVars
  <2>3. \A n \in MsgIds : pc[n] # "new" => pc'[n] # "new" /\ dialog'[n] = dialog[n]
    BY <1>4 DEF Begin, HandleComplete, HandleError, Types, TurnTypes, turnVars
  <2>4. QED
    BY <2>1, <2>2, <2>3, DeltasStay
<1>5. CASE Serve
  <2>1. UNCHANGED <<numbers, handled, seen, pc, dialog>>
    BY <1>5 DEF Serve, turnVars, containerVars, browserVars
  <2>2. QED
    BY <1>5, <2>1, MovedServe, DeltasStay
<1>6. CASE Send
  <2>1. UNCHANGED <<numbers, handled, seen, pc, dialog>>
    BY <1>6 DEF Send, turnVars, containerVars, browserVars
  <2>2. QED
    BY <1>6, <2>1, MovedSend, DeltasStay
<1>7. CASE Break
  <2>1. UNCHANGED <<numbers, handled, seen, pc, dialog>> /\ Coming' = <<>>
    BY <1>7 DEF Break, turnVars, containerVars, Coming
  <2>2. Moved(0)
    <3>1. DOMAIN Coming' = {}
      BY <2>1
    <3>2. QED
      BY <3>1, MovedNothing
  <2>3. QED
    BY <2>1, <2>2, DeltasStay
<1>8. CASE Reconnect \/ UNCHANGED vars
  BY <1>1, <1>8 DEF Reconnect, vars, turnVars, containerVars, socketVars, browserVars
<1>9. QED
  BY <1>2, <1>3, <1>4, <1>5, <1>6, <1>7, <1>8, ProgressDeltas, ReceiveDeltas
     DEF Next, User, System, Turn, Handle
-----------------------------------------------------------------------------
(***************************************************************************)
(* Whose deltas reach a snapshot.  The deltas of a dialog that arrive      *)
(* between a snapshot with a running answer and the next one of the dialog *)
(* are deltas of that answer.                                              *)
(***************************************************************************)
Between(k, j, d) == \A l \in DOMAIN Coming : k < l /\ l < j => ~IsSnapshot(l, d)
Mix(k, d, a) ==
    \A j \in DOMAIN Coming :
        j > k /\ Coming[j].type = "delta" /\ Coming[j].id = d /\ Between(k, j, d)
          => Coming[j].msg = a
Own(k, d, a) == dialog[a] = d /\ pc[a] # "new" /\ Mix(k, d, a)

MixInv ==
    \A k \in Places, d \in Dialogs, a \in MsgIds :
        Held(k) /\ View(k).id = d /\ Runner(k) = a => Own(k, d, a)

\* No event behind the first s is lost.
Passed(s) ==
    \A l \in DOMAIN Coming :
        /\ l \in Nat
        /\ l > s => /\ l - s \in DOMAIN Coming'
                    /\ Coming'[l - s].type = Coming[l].type /\ Coming'[l - s].id = Coming[l].id
                    /\ Coming[l].type = "delta" => Coming'[l - s] = Coming[l]

LEMMA MixMoves ==
    ASSUME NEW s \in {0, 1}, Moved(s), Passed(s), NEW k \in Nat, NEW d, NEW a, Mix(k + s, d, a)
    PROVE  Mix(k, d, a)'
<1>. SUFFICES ASSUME NEW j \in DOMAIN Coming', j > k, Coming'[j].type = "delta",
                     Coming'[j].id = d, Between(k, j, d)'
              PROVE  Coming'[j].msg = a
  BY DEF Mix
<1>1. j \in Nat /\ j + s \in DOMAIN Coming /\ Coming'[j] = Coming[j + s] /\ j + s > k + s
  BY DEF Moved
<1>2. Between(k + s, j + s, d)
  <2>. SUFFICES ASSUME NEW l \in DOMAIN Coming, k + s < l, l < j + s, IsSnapshot(l, d)
                PROVE  FALSE
    BY DEF Between
  <2>1. l \in Nat /\ l > s /\ k < l - s /\ l - s < j
    BY <1>1 DEF Passed
  <2>2. l - s \in DOMAIN Coming' /\ IsSnapshot(l - s, d)'
    BY <2>1 DEF Passed, IsSnapshot
  <2>3. QED
    BY <2>1, <2>2 DEF Between
<1>3. QED
  BY <1>1, <1>2 DEF Mix

LEMMA OwnMoves ==
    ASSUME NEW s \in {0, 1}, Moved(s), Passed(s), NEW k \in Nat, NEW d, NEW a \in MsgIds,
           Own(k + s, d, a), pc[a] # "new" => pc'[a] # "new" /\ dialog'[a] = dialog[a]
    PROVE  Own(k, d, a)'
  BY MixMoves DEF Own

LEMMA GrowPassed ==
    ASSUME Types, NEW r \in Seq(Buffered), buffer' = buffer \o r,
           UNCHANGED <<wire, snapshot, missed>>
    PROVE  Passed(0)
<1>1. /\ Len(Coming) \in Nat /\ DOMAIN Coming = 1..Len(Coming)
      /\ \A j \in DOMAIN Coming : Coming'[j] = Coming[j] /\ j \in DOMAIN Coming'
  BY WayGrows
<1>2. \A j \in DOMAIN Coming : j \in Nat /\ j - 0 = j
  BY <1>1
<1>3. QED
  BY <1>1, <1>2 DEF Passed

LEMMA StillPassed == ASSUME Types, UNCHANGED <<wire, buffer>> PROVE Moved(0) /\ Passed(0)
<1>1. Coming' = Coming
  BY DEF Coming
<1>2. \A j \in DOMAIN Coming : j \in Nat /\ j + 0 = j /\ j - 0 = j
  BY WayTypes DEF Types
<1>3. QED
  BY <1>1, <1>2 DEF Moved, Passed

LEMMA StillMix ==
    ASSUME Types, MixInv, UNCHANGED <<wire, buffer>>,
           UNCHANGED <<snapshot, missed>> \/ snapshot' = None,
           \A m \in MsgIds : pc[m] # "new" => pc'[m] # "new" /\ dialog'[m] = dialog[m]
    PROVE  MixInv'
<1>1. Coming' = Coming /\ Places' = Places
  BY DEF Coming, Places
<1>2. Moved(0) /\ Passed(0)
  BY StillPassed
<1>3. SUFFICES ASSUME NEW k \in Places', NEW d \in Dialogs, NEW a \in MsgIds,
                      Held(k)', View(k)'.id = d, Runner(k)' = a
               PROVE  Own(k, d, a)'
  BY DEF MixInv
<1>4. k \in Nat /\ k + 0 = k /\ Held(k) /\ View(k).id = d /\ Runner(k) = a
  <2>1. k \in Nat /\ Len(wire) \in Nat
    BY <1>1, WayTypes DEF Types, Places
  <2>2. QED
    BY <1>1, <1>3, <2>1 DEF Held, View, Runner
<1>5. Own(k + 0, d, a)
  BY <1>1, <1>4 DEF MixInv
<1>6. QED
  BY <1>2, <1>4, <1>5, OwnMoves

\* The buffer gets events that are no deltas.
LEMMA MixGrows ==
    ASSUME Types, MixInv, NEW r \in Seq(Buffered), buffer' = buffer \o r,
           UNCHANGED <<wire, snapshot, missed, dialog>>,
           \A m \in MsgIds : pc[m] # "new" => pc'[m] # "new",
           \A i \in DOMAIN r : r[i].type # "delta",
           \A i \in DOMAIN r : \A a \in MsgIds :
              r[i].type = "snapshot" /\ r[i].stream = a => dialog[a] = r[i].id /\ pc'[a] # "new"
    PROVE  MixInv'
<1>1. Moved(0)
  BY MovedGrows
<1>2. /\ Len(Coming) \in Nat /\ DOMAIN Coming = 1..Len(Coming)
      /\ \A j \in DOMAIN Coming : Coming'[j] = Coming[j] /\ j \in DOMAIN Coming'
      /\ \A j \in DOMAIN Coming' :
           j \in DOMAIN Coming \/ \E i \in DOMAIN r : j = Len(Coming) + i /\ Coming'[j] = r[i]
      /\ \A i \in DOMAIN r : i \in Nat /\ i > 0
      /\ \A k \in Places : /\ View(k)' = View(k) /\ (Held(k)' <=> Held(k))
                           /\ Held(k) => Runner(k)' = Runner(k)
  BY WayGrows
<1>3. Passed(0)
  BY GrowPassed
<1>4. SUFFICES ASSUME NEW k \in Places', NEW d \in Dialogs, NEW a \in MsgIds,
                      Held(k)', View(k)'.id = d, Runner(k)' = a
               PROVE  Own(k, d, a)'
  BY DEF MixInv
<1>5. CASE k \in Places
  <2>1. k \in Nat /\ k + 0 = k /\ Held(k) /\ View(k).id = d /\ Runner(k) = a
    BY <1>2, <1>4, <1>5 DEF Places
  <2>2. Own(k + 0, d, a)
    BY <1>5, <2>1 DEF MixInv
  <2>3. QED
    BY <1>1, <1>3, <2>1, <2>2, OwnMoves
<1>6. CASE k \notin Places
  <2>1. PICK i \in DOMAIN r :
           /\ k = Len(Coming) + i /\ r[i].type = "snapshot" /\ View(k)' = r[i]
           /\ Runner(k)' = r[i].stream
    <3>1. \A q \in Places' : q \notin Places /\ Held(q)' =>
            \E i \in DOMAIN r :
               /\ q = Len(Coming) + i /\ r[i].type = "snapshot" /\ View(q)' = r[i]
               /\ Runner(q)' = r[i].stream /\ q > Len(wire)
               /\ i = Len(r) => \A j \in DOMAIN Coming' : ~(j > q)
      BY BehindGrows
    <3>2. QED
      BY <1>4, <1>6, <3>1
  <2>2. dialog'[a] = d /\ pc'[a] # "new"
    BY <1>4, <2>1
  <2>3. \A j \in DOMAIN Coming' : Coming'[j].type = "delta" => ~(j > k)
    <3>1. \A j \in DOMAIN Coming' : Coming'[j].type = "delta" => j \in DOMAIN Coming
      BY <1>2
    <3>2. \A j \in DOMAIN Coming : ~(j > k)
      BY <1>2, <2>1
    <3>3. QED
      BY <3>1, <3>2
  <2>4. QED
    BY <2>2, <2>3 DEF Own, Mix
<1>7. QED
  BY <1>5, <1>6

LEMMA MixBroadcast ==
    ASSUME Types, CurrentInv, MixInv, NEW r \in Seq(Buffered), Broadcast(r),
           UNCHANGED <<snapshot, missed, dialog>>,
           \A m \in MsgIds : pc[m] # "new" => pc'[m] # "new",
           \A i \in DOMAIN r : r[i].type # "delta",
           \A i \in DOMAIN r : \A a \in MsgIds :
              r[i].type = "snapshot" /\ r[i].stream = a => dialog[a] = r[i].id /\ pc'[a] # "new"
    PROVE  MixInv'
<1>1. CASE buffer' = buffer \o r /\ UNCHANGED <<wire, snapshot, missed>>
  BY <1>1, MixGrows
<1>2. CASE \A k \in Places' : ~Held(k)'
  BY <1>2 DEF MixInv
<1>3. QED
  BY <1>1, <1>2, BroadcastPlaces DEF CurrentInv

LEMMA BeginMix ==
    ASSUME Types, CurrentInv, MixInv, NEW m \in MsgIds, Begin(m)
    PROVE  MixInv'
<1>1. PICK b \in Dialogs : b = dialog[m]
  <2>1. bus # <<>> /\ Head(bus).msg = m
    BY DEF Begin, Consume
  <2>2. QED
    BY <2>1, TakenTypes DEF Types
<1>2. /\ Broadcast(<<Status(b, "thinking"), Built(b, "thinking", m)>>)
      /\ UNCHANGED <<snapshot, missed, dialog>>
      /\ pc'[m] = "streaming" /\ \A x \in MsgIds : pc[x] # "new" => pc'[x] # "new"
  BY <1>1 DEF Begin, browserVars, Types, TurnTypes
<1>3. PICK e1 \in Buffered : e1 = Status(b, "thinking") /\ e1.type = "status"
  <2>1. "thinking" \in Shown
    BY DEF Shown
  <2>2. Status(b, "thinking") \in Buffered /\ Status(b, "thinking").type = "status"
    BY <2>1, EventTypes DEF Buffered, Status
  <2>3. QED
    BY <2>2
<1>4. PICK e2 \in Buffered :
         e2 = Built(b, "thinking", m) /\ e2.type = "snapshot" /\ e2.id = b /\ e2.stream = m
  <2>1. "thinking" \in Shown
    BY DEF Shown
  <2>2. Built(b, "thinking", m) \in Buffered
    BY <2>1, EventTypes DEF Buffered
  <2>3. QED
    BY <2>2, ListedBuilt
<1>5. PICK r \in Seq(Buffered) :
         r = <<e1, e2>> /\ DOMAIN r = {1, 2} /\ r[1] = e1 /\ r[2] = e2 /\ Len(r) = 2
  BY TwoEvents
<1>6. Broadcast(r)
  BY <1>2, <1>3, <1>4, <1>5
<1>7. /\ \A i \in DOMAIN r : r[i].type # "delta"
      /\ \A i \in DOMAIN r : \A a \in MsgIds :
            r[i].type = "snapshot" /\ r[i].stream = a => dialog[a] = r[i].id /\ pc'[a] # "new"
  BY <1>1, <1>2, <1>3, <1>4, <1>5
<1>8. QED
  BY <1>2, <1>6, <1>7, MixBroadcast

LEMMA EndsMix ==
    ASSUME Types, CurrentInv, MixInv, NEW m \in MsgIds, HandleComplete(m) \/ HandleError(m)
    PROVE  MixInv'
<1>1. PICK b \in Dialogs : b = dialog[m]
  <2>1. bus # <<>> /\ Head(bus).msg = m
    BY DEF HandleComplete, HandleError, Consume
  <2>2. QED
    BY <2>1, TakenTypes DEF Types
<1>2. UNCHANGED <<snapshot, missed, dialog, pc>>
  BY DEF HandleComplete, HandleError, browserVars, turnVars
<1>3. /\ \A s \in Shown : Status(b, s) \in Buffered /\ Status(b, s).type = "status"
      /\ Error(b) \in Buffered /\ Error(b).type = "error"
  BY EventTypes DEF Buffered, Status, Error
<1>4. ASSUME NEW e1 \in Buffered, NEW e2 \in Buffered, e1.type \in {"status", "error"},
             e2.type \in {"status", "error"}, Broadcast(<<e1, e2>>)
      PROVE  MixInv'
  <2>1. PICK r \in Seq(Buffered) :
          r = <<e1, e2>> /\ DOMAIN r = {1, 2} /\ r[1] = e1 /\ r[2] = e2 /\ Len(r) = 2
    BY TwoEvents
  <2>2. Broadcast(r)
    BY <1>4, <2>1
  <2>3. \A i \in DOMAIN r : r[i].type # "delta" /\ r[i].type # "snapshot"
    BY <1>4, <2>1
  <2>4. QED
    BY <1>2, <2>2, <2>3, MixBroadcast
<1>5. CASE HandleComplete(m)
  <2>1. Broadcast(<<Status(b, "completed"), Status(b, "idle")>>)
    BY <1>1, <1>5 DEF HandleComplete
  <2>2. "completed" \in Shown /\ "idle" \in Shown
    BY DEF Shown
  <2>3. QED
    BY <1>3, <1>4, <2>1, <2>2
<1>6. CASE HandleError(m)
  <2>1. Broadcast(<<Error(b), Status(b, "error")>>)
    BY <1>1, <1>6 DEF HandleError
  <2>2. "error" \in Shown
    BY DEF Shown
  <2>3. QED
    BY <1>3, <1>4, <2>1, <2>2
<1>7. QED
  BY <1>5, <1>6

LEMMA ServeMix ==
    ASSUME Types, TurnsInv, MixInv, Serve
    PROVE  MixInv'
<1>. DEFINE e == Built(Head(uplink), display[Head(uplink)], placeholder[Head(uplink)])
<1>1. /\ uplink # <<>> /\ buffer' = Append(buffer, e)
      /\ UNCHANGED <<wire, snapshot, missed, dialog, pc>>
  BY DEF Serve, browserVars, turnVars
<1>2. PICK b \in Dialogs : b = Head(uplink)
  BY <1>1 DEF Types, ViewTypes
<1>3. PICK s \in Shown : s = display[b]
  BY <1>2 DEF Types, ContainerTypes, Shown
<1>4. PICK p \in MsgIds \cup {None} : p = placeholder[b]
  BY <1>2 DEF Types, ContainerTypes
<1>5. e \in Buffered /\ e.type = "snapshot" /\ e.id = b /\ e.stream = p
  <2>1. e = Built(b, s, p)
    BY <1>2, <1>3, <1>4
  <2>2. Built(b, s, p) \in Snapshots(MsgIds \cup {None})
    BY EventTypes
  <2>3. /\ Built(b, s, p).type = "snapshot" /\ Built(b, s, p).id = b
        /\ Built(b, s, p).stream = p
    BY ListedBuilt
  <2>4. QED
    BY <2>1, <2>2, <2>3 DEF Buffered
<1>. HIDE DEF e
<1>6. PICK r \in Seq(Buffered) : buffer' = buffer \o r /\ DOMAIN r = {1} /\ r[1] = e
  <2>1. buffer \in Seq(Buffered)
    BY DEF Types, ViewTypes
  <2>2. \E r \in Seq(Buffered) : /\ r = <<e>> /\ Append(buffer, e) = buffer \o r
                                 /\ DOMAIN r = {1} /\ r[1] = e /\ Len(r) = 1 /\ r # <<>>
    BY <1>5, <2>1, TailOfOne
  <2>3. QED
    BY <1>1, <2>2
<1>7. /\ \A i \in DOMAIN r : r[i].type # "delta"
      /\ \A i \in DOMAIN r : \A a \in MsgIds :
            r[i].type = "snapshot" /\ r[i].stream = a => dialog[a] = r[i].id /\ pc'[a] # "new"
  <2>1. \A a \in MsgIds : p = a => dialog[a] = b /\ pc[a] # "new"
    BY <1>4 DEF TurnsInv, Placed
  <2>2. QED
    BY <1>1, <1>5, <1>6, <2>1
<1>8. QED
  BY <1>1, <1>6, <1>7, MixGrows

LEMMA ProgressMix ==
    ASSUME Types, CurrentInv, ChunksInv, ListInv, MixInv, NEW m \in MsgIds,
           HandleProgress(m), Runs(m)
    PROVE  MixInv'
<1>0. UNCHANGED <<dialog, pc>> /\ dialog[m] \in Dialogs /\ m # None /\ placeholder[dialog[m]] = m
  BY ProgressHandles, DialogViewAssumption DEF Runs
<1>1. CASE \A k \in Places' : ~Held(k)'
  BY <1>1 DEF MixInv
<1>2. ASSUME NEW e \in DeltaEvents, NEW last \in Nat, Joins(m, e, last)
      PROVE  MixInv'
  <2>0. /\ e.type = "delta" /\ e.msg = m /\ e.id = dialog[m]
        /\ e.sequence = numbers[dialog[m]] + 1 /\ e.chunk = <<m, Len(handled[m]) + 1>>
        /\ last \in DOMAIN Coming' /\ Coming'[last] = e
        /\ \A j \in DOMAIN Coming :
             j \in DOMAIN Coming' /\ Coming'[j] = Coming[j] /\ j < last /\ j \in Nat
        /\ \A j \in DOMAIN Coming' : j \in DOMAIN Coming \/ j = last
        /\ \A k \in Places' : Held(k)' =>
             /\ k \in Places /\ k < last /\ k \in Nat /\ Held(k)
             /\ View(k)' = View(k) /\ Runner(k)' = Runner(k)
    BY <1>2 DEF Joins
  <2>1. SUFFICES ASSUME NEW k \in Places', NEW d \in Dialogs, NEW a \in MsgIds,
                        Held(k)', View(k)'.id = d, Runner(k)' = a
                 PROVE  Own(k, d, a)'
    BY DEF MixInv
  <2>2. k \in Places /\ Held(k) /\ View(k).id = d /\ Runner(k) = a /\ k < last /\ k \in Nat
    BY <2>0, <2>1
  <2>3. Own(k, d, a)
    BY <2>2 DEF MixInv
  <2>4. ASSUME NEW j \in DOMAIN Coming', j > k, Coming'[j].type = "delta", Coming'[j].id = d,
               Between(k, j, d)'
        PROVE  Coming'[j].msg = a
    <3>1. CASE j \in DOMAIN Coming
      <4>1. Between(k, j, d)
        BY <2>0, <2>4 DEF Between, IsSnapshot
      <4>2. QED
        BY <2>0, <2>3, <2>4, <3>1, <4>1 DEF Own, Mix
    <3>2. CASE j = last
      <4>1. d = dialog[m]
        BY <2>0, <2>4, <3>2
      <4>2. Fresh(k, d)
        BY <2>0, <2>4, <3>2 DEF Fresh, Between, IsSnapshot
      <4>3. Tallies(k, d)
        BY <2>2, <4>2 DEF ListInv
      <4>4. a = m
        BY <1>0, <2>2, <4>1, <4>3 DEF Tallies
      <4>5. QED
        BY <2>0, <3>2, <4>4
    <3>3. QED
      BY <2>0, <3>1, <3>2
  <2>5. QED
    BY <1>0, <2>3, <2>4 DEF Own, Mix
<1>3. QED
  BY <1>1, <1>2, DeltaAdded

LEMMA SendPassed == ASSUME Types, Send PROVE Passed(0)
<1>1. \A j \in DOMAIN Coming : j \in Nat /\ j - 0 = j
  BY WayTypes DEF Types
<1>2. QED
  BY <1>1, PlacesMove DEF Passed

LEMMA SendMix ==
    ASSUME Types, MixInv, Send
    PROVE  MixInv'
<1>1. Moved(0) /\ UNCHANGED <<dialog, pc>>
  BY MovedSend DEF Send, turnVars
<1>2. Passed(0)
  BY SendPassed
<1>3. SUFFICES ASSUME NEW k \in Places', NEW d \in Dialogs, NEW a \in MsgIds,
                      Held(k)', View(k)'.id = d, Runner(k)' = a
               PROVE  Own(k, d, a)'
  BY DEF MixInv
<1>4. k \in Places /\ Held(k) /\ View(k).id = d /\ Runner(k) = a
  BY <1>3, PlacesMove
<1>5. k \in Nat /\ k + 0 = k
  BY <1>4, WayTypes DEF Types, Places
<1>6. Own(k + 0, d, a)
  BY <1>4, <1>5 DEF MixInv
<1>7. QED
  BY <1>1, <1>2, <1>5, <1>6, OwnMoves

LEMMA ReceivePassed == ASSUME Types, Receive PROVE Passed(1)
<1>1. \A j \in DOMAIN Coming :
        /\ j \in Nat
        /\ j = 1 \/ (j > 1 /\ j - 1 \in DOMAIN Coming' /\ Coming'[j - 1] = Coming[j])
  BY WayShrinks
<1>2. QED
  BY <1>1 DEF Passed

LEMMA ReceiveMix ==
    ASSUME Types, MixInv, Receive
    PROVE  MixInv'
<1>1. Moved(1) /\ Passed(1) /\ UNCHANGED <<dialog, pc>>
  BY MovedReceive, ReceivePassed DEF Receive, turnVars
<1>2. SUFFICES ASSUME NEW k \in Places', NEW d \in Dialogs, NEW a \in MsgIds,
                      Held(k)', View(k)'.id = d, Runner(k)' = a
               PROVE  Own(k, d, a)'
  BY DEF MixInv
<1>3. CASE k # 0
  <2>1. /\ k + 1 \in Places /\ k \in Nat /\ Held(k + 1) /\ View(k)' = View(k + 1)
        /\ Runner(k)' = Runner(k + 1)
    BY <1>2, <1>3, PlacesShrink
  <2>2. PICK j \in Places : j = k + 1
    BY <2>1
  <2>3. Own(j, d, a)
    BY <1>2, <2>1, <2>2 DEF MixInv
  <2>4. Own(k + 1, d, a)
    BY <2>2, <2>3
  <2>5. QED
    BY <1>1, <2>1, <2>4, OwnMoves
<1>4. CASE k = 0
  <2>1. 1 \in Places /\ 0 \in Places /\ 0 + 1 = 1 /\ 0 \in Nat
    BY PlacesShrink
  <2>2. CASE Held(1) /\ View(0)' = View(1) /\ Runner(0)' = Runner(1)
    <3>1. Own(0 + 1, d, a)
      BY <1>2, <1>4, <2>1, <2>2 DEF MixInv
    <3>2. QED
      BY <1>1, <1>4, <2>1, <3>1, OwnMoves
  <2>3. CASE /\ Held(0) /\ ~IsSnapshot(1, snapshot.id) /\ snapshot'.id = snapshot.id
             /\ Answer(snapshot'.stream) = Answer(snapshot.stream) \/ snapshot'.stream = None
    <3>1. /\ View(0) = snapshot /\ View(0)' = snapshot' /\ snapshot.id = d
          /\ Runner(0) = Answer(snapshot.stream) /\ Runner(0)' = Answer(snapshot'.stream)
      <4>1. Len(wire) \in Nat /\ Len(wire)' \in Nat
        BY WayShrinks
      <4>2. ~(0 > Len(wire)) /\ ~(0 > Len(wire)')
        BY <4>1
      <4>3. QED
        BY <1>2, <1>4, <2>3, <4>2 DEF View, Runner
    <3>2. Runner(0) = a
      BY <1>2, <1>4, <2>3, <3>1, AnswerOf, DialogViewAssumption
    <3>3. Own(0, d, a)
      BY <2>1, <2>3, <3>1, <3>2 DEF MixInv
    <3>4. Mix(1, d, a)
      <4>1. \A j \in DOMAIN Coming : j \in Nat
        BY <1>1 DEF Passed
      <4>2. SUFFICES ASSUME NEW j \in DOMAIN Coming, j > 1, Coming[j].type = "delta",
                            Coming[j].id = d, Between(1, j, d)
                     PROVE  Coming[j].msg = a
        BY DEF Mix
      <4>3. Between(0, j, d)
        <5>1. \A l \in DOMAIN Coming : 0 < l => l = 1 \/ 1 < l
          BY <4>1
        <5>2. QED
          BY <2>3, <3>1, <4>2, <5>1 DEF Between
      <4>4. j > 0
        BY <4>1, <4>2
      <4>5. QED
        BY <3>3, <4>2, <4>3, <4>4 DEF Own, Mix
    <3>5. Own(0 + 1, d, a)
      BY <2>1, <3>3, <3>4 DEF Own
    <3>6. QED
      BY <1>1, <1>4, <2>1, <3>5, OwnMoves
  <2>4. QED
    BY <1>2, <1>4, <2>2, <2>3, Arrives
<1>5. QED
  BY <1>3, <1>4

LEMMA InitMix == Init => MixInv
<1>. SUFFICES ASSUME Init PROVE MixInv
  OBVIOUS
<1>1. Coming = <<>> /\ snapshot = None
  BY DEF Init, Coming
<1>2. \A k : ~Held(k)
  BY <1>1 DEF Held
<1>3. QED
  BY <1>2 DEF MixInv

LEMMA NextMix ==
    Types /\ CurrentInv /\ TurnsInv /\ ChunksInv /\ ListInv /\ MixInv /\ [Next]_vars => MixInv'
<1>. SUFFICES ASSUME Types, CurrentInv, TurnsInv, ChunksInv, ListInv, MixInv, [Next]_vars
              PROVE  MixInv'
  OBVIOUS
<1>1. ASSUME NEW d \in Dialogs, NewChat(d) \/ SelectDialog(d) PROVE MixInv'
  <2>1. /\ UNCHANGED <<wire, buffer, dialog, pc>>
        /\ UNCHANGED <<snapshot, missed>> \/ snapshot' = None
    BY <1>1 DEF NewChat, SelectDialog, Subscribe, turnVars
  <2>2. QED
    BY <2>1, StillMix
<1>2. ASSUME NEW m \in MsgIds, Post(m) \/ Turn(m) PROVE MixInv'
  <2>1. UNCHANGED <<wire, buffer, snapshot, missed>>
    BY <1>2 DEF Post, Turn, Chunk, EndStream, FailStream, socketVars, browserVars
  <2>2. \A n \in MsgIds : pc[n] # "new" => pc'[n] # "new" /\ dialog'[n] = dialog[n]
    BY <1>2 DEF Post, Turn, Chunk, EndStream, FailStream, Types, TurnTypes
  <2>3. QED
    BY <2>1, <2>2, StillMix
<1>3. ASSUME NEW m \in MsgIds, HandleProgress(m) PROVE MixInv'
  BY <1>3, ProgressTurns, ProgressMix
<1>4. CASE Break
  <2>1. missed' /\ Coming' = <<>>
    BY <1>4 DEF Break, Coming
  <2>2. \A k : ~Held(k)'
    BY <2>1 DEF Held
  <2>3. QED
    BY <2>2 DEF MixInv
<1>5. CASE Reconnect \/ UNCHANGED vars
  <2>1. UNCHANGED <<wire, buffer, snapshot, missed, pc, dialog>>
    BY <1>5 DEF Reconnect, vars, turnVars, socketVars, browserVars
  <2>2. QED
    BY <2>1, StillMix
<1>6. QED
  BY <1>1, <1>2, <1>3, <1>4, <1>5, BeginMix, EndsMix, ServeMix, SendMix, ReceiveMix
     DEF Next, User, System, Turn, Handle
-----------------------------------------------------------------------------
(***************************************************************************)
(* The text of a running answer.  Each chunk that was broadcast is in the  *)
(* text of a snapshot or arrives behind it; a text that was empty when its *)
(* snapshot was sent has the first chunks, each once, and the others arrive*)
(* behind it.                                                              *)
(***************************************************************************)
Later(k, m, i) == \E j \in DOMAIN Coming : j > k /\ IsDelta(j, m) /\ Coming[j].chunk = <<m, i>>

Complete(k, s) ==
    \A i \in DOMAIN handled[s.msg] : Has(s.text, <<s.msg, i>>) \/ Later(k, s.msg, i)
Exact(k, s) ==
    /\ \A i \in DOMAIN s.text : i \in DOMAIN handled[s.msg] /\ s.text[i] = <<s.msg, i>>
    /\ \A i \in DOMAIN handled[s.msg] : i > Len(s.text) => Later(k, s.msg, i)
    /\ \A j \in DOMAIN Coming :
         j > k /\ IsDelta(j, s.msg) => Coming[j].chunk[2] > Len(s.text)
Follows(k, s) == Complete(k, s) /\ (s.exact => Exact(k, s))

TextInv ==
    \A k \in Places, s \in Streams :
        k <= Len(wire) /\ Held(k) /\ View(k).stream = s => Follows(k, s)

LEMMA FollowsMoves ==
    ASSUME NEW p \in {0, 1}, Moved(p), Passed(p), NEW k \in Nat, NEW s, Follows(k + p, s),
           UNCHANGED handled
    PROVE  Follows(k, s)'
<1>1. ASSUME NEW m, NEW i, Later(k + p, m, i) PROVE Later(k, m, i)'
  <2>1. PICK j \in DOMAIN Coming : j > k + p /\ IsDelta(j, m) /\ Coming[j].chunk = <<m, i>>
    BY <1>1 DEF Later
  <2>2. j \in Nat /\ j > p /\ j - p > k
    BY <2>1 DEF Passed
  <2>3. j - p \in DOMAIN Coming' /\ Coming'[j - p] = Coming[j]
    BY <2>1, <2>2 DEF Passed, IsDelta
  <2>4. QED
    BY <2>1, <2>2, <2>3 DEF Later, IsDelta
<1>2. Complete(k, s)'
  BY <1>1 DEF Follows, Complete
<1>3. ASSUME s.exact PROVE Exact(k, s)'
  <2>1. Exact(k + p, s)
    BY <1>3 DEF Follows
  <2>2. \A j \in DOMAIN Coming' :
           j > k /\ IsDelta(j, s.msg)' => Coming'[j].chunk[2] > Len(s.text)
    <3>1. \A j \in DOMAIN Coming' : j > k /\ IsDelta(j, s.msg)' =>
            /\ j + p \in DOMAIN Coming /\ Coming'[j] = Coming[j + p] /\ j + p > k + p
            /\ IsDelta(j + p, s.msg)
      BY DEF Moved, IsDelta
    <3>2. QED
      BY <2>1, <3>1 DEF Exact
  <2>3. QED
    BY <1>1, <2>1, <2>2 DEF Exact
<1>4. QED
  BY <1>2, <1>3 DEF Follows

\* The buffer gets events that are no deltas, or nothing happens on the way.
LEMMA StillText ==
    ASSUME Types, TextInv, UNCHANGED <<wire, buffer, handled>>,
           UNCHANGED <<snapshot, missed>> \/ snapshot' = None
    PROVE  TextInv'
<1>1. Coming' = Coming /\ Places' = Places
  BY DEF Coming, Places
<1>2. Moved(0) /\ Passed(0)
  BY StillPassed
<1>3. SUFFICES ASSUME NEW k \in Places', NEW s \in Streams, k <= Len(wire)', Held(k)',
                      View(k)'.stream = s
               PROVE  Follows(k, s)'
  BY DEF TextInv
<1>4. k \in Nat /\ k + 0 = k /\ Held(k) /\ View(k).stream = s /\ k <= Len(wire)
  <2>1. k \in Nat
    BY <1>1, WayTypes DEF Types, Places
  <2>2. QED
    BY <1>1, <1>3, <2>1 DEF Held, View
<1>5. Follows(k + 0, s)
  BY <1>1, <1>4 DEF TextInv
<1>6. QED
  BY <1>2, <1>4, <1>5, FollowsMoves

LEMMA TextGrows ==
    ASSUME Types, TextInv, NEW r \in Seq(Buffered), buffer' = buffer \o r,
           UNCHANGED <<wire, snapshot, missed, handled>>, \A i \in DOMAIN r : r[i].type # "delta"
    PROVE  TextInv'
<1>1. Moved(0) /\ Passed(0)
  BY MovedGrows, GrowPassed
<1>2. SUFFICES ASSUME NEW k \in Places', NEW s \in Streams, k <= Len(wire)', Held(k)',
                      View(k)'.stream = s
               PROVE  Follows(k, s)'
  BY DEF TextInv
<1>3. k \in Places /\ k \in Nat /\ k + 0 = k /\ k <= Len(wire)
  <2>1. /\ Len(wire) \in Nat /\ Len(buffer) \in Nat /\ Len(Coming) = Len(wire) + Len(buffer)
        /\ Len(Coming)' \in Nat
    <3>1. Len(Coming)' = Len(Coming) + Len(r) /\ Len(Coming) \in Nat /\ Len(r) \in Nat
      BY WayGrows
    <3>2. QED
      BY <3>1, WayTypes DEF Types
  <2>2. QED
    BY <1>2, <2>1 DEF Places
<1>4. Held(k) /\ View(k).stream = s
  BY <1>2, <1>3, WayGrows
<1>5. Follows(k + 0, s)
  BY <1>3, <1>4 DEF TextInv
<1>6. QED
  BY <1>1, <1>3, <1>5, FollowsMoves

LEMMA TextBroadcast ==
    ASSUME Types, CurrentInv, TextInv, NEW r \in Seq(Buffered), Broadcast(r),
           UNCHANGED <<snapshot, missed, handled>>, \A i \in DOMAIN r : r[i].type # "delta"
    PROVE  TextInv'
<1>1. CASE buffer' = buffer \o r /\ UNCHANGED <<wire, snapshot, missed>>
  BY <1>1, TextGrows
<1>2. CASE \A k \in Places' : ~Held(k)'
  BY <1>2 DEF TextInv
<1>3. QED
  BY <1>1, <1>2, BroadcastPlaces DEF CurrentInv

\* A chunk that is handled arrives behind everything there is.
LEMMA ProgressText ==
    ASSUME Types, CurrentInv, ChunksInv, TextInv, NEW m \in MsgIds, HandleProgress(m)
    PROVE  TextInv'
<1>0. /\ Len(handled[m]) \in Nat /\ DOMAIN handled[m] = 1..Len(handled[m])
      /\ DOMAIN handled'[m] = 1 .. Len(handled[m]) + 1
      /\ \A x \in MsgIds \ {m} : handled'[x] = handled[x]
      /\ wire' = wire
  BY ProgressHandles
<1>1. CASE \A k \in Places' : ~Held(k)'
  BY <1>1 DEF TextInv
<1>2. ASSUME NEW e \in DeltaEvents, NEW last \in Nat, Joins(m, e, last)
      PROVE  TextInv'
  <2>0. /\ e.type = "delta" /\ e.msg = m /\ e.id = dialog[m]
        /\ e.sequence = numbers[dialog[m]] + 1 /\ e.chunk = <<m, Len(handled[m]) + 1>>
        /\ last \in DOMAIN Coming' /\ Coming'[last] = e
        /\ \A j \in DOMAIN Coming :
             j \in DOMAIN Coming' /\ Coming'[j] = Coming[j] /\ j < last /\ j \in Nat
        /\ \A j \in DOMAIN Coming' : j \in DOMAIN Coming \/ j = last
        /\ \A k \in Places' : Held(k)' =>
             /\ k \in Places /\ k < last /\ k \in Nat /\ Held(k)
             /\ View(k)' = View(k) /\ Runner(k)' = Runner(k)
    BY <1>2 DEF Joins
  <2>1. SUFFICES ASSUME NEW k \in Places', NEW s \in Streams, k <= Len(wire)', Held(k)',
                        View(k)'.stream = s
                 PROVE  Follows(k, s)'
    BY DEF TextInv
  <2>2. k \in Places /\ k < last /\ k \in Nat /\ Held(k) /\ View(k).stream = s /\ k <= Len(wire)
    BY <1>0, <2>0, <2>1
  <2>3. Follows(k, s) /\ s.msg \in MsgIds /\ s.text \in Texts
    BY <2>2 DEF TextInv, Streams
  <2>4. PICK n \in Nat : n = Len(handled[m]) + 1
    BY <1>0
  <2>5. /\ \A x, i : Later(k, x, i) => Later(k, x, i)'
        /\ Later(k, m, n)'
    <3>1. e.chunk = <<m, n>> /\ last > k
      BY <2>0, <2>2, <2>4
    <3>2. Later(k, m, n)'
      BY <2>0, <3>1 DEF Later, IsDelta
    <3>3. \A x, i : Later(k, x, i) => Later(k, x, i)'
      BY <2>0 DEF Later, IsDelta
    <3>4. QED
      BY <3>2, <3>3
  <2>6. \A i \in DOMAIN handled'[s.msg] : i \in DOMAIN handled[s.msg] \/ (s.msg = m /\ i = n)
    BY <1>0, <2>3, <2>4
  <2>7. DOMAIN handled[s.msg] \subseteq DOMAIN handled'[s.msg]
    BY <1>0, <2>3
  <2>8. Complete(k, s)'
    <3>1. \A i \in DOMAIN handled[s.msg] : Has(s.text, <<s.msg, i>>) \/ Later(k, s.msg, i)'
      BY <2>3, <2>5 DEF Follows, Complete
    <3>2. \A i \in DOMAIN handled'[s.msg] : Has(s.text, <<s.msg, i>>) \/ Later(k, s.msg, i)'
      BY <2>5, <2>6, <3>1
    <3>3. QED
      BY <3>2 DEF Complete
  <2>9. ASSUME s.exact PROVE Exact(k, s)'
    <3>1. Exact(k, s)
      BY <2>3, <2>9 DEF Follows
    <3>2. \A i \in DOMAIN s.text : i \in DOMAIN handled'[s.msg] /\ s.text[i] = <<s.msg, i>>
      BY <2>7, <3>1 DEF Exact
    <3>3. \A i \in DOMAIN handled'[s.msg] : i > Len(s.text) => Later(k, s.msg, i)'
      <4>1. \A i \in DOMAIN handled[s.msg] : i > Len(s.text) => Later(k, s.msg, i)'
        BY <2>5, <3>1 DEF Exact
      <4>2. QED
        BY <2>5, <2>6, <4>1
    <3>4. ASSUME NEW j \in DOMAIN Coming', j > k, IsDelta(j, s.msg)'
          PROVE  Coming'[j].chunk[2] > Len(s.text)
      <4>1. CASE j \in DOMAIN Coming
        BY <2>0, <3>1, <3>4, <4>1 DEF Exact, IsDelta
      <4>2. CASE j = last
        <5>1. s.msg = m
          BY <2>0, <3>4, <4>2 DEF IsDelta
        <5>2. Len(s.text) \in Nat /\ DOMAIN s.text = 1..Len(s.text)
          BY <2>3 DEF Texts
        <5>3. Len(s.text) <= Len(handled[m])
          <6>1. CASE Len(s.text) = 0
            BY <1>0, <6>1
          <6>2. CASE Len(s.text) # 0
            <7>1. Len(s.text) \in DOMAIN s.text
              BY <5>2, <6>2
            <7>2. QED
              BY <1>0, <3>1, <5>1, <7>1 DEF Exact
          <6>3. QED
            BY <6>1, <6>2
        <5>4. Coming'[j].chunk[2] = Len(handled[m]) + 1
          BY <2>0, <4>2
        <5>5. QED
          BY <1>0, <5>2, <5>3, <5>4
      <4>3. QED
        BY <2>0, <4>1, <4>2
    <3>5. QED
      BY <3>2, <3>3, <3>4 DEF Exact
  <2>10. QED
    BY <2>8, <2>9 DEF Follows
<1>3. QED
  BY <1>1, <1>2, DeltaAdded

\* What is sent has all chunks that were handled, and is exact only before the
\* first one.
LEMMA SentFollows ==
    ASSUME Types, ChunksInv, DeltaInv, NEW a \in MsgIds, NEW s, NEW k, s.msg = a,
           s.text = partial[a], s.exact = (partial[a] = <<>>)
    PROVE  Follows(k, s)
<1>1. Complete(k, s)
  BY DEF ChunksInv, Partials, Complete
<1>2. ASSUME s.exact PROVE Exact(k, s)
  <2>1. s.text = <<>> /\ DOMAIN s.text = {}
    <3>1. s.text = <<>>
      BY <1>2
    <3>2. QED
      BY <3>1
  <2>2. DOMAIN handled[a] = {}
    BY <2>1 DEF ChunksInv, Partials, Has
  <2>3. \A j \in DOMAIN Coming : ~IsDelta(j, a)
    BY <2>2 DEF IsDelta, DeltaInv, DeltasTold, Told
  <2>4. QED
    BY <2>1, <2>2, <2>3 DEF Exact
<1>3. QED
  BY <1>1, <1>2 DEF Follows

LEMMA SendText ==
    ASSUME Types, ChunksInv, DeltaInv, TextInv, Send
    PROVE  TextInv'
<1>1. Moved(0) /\ Passed(0) /\ UNCHANGED handled
  BY MovedSend, SendPassed DEF Send, containerVars
<1>2. SUFFICES ASSUME NEW k \in Places', NEW s \in Streams, k <= Len(wire)', Held(k)',
                      View(k)'.stream = s
               PROVE  Follows(k, s)'
  BY DEF TextInv
<1>3. PICK n \in Nat :
         /\ n = Len(wire) + 1 /\ Len(wire) \in Nat /\ Len(wire)' = n
         /\ n \in DOMAIN Coming /\ DOMAIN Coming' = DOMAIN Coming /\ Places' = Places
         /\ Coming[n] \in Buffered /\ Coming'[n] = Serialised(Coming[n])
         /\ \A j \in DOMAIN Coming : j # n => Coming'[j] = Coming[j]
  BY WayMoves
<1>4. k \in Places /\ k \in Nat /\ k + 0 = k /\ Held(k)
  BY <1>2, PlacesMove, WayTypes DEF Types, Places
<1>5. Follows(k + 0, s)
  <2>1. CASE k <= Len(wire)
    <3>1. View(k)' = View(k)
      BY <1>4, <2>1, PlacesMove
    <3>2. QED
      BY <1>2, <1>4, <2>1, <3>1 DEF TextInv
  <2>2. CASE k = n
    <3>1. k # 0 /\ Coming[n].type = "snapshot" /\ View(k)' = Serialised(Coming[n])
      BY <1>3, <1>4, <2>2 DEF Held, View
    <3>2. Coming[n] \in Snapshots(MsgIds \cup {None}) /\ Coming[n].stream \in MsgIds \cup {None}
      <4>1. Coming[n] \in Snapshots(MsgIds \cup {None})
        BY <1>3, <3>1, EventKinds
      <4>2. QED
        BY <4>1 DEF Snapshots
    <3>3. View(k)'.stream =
             IF Coming[n].stream = None THEN None
             ELSE [msg |-> Coming[n].stream, text |-> partial[Coming[n].stream],
                   exact |-> partial[Coming[n].stream] = <<>>]
      BY <3>1, <3>2 DEF Serialised, Snapshots
    <3>4. s # None
      BY AnswerOf
    <3>5. PICK a \in MsgIds : a = Coming[n].stream
      BY <1>2, <3>2, <3>3, <3>4
    <3>6. s = [msg |-> a, text |-> partial[a], exact |-> partial[a] = <<>>]
      BY <1>2, <3>3, <3>4, <3>5
    <3>7. s.msg = a /\ s.text = partial[a] /\ s.exact = (partial[a] = <<>>)
      BY <3>6
    <3>8. QED
      BY <1>4, <3>7, SentFollows
  <2>3. QED
    BY <1>2, <1>3, <1>4, <2>1, <2>2
<1>6. QED
  BY <1>1, <1>4, <1>5, FollowsMoves

\* An event that is no delta of the answer leaves the text as it is.
LEMMA FollowsOther ==
    ASSUME \A j \in DOMAIN Coming : j \in Nat, NEW s, Follows(0, s), ~IsDelta(1, s.msg)
    PROVE  Follows(1, s)
<1>1. \A j \in DOMAIN Coming : j > 0 /\ IsDelta(j, s.msg) <=> j > 1 /\ IsDelta(j, s.msg)
  <2>1. \A j \in DOMAIN Coming : j > 0 <=> j = 1 \/ j > 1
    OBVIOUS
  <2>2. QED
    BY <2>1
<1>2. \A i : Later(0, s.msg, i) => Later(1, s.msg, i)
  BY <1>1 DEF Later
<1>3. Complete(1, s)
  BY <1>2 DEF Follows, Complete
<1>4. s.exact => Exact(1, s)
  BY <1>1, <1>2 DEF Follows, Exact
<1>5. QED
  BY <1>3, <1>4 DEF Follows

\* A delta of the answer is the next chunk of an exact text.
LEMMA FollowsDelta ==
    ASSUME Types, ChunksInv, DeltaInv, \A j \in DOMAIN Coming : j \in Nat, 1 \in DOMAIN Coming,
           NEW s \in Streams, NEW t \in Streams, Follows(0, s), IsDelta(1, s.msg),
           t.msg = s.msg, t.exact = s.exact, t.text = Append(s.text, Coming[1].chunk)
    PROVE  Follows(1, t)
<1>1. PICK m \in MsgIds : m = s.msg /\ m = t.msg
  BY DEF Streams
<1>2. Coming[1].type = "delta" /\ Coming[1].msg = m /\ Coming[1].chunk \in Chunks
  BY <1>1, DeltaTypes DEF IsDelta
<1>3. PICK n \in DOMAIN handled[m] : Coming[1].chunk = <<m, n>>
  BY <1>2 DEF DeltaInv, DeltasTold, Told
<1>4. Len(handled[m]) \in Nat /\ DOMAIN handled[m] = 1..Len(handled[m]) /\ n \in Nat
  <2>1. Len(handled[m]) \in Nat /\ DOMAIN handled[m] = 1..Len(handled[m])
    BY DEF ChunksInv, Numbered, Texts
  <2>2. QED
    BY <2>1
<1>5. /\ s.text \in Seq(Chunks) /\ t.text = Append(s.text, <<m, n>>) /\ <<m, n>> \in Chunks
  BY <1>2, <1>3 DEF Streams, Texts
<1>6. \A x : Has(t.text, x) <=> Has(s.text, x) \/ x = <<m, n>>
  BY <1>5, HasAppend
<1>7. \A j \in DOMAIN Coming : j > 0 => j = 1 \/ j > 1
  OBVIOUS
<1>8. \A i : Later(0, m, i) => Later(1, m, i) \/ <<m, i>> = <<m, n>>
  BY <1>3, <1>7 DEF Later
<1>9. Complete(1, t)
  BY <1>1, <1>6, <1>8 DEF Follows, Complete
<1>10. ASSUME NEW j \in DOMAIN Coming, j > 1, IsDelta(j, m)
       PROVE  n < Coming[j].chunk[2]
  BY <1>2, <1>3, <1>10 DEF DeltaInv, DeltasOrdered, IsDelta
<1>11. ASSUME t.exact PROVE Exact(1, t)
  <2>1. /\ \A i \in DOMAIN s.text : i \in DOMAIN handled[m] /\ s.text[i] = <<m, i>>
        /\ \A i \in DOMAIN handled[m] : i > Len(s.text) => Later(0, m, i)
        /\ \A j \in DOMAIN Coming :
             j > 0 /\ IsDelta(j, m) => Coming[j].chunk[2] > Len(s.text)
    BY <1>1, <1>11 DEF Follows, Exact
  <2>2. Len(s.text) \in Nat /\ Len(s.text) < n
    <3>1. Coming[1].chunk[2] > Len(s.text)
      BY <1>1, <2>1
    <3>2. Len(s.text) \in Nat
      BY <1>5
    <3>3. QED
      BY <1>3, <1>4, <3>1, <3>2
  <2>3. n = Len(s.text) + 1
    <3>1. PICK i \in Nat : i = Len(s.text) + 1
      BY <2>2
    <3>2. i \in DOMAIN handled[m] /\ i > Len(s.text) /\ i <= n
      BY <1>4, <2>2, <3>1
    <3>3. PICK j \in DOMAIN Coming : j > 0 /\ IsDelta(j, m) /\ Coming[j].chunk = <<m, i>>
      BY <2>1, <3>2 DEF Later
    <3>4. CASE j = 1
      BY <1>3, <3>1, <3>3, <3>4
    <3>5. CASE j > 1
      <4>1. n < i
        BY <1>10, <3>3, <3>5
      <4>2. QED
        BY <1>4, <3>2, <4>1
    <3>6. QED
      BY <1>7, <3>3, <3>4, <3>5
  <2>4. /\ Len(t.text) = n /\ DOMAIN t.text = 1..n
        /\ \A i \in 1..n : i = n \/ (i \in DOMAIN s.text /\ t.text[i] = s.text[i])
        /\ t.text[n] = <<m, n>>
    BY <1>5, <2>2, <2>3
  <2>5. \A i \in DOMAIN t.text : i \in DOMAIN handled[m] /\ t.text[i] = <<m, i>>
    BY <2>1, <2>4
  <2>6. \A i \in DOMAIN handled[m] : i > Len(t.text) => Later(1, m, i)
    <3>. SUFFICES ASSUME NEW i \in DOMAIN handled[m], i > n PROVE Later(1, m, i)
      BY <2>4
    <3>1. i > Len(s.text) /\ i # n
      BY <1>4, <2>2
    <3>2. Later(0, m, i)
      BY <2>1, <3>1
    <3>3. QED
      BY <1>8, <3>1, <3>2
  <2>7. \A j \in DOMAIN Coming : j > 1 /\ IsDelta(j, m) => Coming[j].chunk[2] > Len(t.text)
    <3>. SUFFICES ASSUME NEW j \in DOMAIN Coming, j > 1, IsDelta(j, m)
                  PROVE  Coming[j].chunk[2] > n
      BY <2>4
    <3>1. n < Coming[j].chunk[2]
      BY <1>10
    <3>2. QED
      BY <3>1
  <2>8. QED
    BY <1>1, <2>5, <2>6, <2>7 DEF Exact
<1>12. QED
  BY <1>9, <1>11 DEF Follows

\* The screen: a delta of the dialog belongs to the answer on the screen.
LEMMA ScreenText ==
    ASSUME Types, ChunksInv, DeltaInv, MixInv, TextInv, Receive, Held(0), Held(0)',
           NEW t \in Streams, snapshot'.stream = t, ~IsSnapshot(1, snapshot.id),
           \/ Coming[1] \in DeltaEvents /\ OnDelta(Coming[1])
           \/ Coming[1].type # "delta" /\ snapshot'.stream = snapshot.stream
    PROVE  Follows(1, t)
<1>1. /\ 1 \in DOMAIN Coming /\ Len(wire) \in Nat /\ \A j \in DOMAIN Coming : j \in Nat
  BY WayShrinks
<1>2. /\ 0 \in Places /\ 0 <= Len(wire) /\ View(0) = snapshot
      /\ snapshot # None /\ snapshot \in Snapshots(Streams \cup {None})
  BY <1>1, PlacesShrink DEF Held, View, Types, ViewTypes
<1>3. snapshot.stream \in Streams \cup {None} /\ snapshot.id \in Dialogs
  BY <1>2 DEF Snapshots
<1>4. t # None
  BY AnswerOf
<1>5. CASE snapshot'.stream = snapshot.stream /\ ~IsDelta(1, t.msg)
  <2>1. Follows(0, t)
    BY <1>2, <1>5 DEF TextInv
  <2>2. QED
    BY <1>1, <1>5, <2>1, FollowsOther
<1>6. CASE Coming[1] \in DeltaEvents /\ OnDelta(Coming[1])
  <2>1. PICK e \in DeltaEvents : e = Coming[1] /\ e.type = "delta" /\ OnDelta(e)
    BY <1>6 DEF DeltaEvents
  <2>2. <<e.msg, e.sequence>> \notin seen /\ e.id = dialog[e.msg] /\ e.msg \in MsgIds
    BY <1>1, <2>1, DeltaTypes DEF DeltaInv, DeltasUnseen, DeltasTold, Told
  <2>3. PICK s \in Streams : s = snapshot.stream
    <3>1. snapshot.stream # None
      <4>1. CASE snapshot' = snapshot
        BY <1>4, <4>1
      <4>2. CASE snapshot' # snapshot
        BY <2>1, <4>2 DEF OnDelta
      <4>3. QED
        BY <4>1, <4>2
    <3>2. QED
      BY <1>3, <3>1
  <2>4. Runner(0) = s.msg /\ s.msg \in MsgIds
    <3>1. ~(0 > Len(wire))
      BY <1>1
    <3>2. QED
      BY <1>2, <2>3, <3>1, AnswerOf DEF Runner
  <2>5. Own(0, snapshot.id, s.msg) /\ Follows(0, s)
    <3>1. Own(0, snapshot.id, s.msg)
      BY <1>2, <1>3, <2>4 DEF MixInv
    <3>2. Follows(0, s)
      BY <1>2, <2>3 DEF TextInv
    <3>3. QED
      BY <3>1, <3>2
  <2>6. CASE e.id = snapshot.id
    <3>1. e.msg = s.msg
      <4>1. Between(0, 1, snapshot.id)
        BY <1>1 DEF Between
      <4>2. QED
        BY <1>1, <2>1, <2>5, <2>6, <4>1 DEF Own, Mix
    <3>2. snapshot' = [snapshot EXCEPT !.stream.text = Append(@, e.chunk)]
      BY <1>2, <1>4, <2>1, <2>2, <2>3, <2>6, AnswerOf DEF OnDelta, Shows
    <3>3. t.msg = s.msg /\ t.exact = s.exact /\ t.text = Append(s.text, e.chunk)
      BY <1>2, <2>3, <3>2 DEF Snapshots, Streams
    <3>4. QED
      BY <1>1, <2>1, <2>5, <3>1, <3>3, FollowsDelta DEF IsDelta
  <2>7. CASE e.id # snapshot.id
    <3>1. snapshot' = snapshot
      BY <2>1, <2>7 DEF OnDelta, Shows
    <3>2. e.msg # s.msg
      BY <2>2, <2>5, <2>7 DEF Own
    <3>3. t = s /\ ~IsDelta(1, t.msg)
      BY <2>1, <2>3, <3>1, <3>2 DEF IsDelta
    <3>4. QED
      BY <1>5, <3>1, <3>3
  <2>8. QED
    BY <2>6, <2>7
<1>7. CASE Coming[1].type # "delta" /\ snapshot'.stream = snapshot.stream
  BY <1>5, <1>7 DEF IsDelta
<1>8. QED
  BY <1>6, <1>7

LEMMA ReceiveText ==
    ASSUME Types, ChunksInv, DeltaInv, MixInv, TextInv, Receive
    PROVE  TextInv'
<1>1. Moved(1) /\ Passed(1) /\ UNCHANGED handled
  BY MovedReceive, ReceivePassed DEF Receive, containerVars
<1>2. SUFFICES ASSUME NEW k \in Places', NEW s \in Streams, k <= Len(wire)', Held(k)',
                      View(k)'.stream = s
               PROVE  Follows(k, s)'
  BY DEF TextInv
<1>3. CASE k # 0
  <2>1. /\ k + 1 \in Places /\ k \in Nat /\ Held(k + 1) /\ View(k)' = View(k + 1)
        /\ k + 1 <= Len(wire)
    BY <1>2, <1>3, PlacesShrink
  <2>2. PICK j \in Places : j = k + 1
    BY <2>1
  <2>3. Follows(j, s)
    BY <1>2, <2>1, <2>2 DEF TextInv
  <2>4. Follows(k + 1, s)
    BY <2>2, <2>3
  <2>5. QED
    BY <1>1, <2>1, <2>4, FollowsMoves
<1>4. CASE k = 0
  <2>1. 1 \in Places /\ 0 + 1 = 1 /\ 0 \in Nat /\ View(0)' = snapshot' /\ s # None
    BY PlacesShrink, AnswerOf DEF View
  <2>2. Follows(0 + 1, s)
    <3>1. CASE Held(1) /\ View(0)' = View(1) /\ 1 <= Len(wire)
      BY <1>2, <1>4, <2>1, <3>1 DEF TextInv
    <3>2. CASE /\ Held(0) /\ ~IsSnapshot(1, snapshot.id)
               /\ \/ Coming[1] \in DeltaEvents /\ OnDelta(Coming[1])
                  \/ Coming[1].type # "delta" /\ snapshot'.stream = snapshot.stream
      BY <1>2, <1>4, <2>1, <3>2, ScreenText
    <3>3. QED
      BY <1>2, <1>4, <2>1, <3>1, <3>2, Arrives
  <2>3. QED
    BY <1>1, <1>4, <2>1, <2>2, FollowsMoves
<1>5. QED
  BY <1>3, <1>4

LEMMA InitText == Init => TextInv
<1>. SUFFICES ASSUME Init PROVE TextInv
  OBVIOUS
<1>1. Coming = <<>> /\ snapshot = None
  BY DEF Init, Coming
<1>2. \A k : ~Held(k)
  BY <1>1 DEF Held
<1>3. QED
  BY <1>2 DEF TextInv

LEMMA NextText ==
    Types /\ CurrentInv /\ ChunksInv /\ DeltaInv /\ MixInv /\ TextInv /\ [Next]_vars => TextInv'
<1>. SUFFICES ASSUME Types, CurrentInv, ChunksInv, DeltaInv, MixInv, TextInv, [Next]_vars
              PROVE  TextInv'
  OBVIOUS
<1>1. ASSUME NEW d \in Dialogs, NewChat(d) \/ SelectDialog(d) PROVE TextInv'
  <2>1. /\ UNCHANGED <<wire, buffer, handled>>
        /\ UNCHANGED <<snapshot, missed>> \/ snapshot' = None
    BY <1>1 DEF NewChat, SelectDialog, Subscribe, containerVars
  <2>2. QED
    BY <2>1, StillText
<1>2. ASSUME NEW m \in MsgIds, Post(m) \/ Turn(m) PROVE TextInv'
  <2>1. UNCHANGED <<wire, buffer, snapshot, missed, handled>>
    BY <1>2 DEF Post, Turn, Chunk, EndStream, FailStream, containerVars, socketVars, browserVars
  <2>2. QED
    BY <2>1, StillText
<1>3. ASSUME NEW m \in MsgIds, Begin(m) \/ HandleComplete(m) \/ HandleError(m) PROVE TextInv'
  <2>1. UNCHANGED <<snapshot, missed, handled>>
    BY <1>3 DEF Begin, HandleComplete, HandleError, browserVars
  <2>2. QED
    BY <1>3, <2>1, HandlersTell, TextBroadcast
<1>4. CASE Serve
  <2>1. UNCHANGED handled
    BY <1>4 DEF Serve, containerVars
  <2>2. QED
    BY <1>4, <2>1, ServeTells, TextGrows
<1>5. CASE Break
  <2>1. missed' /\ Coming' = <<>>
    BY <1>5 DEF Break, Coming
  <2>2. \A k : ~Held(k)'
    BY <2>1 DEF Held
  <2>3. QED
    BY <2>2 DEF TextInv
<1>6. CASE Reconnect \/ UNCHANGED vars
  <2>1. UNCHANGED <<wire, buffer, snapshot, missed, handled>>
    BY <1>6 DEF Reconnect, vars, containerVars, socketVars, browserVars
  <2>2. QED
    BY <2>1, StillText
<1>7. QED
  BY <1>1, <1>2, <1>3, <1>4, <1>5, <1>6, ProgressText, SendText, ReceiveText
     DEF Next, User, System, Turn, Handle

\* What the events on the way say of the answer on the screen.
LEMMA OnScreen ==
    ASSUME Types, ChunksInv, DeltaInv, TextInv, snapshot # None, ~missed, snapshot.stream # None
    PROVE  /\ snapshot.stream \in Streams /\ Follows(0, snapshot.stream)
           /\ \A j \in DOMAIN Coming : j > 0
<1>1. /\ Len(wire) \in Nat /\ DOMAIN Coming = 1..Len(Coming) /\ Len(Coming) \in Nat
      /\ snapshot \in Snapshots(Streams \cup {None})
  BY WayTypes DEF Types, ViewTypes
<1>2. 0 \in Places /\ 0 <= Len(wire) /\ Held(0) /\ View(0) = snapshot
  BY <1>1 DEF Places, Held, View
<1>3. snapshot.stream \in Streams
  BY <1>1 DEF Snapshots
<1>4. QED
  BY <1>1, <1>2, <1>3 DEF TextInv

\* An answer on the screen lacks no chunk that was broadcast and is not on its
\* way, wherever in the stream the browser joined.
THEOREM ChunksCorrect == Spec => []NoChunkMissing
<1>1. Types /\ ChunksInv /\ DeltaInv /\ TextInv => NoChunkMissing
  <2>. SUFFICES ASSUME Types, ChunksInv, DeltaInv, TextInv, snapshot # None, ~missed,
                       snapshot.stream # None, NEW c \in ToSet(handled[snapshot.stream.msg])
                PROVE  c \in ToSet(snapshot.stream.text) \cup ChunksComing(snapshot.stream.msg)
    BY DEF NoChunkMissing
  <2>1. PICK s \in Streams : s = snapshot.stream /\ Complete(0, s) /\ s.msg \in MsgIds
    BY OnScreen DEF Follows, Streams
  <2>2. PICK i \in DOMAIN handled[s.msg] : c = handled[s.msg][i]
    BY <2>1 DEF ToSet
  <2>3. c = <<s.msg, i>>
    BY <2>1, <2>2 DEF ChunksInv, Numbered
  <2>4. CASE Has(s.text, c)
    BY <2>1, <2>4 DEF Has, ToSet
  <2>5. CASE Later(0, s.msg, i)
    BY <2>1, <2>3, <2>5 DEF Later, IsDelta, ChunksComing, Arriving
  <2>6. QED
    BY <2>1, <2>2, <2>3, <2>4, <2>5 DEF Complete
<1>2. SingleInv => StoredOnce
  BY DEF SingleInv
<1>3. QED
  BY <1>1, <1>2, InitTypes, NextTypes, InitCurrent, NextCurrent, InitSingle, NextSingle,
     InitTurns, NextTurns, InitChunks, NextChunks, InitLists, NextLists, InitDeltas, NextDeltas,
     InitMix, NextMix, InitText, NextText, PTL DEF Spec

\* An answer that is followed from its beginning shows the first chunks that were
\* broadcast, each once and in order, and the others arrive in their order.
THEOREM TextCorrect == Spec => []TextExact
<1>1. Types /\ ChunksInv /\ DeltaInv /\ TextInv => TextExact
  <2>. SUFFICES ASSUME Types, ChunksInv, DeltaInv, TextInv, snapshot # None, ~missed,
                       snapshot.stream # None, snapshot.stream.exact
                PROVE  LET m == snapshot.stream.msg
                           shown == Len(snapshot.stream.text) IN
                       /\ shown <= Len(handled[m])
                       /\ snapshot.stream.text = SubSeq(handled[m], 1, shown)
                       /\ ChunksComing(m) = {handled[m][k] : k \in shown + 1 .. Len(handled[m])}
                       /\ \A i, j \in Arriving(m), k, l \in DOMAIN handled[m] :
                            /\ i < j /\ Coming[i].chunk = handled[m][k]
                            /\ Coming[j].chunk = handled[m][l]
                            => k < l
    BY DEF TextExact
  <2>1. PICK s \in Streams : s = snapshot.stream /\ Exact(0, s) /\ s.text \in Texts
    BY OnScreen DEF Follows, Streams
  <2>2. PICK m \in MsgIds : m = s.msg
    BY DEF Streams
  <2>3. /\ handled[m] \in Texts /\ Len(handled[m]) \in Nat /\ DOMAIN handled[m] = 1..Len(handled[m])
        /\ \A i \in DOMAIN handled[m] : handled[m][i] = <<m, i>>
        /\ Len(s.text) \in Nat /\ DOMAIN s.text = 1..Len(s.text)
    BY <2>1 DEF ChunksInv, Numbered, Texts
  <2>4. /\ \A i \in DOMAIN s.text : i \in DOMAIN handled[m] /\ s.text[i] = <<m, i>>
        /\ \A i \in DOMAIN handled[m] : i > Len(s.text) => Later(0, m, i)
        /\ \A j \in DOMAIN Coming : j > 0 /\ IsDelta(j, m) => Coming[j].chunk[2] > Len(s.text)
    BY <2>1, <2>2 DEF Exact
  <2>5. Len(s.text) <= Len(handled[m])
    <3>1. CASE Len(s.text) = 0
      BY <2>3, <3>1
    <3>2. CASE Len(s.text) # 0
      <4>1. Len(s.text) \in DOMAIN s.text
        BY <2>3, <3>2
      <4>2. QED
        BY <2>3, <2>4, <4>1
    <3>3. QED
      BY <3>1, <3>2
  <2>6. s.text = SubSeq(handled[m], 1, Len(s.text))
    <3>1. PICK q : q = SubSeq(handled[m], 1, Len(s.text))
      OBVIOUS
    <3>2. /\ q \in Seq(Chunks) /\ Len(q) = Len(s.text)
          /\ \A i \in 1..Len(s.text) : q[i] = handled[m][i]
      BY <2>3, <2>5, <3>1 DEF Texts
    <3>3. s.text \in Seq(Chunks) /\ \A i \in 1..Len(s.text) : s.text[i] = q[i]
      BY <2>1, <2>3, <2>4, <3>2 DEF Texts
    <3>4. s.text = q
      BY <3>2, <3>3
    <3>5. QED
      BY <3>1, <3>4
  <2>7. \A j \in Arriving(m) : j \in DOMAIN Coming /\ j > 0 /\ IsDelta(j, m)
    BY <2>1, OnScreen DEF Arriving, IsDelta
  <2>8. \A j \in Arriving(m) : \E n \in Len(s.text) + 1 .. Len(handled[m]) :
          Coming[j].chunk = <<m, n>>
    <3>1. SUFFICES ASSUME NEW j \in Arriving(m)
                   PROVE  \E n \in Len(s.text) + 1 .. Len(handled[m]) : Coming[j].chunk = <<m, n>>
      OBVIOUS
    <3>2. PICK n \in DOMAIN handled[m] : Coming[j].chunk = <<m, n>>
      BY <2>7 DEF DeltaInv, DeltasTold, Told, IsDelta
    <3>3. n > Len(s.text)
      BY <2>4, <2>7, <3>2
    <3>4. QED
      BY <2>3, <3>2, <3>3
  <2>9. ChunksComing(m) = {handled[m][k] : k \in Len(s.text) + 1 .. Len(handled[m])}
    <3>1. \A k \in Len(s.text) + 1 .. Len(handled[m]) :
            k \in DOMAIN handled[m] /\ k > Len(s.text) /\ handled[m][k] = <<m, k>>
      BY <2>3
    <3>2. \A k \in Len(s.text) + 1 .. Len(handled[m]) :
            \E j \in Arriving(m) : Coming[j].chunk = <<m, k>>
      BY <2>4, <3>1 DEF Later, IsDelta, Arriving
    <3>3. QED
      <4>. DEFINE rest == {handled[m][k] : k \in Len(s.text) + 1 .. Len(handled[m])}
      <4>1. ASSUME NEW c \in ChunksComing(m) PROVE c \in rest
        <5>1. PICK j \in Arriving(m) : c = Coming[j].chunk
          BY <4>1 DEF ChunksComing
        <5>2. PICK n \in Len(s.text) + 1 .. Len(handled[m]) : c = <<m, n>>
          BY <2>8, <5>1
        <5>3. QED
          BY <3>1, <5>2
      <4>2. ASSUME NEW c \in rest PROVE c \in ChunksComing(m)
        <5>1. PICK n \in Len(s.text) + 1 .. Len(handled[m]) : c = <<m, n>>
          BY <3>1, <4>2
        <5>2. PICK j \in Arriving(m) : Coming[j].chunk = <<m, n>>
          BY <3>2
        <5>3. QED
          BY <5>1, <5>2 DEF ChunksComing
      <4>3. QED
        BY <4>1, <4>2
  <2>10. ASSUME NEW i \in Arriving(m), NEW j \in Arriving(m), NEW k \in DOMAIN handled[m],
                NEW l \in DOMAIN handled[m], i < j, Coming[i].chunk = handled[m][k],
                Coming[j].chunk = handled[m][l]
         PROVE  k < l
    <3>1. Coming[i].chunk = <<m, k>> /\ Coming[j].chunk = <<m, l>>
      BY <2>3, <2>10
    <3>2. Coming[i].chunk[2] < Coming[j].chunk[2]
      BY <2>7, <2>10 DEF DeltaInv, DeltasOrdered, IsDelta
    <3>3. QED
      BY <3>1, <3>2
  <2>11. QED
    BY <2>1, <2>2, <2>5, <2>6, <2>9, <2>10
<1>2. SingleInv => StoredOnce
  BY DEF SingleInv
<1>3. QED
  BY <1>1, <1>2, InitTypes, NextTypes, InitCurrent, NextCurrent, InitSingle, NextSingle,
     InitTurns, NextTurns, InitChunks, NextChunks, InitLists, NextLists, InitDeltas, NextDeltas,
     InitMix, NextMix, InitText, NextText, PTL DEF Spec
=============================================================================
