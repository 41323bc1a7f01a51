----------------------------- MODULE DialogView -----------------------------
(***************************************************************************)
(* What a browser shows of a dialog: the handlers of the event bus that    *)
(* broadcast the progress of a turn, the buffer and the socket that carry  *)
(* the events to one browser, the store that folds them into               *)
(* currentSnapshot, and the choice of a dialog in the side bar.            *)
(*                                                                         *)
(* All events are plain dicts, so a snapshot in the buffer still holds the *)
(* placeholder of the running answer by reference: its text is fixed only  *)
(* when the sender task serialises the event (Send).                       *)
(*                                                                         *)
(* Users wait for an answer before they post to the same dialog again, and *)
(* neither the bus nor the buffer overflows: TurnPipeline has the turns    *)
(* that overlap, stop or lose events, ClientBuffers the events dropped.    *)
(***************************************************************************)
EXTENDS FiniteSets, Integers, Sequences, SequencesExt

CONSTANTS
    Dialogs, MsgIds, None,
    NumConsumers,   \* consumers of the bus
    MaxText,        \* bound: chunks of all answers together
    MaxBuffer,      \* bound: events waiting for the sender, the code has 50
    MaxWire,        \* bound: events on the socket
    MaxUplink       \* bound: subscriptions on the socket

ASSUME DialogViewAssumption ==
    /\ None \notin Dialogs \cup MsgIds
    /\ NumConsumers \in Nat \ {0} /\ MaxText \in Nat
    /\ MaxBuffer \in Nat /\ MaxWire \in Nat \ {0} /\ MaxUplink \in Nat
ASSUME StreamsAssumption ==
    None \notin [msg : MsgIds, text : Seq(MsgIds \X Nat), exact : BOOLEAN]

VARIABLES
    created,        \* dialogs the session manager has
    dialog,         \* the dialog each message was posted to
    pc,             \* where the turn of each message is
    said,           \* chunks the model has sent
    stored,         \* answers in the history of each dialog
    bus,            \* queued events
    display,        \* container.state.status
    placeholder,    \* container.state.streaming_msg
    partial,        \* the content of the placeholder made for each message
    acc,            \* container.state.accumulated_content
    numbers,        \* container.state.delta_sequences
    handled,        \* history: the chunks broadcast for each message
    buffer, wire, uplink, up,
                    \* the browser's buffer, both directions of its socket
    active,         \* activeDialogId of the shell
    snapshot,       \* currentSnapshot of the store
    seen,           \* seenDeltas
    missed          \* history: the socket broke since the last snapshot

turnVars == <<dialog, pc, said, stored>>
containerVars == <<display, placeholder, partial, acc, numbers, handled>>
socketVars == <<buffer, wire, uplink, up>>
browserVars == <<active, snapshot, seen, missed>>
vars == <<created, bus, turnVars, containerVars, socketVars, browserVars>>

Executing == {m \in MsgIds : pc[m] = "streaming"}
Active(d) == {m \in MsgIds : dialog[m] = d /\ pc[m] \in {"queued", "streaming"}}

\* An answer is listed under the id of its placeholder when the store
\* completed it, and under an id of its own when the session manager did.
Listed(m, form) == [msg |-> m, form |-> form]

Status(d, s) == [type |-> "status", id |-> d, to |-> s]
Error(d) == [type |-> "error", id |-> d]
Delta(m, chunk, n) ==
    [type |-> "delta", id |-> dialog[m], msg |-> m, chunk |-> chunk, sequence |-> n]

\* build_dialog_snapshot(); stream is a reference to the placeholder.
Built(d, s, p) ==
    [type |-> "snapshot", id |-> d, status |-> s, stream |-> p,
     messages |-> [i \in DOMAIN stored[d] |-> Listed(stored[d][i], "saved")],
     window |-> p # None /\ \E i \in DOMAIN stored[d] : stored[d][i] = p]

\* broadcast(): the events go to the buffer the browser has, if it has one.
Broadcast(events) ==
    /\ Len(buffer) + Len(events) <= MaxBuffer
    /\ buffer' = IF up THEN buffer \o events ELSE buffer
    /\ UNCHANGED <<wire, uplink, up>>
-----------------------------------------------------------------------------
\* POST /api/dialogs/{id}/messages, from the input below the dialog selected.
Post(m) ==
    /\ pc[m] = "new" /\ active # None
    /\ display[active] # "thinking" /\ Active(active) = {}
    /\ dialog' = [dialog EXCEPT ![m] = active]
    /\ pc' = [pc EXCEPT ![m] = "queued"]
    /\ bus' = Append(bus, [kind |-> "execute", msg |-> m])
    /\ UNCHANGED <<created, said, stored, containerVars, socketVars, browserVars>>

\* A free consumer takes this event off the bus.
Consume(kind, m) ==
    /\ Cardinality(Executing) < NumConsumers
    /\ bus # <<>> /\ Head(bus) = [kind |-> kind, msg |-> m]
    /\ bus' = Tail(bus)

\* The snapshot is built before the state of the dialog is set (mutant).
BeginSnapshotFirst(m) ==
    LET d == dialog[m] IN
    /\ Consume("execute", m)
    /\ display' = [display EXCEPT ![d] = "thinking"]
    /\ placeholder' = [placeholder EXCEPT ![d] = m]
    /\ pc' = [pc EXCEPT ![m] = "streaming"]
    /\ Broadcast(<<Status(d, "thinking"), Built(d, display[d], placeholder[d])>>)
    /\ UNCHANGED <<created, dialog, said, stored, partial, acc, numbers, handled, browserVars>>

\* _handle_execute_request up to the first chunk.
Begin(m) ==
    LET d == dialog[m] IN
    /\ Consume("execute", m)
    /\ display' = [display EXCEPT ![d] = "thinking"]
    /\ placeholder' = [placeholder EXCEPT ![d] = m]
    /\ pc' = [pc EXCEPT ![m] = "streaming"]
    /\ Broadcast(<<Status(d, "thinking"), Built(d, "thinking", m)>>)
    /\ UNCHANGED <<created, dialog, said, stored, partial, acc, numbers, handled, browserVars>>

\* A chunk of text: it is accumulated and announced to the bus.
Chunk(m) ==
    LET d == dialog[m]
        chunk == <<m, said[m] + 1>> IN
    /\ pc[m] = "streaming" /\ FoldFunction(+, 0, said) < MaxText
    /\ said' = [said EXCEPT ![m] = @ + 1]
    /\ acc' = [acc EXCEPT ![d] = Append(@, chunk)]
    /\ bus' = Append(bus, [kind |-> "progress", msg |-> m,
                           delta |-> chunk, accumulated |-> acc'[d]])
    /\ UNCHANGED <<created, dialog, pc, stored, display, placeholder, partial,
                   numbers, handled, socketVars, browserVars>>

\* The stream ends: the answer is stored, then announced.
EndStream(m) ==
    /\ pc[m] = "streaming" /\ said[m] > 0
    /\ stored' = [stored EXCEPT ![dialog[m]] = Append(@, m)]
    /\ bus' = Append(bus, [kind |-> "complete", msg |-> m])
    /\ pc' = [pc EXCEPT ![m] = "over"]
    /\ UNCHANGED <<created, dialog, said, containerVars, socketVars, browserVars>>

\* The text of a failed stream is stored, and the stream is retried (mutant).
FailAndRetry(m) ==
    /\ pc[m] = "streaming" /\ said[m] > 0 /\ stored[dialog[m]] = <<>>
    /\ stored' = [stored EXCEPT ![dialog[m]] = Append(@, m)]
    /\ UNCHANGED <<created, dialog, pc, said, bus, containerVars, socketVars, browserVars>>

\* The text of a failed stream is stored, but only the failure is announced
\* (mutant).
FailQuietly(m) ==
    /\ pc[m] = "streaming"
    /\ stored' = [stored EXCEPT ![dialog[m]] = IF said[m] > 0 THEN Append(@, m) ELSE @]
    /\ bus' = Append(bus, [kind |-> "error", msg |-> m])
    /\ pc' = [pc EXCEPT ![m] = "over"]
    /\ UNCHANGED <<created, dialog, said, containerVars, socketVars, browserVars>>

\* The stream fails: the text it has, if any, is stored and announced like an
\* answer, and the failure after it.
FailStream(m) ==
    LET partly == said[m] > 0 IN
    /\ pc[m] = "streaming"
    /\ stored' = [stored EXCEPT ![dialog[m]] = IF partly THEN Append(@, m) ELSE @]
    /\ bus' = bus \o (IF partly THEN <<[kind |-> "complete", msg |-> m]>> ELSE <<>>)
                  \o <<[kind |-> "error", msg |-> m]>>
    /\ pc' = [pc EXCEPT ![m] = "over"]
    /\ UNCHANGED <<created, dialog, said, containerVars, socketVars, browserVars>>
-----------------------------------------------------------------------------
\* The deltas of a dialog all get the same number (mutant).
HandleProgressSameNumber(m) ==
    LET d == dialog[m]
        event == Head(bus) IN
    /\ Cardinality(Executing) < NumConsumers
    /\ bus # <<>> /\ event.kind = "progress" /\ event.msg = m
    /\ bus' = Tail(bus)
    /\ acc' = [acc EXCEPT ![d] = Append(@, event.delta)]
    /\ partial' = IF placeholder[d] = None THEN partial
                  ELSE [partial EXCEPT ![placeholder[d]] = event.accumulated]
    /\ handled' = [handled EXCEPT ![m] = Append(@, event.delta)]
    /\ Broadcast(<<Delta(m, event.delta, numbers[d])>>)
    /\ UNCHANGED <<created, turnVars, display, placeholder, numbers, browserVars>>

\* _handle_agent_progress: the text is accumulated once more.
HandleProgress(m) ==
    LET d == dialog[m]
        event == Head(bus)
        n == numbers[d] + 1 IN
    /\ Cardinality(Executing) < NumConsumers
    /\ bus # <<>> /\ event.kind = "progress" /\ event.msg = m
    /\ bus' = Tail(bus)
    /\ acc' = [acc EXCEPT ![d] = Append(@, event.delta)]
    /\ partial' = IF placeholder[d] = None THEN partial
                  ELSE [partial EXCEPT ![placeholder[d]] = event.accumulated]
    /\ numbers' = [numbers EXCEPT ![d] = n]
    /\ handled' = [handled EXCEPT ![m] = Append(@, event.delta)]
    /\ Broadcast(<<Delta(m, event.delta, n)>>)
    /\ UNCHANGED <<created, turnVars, display, placeholder, browserVars>>

\* _handle_agent_complete
HandleComplete(m) ==
    LET d == dialog[m] IN
    /\ Consume("complete", m)
    /\ display' = [display EXCEPT ![d] = "idle"]
    /\ placeholder' = [placeholder EXCEPT ![d] = None]
    /\ Broadcast(<<Status(d, "completed"), Status(d, "idle")>>)
    /\ UNCHANGED <<created, turnVars, partial, acc, numbers, handled, browserVars>>

\* _handle_agent_error
HandleError(m) ==
    LET d == dialog[m] IN
    /\ Consume("error", m)
    /\ display' = [display EXCEPT ![d] = "error"]
    /\ placeholder' = [placeholder EXCEPT ![d] = None]
    /\ Broadcast(<<Error(d), Status(d, "error")>>)
    /\ UNCHANGED <<created, turnVars, partial, acc, numbers, handled, browserVars>>
-----------------------------------------------------------------------------
\* The socket's handler receives a subscription and answers it.
Serve ==
    /\ uplink # <<>>
    /\ LET d == Head(uplink) IN
       /\ Len(buffer) < MaxBuffer
       /\ buffer' = Append(buffer, Built(d, display[d], placeholder[d]))
    /\ uplink' = Tail(uplink)
    /\ UNCHANGED <<created, bus, turnVars, containerVars, wire, up, browserVars>>

\* send_json(): a snapshot gets the text its placeholder has now.
Serialised(e) ==
    IF e.type # "snapshot" THEN e
    ELSE [e EXCEPT !.stream =
            IF @ = None THEN None
            ELSE [msg |-> @, text |-> partial[@], exact |-> partial[@] = <<>>]]

\* The sender task of the buffer.
Send ==
    /\ buffer # <<>> /\ Len(wire) < MaxWire
    /\ wire' = Append(wire, Serialised(Head(buffer)))
    /\ buffer' = Tail(buffer)
    /\ UNCHANGED <<created, bus, turnVars, containerVars, uplink, up, browserVars>>

\* The connection breaks, and the browser connects again 3 seconds later,
\* without a subscription.  A connection that breaks again before a snapshot
\* has arrived shows nothing new (bound).
Break ==
    /\ up /\ ~missed /\ up' = FALSE
    /\ buffer' = <<>> /\ wire' = <<>> /\ uplink' = <<>>
    /\ missed' = TRUE
    /\ UNCHANGED <<created, bus, turnVars, containerVars, active, snapshot, seen>>

Reconnect ==
    /\ ~up /\ up' = TRUE
    /\ UNCHANGED <<created, bus, turnVars, containerVars, buffer, wire, uplink, browserVars>>
-----------------------------------------------------------------------------
\* subscribeToDialog() sends nothing over a socket that is not open.
Subscribe(d) ==
    /\ ~up \/ Len(uplink) < MaxUplink
    /\ uplink' = IF up THEN Append(uplink, d) ELSE uplink
    /\ active' = d
    /\ UNCHANGED <<buffer, wire, up>>

\* handleNewChat: the snapshot on the screen stays.
NewChat(d) ==
    /\ d \notin created /\ created' = created \cup {d}
    /\ Subscribe(d)
    /\ UNCHANGED <<bus, turnVars, containerVars, snapshot, seen, missed>>

\* handleSelectDialog
SelectDialog(d) ==
    /\ d \in created
    /\ Subscribe(d)
    /\ snapshot' = None
    /\ UNCHANGED <<created, bus, turnVars, containerVars, seen, missed>>

\* flushStreamingToMessages: replaces the message with the id or appends it.
Flush(s) ==
    IF s.stream = None THEN s
    ELSE LET done == Listed(s.stream.msg, "streamed") IN
         [s EXCEPT !.stream = None,
                   !.messages = IF \E i \in DOMAIN @ : @[i] = done THEN @
                                ELSE Append(@, done)]

Shows(d) == snapshot # None /\ snapshot.id = d

\* The cases of handleEvent.  The store reads e.data.message of an error, which
\* the server does not send: the exception is caught and nothing changes.
OnSnapshot(e) ==
    /\ e.type = "snapshot"
    /\ IF snapshot = None \/ Shows(e.id)
       THEN snapshot' = e /\ missed' = FALSE
       ELSE UNCHANGED <<snapshot, missed>>
    /\ UNCHANGED seen

\* A delta is added to whatever answer is on the screen (mutant).
OnDeltaOfAnyDialog(e) ==
    LET key == <<e.msg, e.sequence>> IN
    /\ e.type = "delta"
    /\ seen' = seen \cup {key}
    /\ snapshot' = IF key \notin seen /\ snapshot # None /\ snapshot.stream # None
                   THEN [snapshot EXCEPT !.stream.text = Append(@, e.chunk)]
                   ELSE snapshot
    /\ UNCHANGED missed

OnDelta(e) ==
    LET key == <<e.msg, e.sequence>> IN
    /\ e.type = "delta"
    /\ seen' = seen \cup {key}
    /\ snapshot' = IF key \notin seen /\ Shows(e.id) /\ snapshot.stream # None
                   THEN [snapshot EXCEPT !.stream.text = Append(@, e.chunk)]
                   ELSE snapshot
    /\ UNCHANGED missed

OnStatus(e) ==
    /\ e.type = "status"
    /\ LET next == [snapshot EXCEPT !.status = e.to] IN
       snapshot' = IF ~Shows(e.id) THEN snapshot
                   ELSE IF e.to \in {"completed", "idle"} THEN Flush(next)
                   ELSE next
    /\ UNCHANGED <<seen, missed>>

OnError(e) == e.type = "error" /\ UNCHANGED <<snapshot, seen, missed>>

Receive ==
    /\ wire # <<>> /\ wire' = Tail(wire)
    /\ LET e == Head(wire) IN OnSnapshot(e) \/ OnDelta(e) \/ OnStatus(e) \/ OnError(e)
    /\ UNCHANGED <<created, bus, turnVars, containerVars, buffer, uplink, up, active>>
-----------------------------------------------------------------------------
Init ==
    /\ created = {}
    /\ dialog = [m \in MsgIds |-> None]
    /\ pc = [m \in MsgIds |-> "new"]
    /\ said = [m \in MsgIds |-> 0]
    /\ stored = [d \in Dialogs |-> <<>>]
    /\ bus = <<>>
    /\ display = [d \in Dialogs |-> "idle"]
    /\ placeholder = [d \in Dialogs |-> None]
    /\ partial = [m \in MsgIds |-> <<>>]
    /\ acc = [d \in Dialogs |-> <<>>]
    /\ numbers = [d \in Dialogs |-> 0]
    /\ handled = [m \in MsgIds |-> <<>>]
    /\ buffer = <<>> /\ wire = <<>> /\ uplink = <<>> /\ up = TRUE
    /\ active = None /\ snapshot = None /\ seen = {} /\ missed = FALSE

Turn(m) == Chunk(m) \/ EndStream(m) \/ FailStream(m)
Handle(m) == Begin(m) \/ HandleProgress(m) \/ HandleComplete(m) \/ HandleError(m)

User ==
    \/ \E d \in Dialogs : NewChat(d) \/ SelectDialog(d)
    \/ \E m \in MsgIds : Post(m)

System ==
    \/ \E m \in MsgIds : Turn(m) \/ Handle(m)
    \/ Serve \/ Send \/ Receive \/ Reconnect

Next == User \/ System \/ Break

Spec == Init /\ [][Next]_vars

-----------------------------------------------------------------------------
\* Events on their way to the browser, oldest first.
Coming == wire \o buffer

\* Nothing of dialog d is on its way, and nothing was lost.
Settled(d) == ~missed /\ \A i \in DOMAIN Coming : Coming[i].id # d

\* Where the deltas of m are on their way to the browser.
Arriving(m) == {i \in DOMAIN Coming : Coming[i].type = "delta" /\ Coming[i].msg = m}
ChunksComing(m) == {Coming[i].chunk : i \in Arriving(m)}

\* The answers the list of messages has, the last one possibly still growing.
ListedAnswers(s) == [i \in DOMAIN s.messages |-> s.messages[i].msg]

\* Once everything has arrived the dialog on the screen has the status and, but
\* for a failed turn, the running answer the server has: status:change, the
\* snapshots and the completions never overtake each other into a wrong end.
StatusConverges ==
    snapshot # None /\ Settled(snapshot.id) =>
        /\ snapshot.status = display[snapshot.id]
        /\ snapshot.status # "error" =>
             (IF snapshot.stream = None THEN None ELSE snapshot.stream.msg)
                = placeholder[snapshot.id]

\* An answer that is followed from its beginning shows the first chunks that were
\* broadcast, and the others are on their way, each chunk once and in order.
TextExact ==
    snapshot # None /\ ~missed =>
        (snapshot.stream # None /\ snapshot.stream.exact =>
            LET m == snapshot.stream.msg
                shown == Len(snapshot.stream.text) IN
            /\ shown <= Len(handled[m])
            /\ snapshot.stream.text = SubSeq(handled[m], 1, shown)
            /\ ChunksComing(m) = {handled[m][k] : k \in shown + 1 .. Len(handled[m])}
            /\ \A i, j \in Arriving(m), k, l \in DOMAIN handled[m] :
                 /\ i < j /\ Coming[i].chunk = handled[m][k] /\ Coming[j].chunk = handled[m][l]
                 => k < l)

\* An answer that is joined half way lacks no chunk that was broadcast, though
\* it may show some twice.
NoChunkMissing ==
    snapshot # None /\ ~missed =>
        (snapshot.stream # None =>
            LET m == snapshot.stream.msg IN
            ToSet(handled[m]) \subseteq ToSet(snapshot.stream.text) \cup ChunksComing(m))

\* An answer is listed twice only if the snapshot was built between the moment
\* the answer was stored and the moment its completion was handled.
AnswerShownOnce ==
    snapshot # None =>
        \/ snapshot.window
        \/ \A i, j \in DOMAIN snapshot.messages :
             snapshot.messages[i].msg = snapshot.messages[j].msg => i = j

\* When the turns of the dialog on the screen are over and everything has
\* arrived, the screen lists the answers the session has stored, in order.
ShowsWhatIsStored ==
    snapshot # None /\ ~snapshot.window /\ Settled(snapshot.id)
    /\ Active(snapshot.id) = {} /\ display[snapshot.id] # "thinking"
        => ListedAnswers(snapshot) = stored[snapshot.id]

\* Once everything has arrived the dialog on the screen is the one selected.
SelectedIsShown ==
    snapshot # None /\ up /\ ~missed /\ Coming = <<>> /\ uplink = <<>>
        => snapshot.id = active
=============================================================================
