---------------------------- MODULE TurnPipeline ----------------------------
(***************************************************************************)
(* How a message becomes an answer: the HTTP routes, the handler of        *)
(* AgentExecuteRequest that runs a whole turn of the deep runtime inside a *)
(* consumer of the event bus, the handlers of the events the turn emits,   *)
(* and the session manager underneath (DialogSessionManager, used as is).  *)
(*                                                                         *)
(* Between two suspensions a coroutine is one step.  broadcast() never     *)
(* suspends (the buffers of the clients use put_nowait), so a handler that *)
(* is not the turn is one step; a turn suspends for each chunk of the model  *)
(* and for each event it emits.  The bus is a FIFO of bounded capacity     *)
(* here; AsyncQueue and QueuedEventBus model it in detail.                 *)
(***************************************************************************)
EXTENDS FiniteSets, Integers, Sequences

CONSTANTS
    Dialogs, MsgIds, NoMsg,
    NumConsumers,   \* consumers of the bus
    Capacity,       \* maxsize of the bus
    MaxText,        \* bound: text chunks of one answer
    Moves           \* what the environment may do, see AllMoves

\* Users post while a turn is running; stop; delete; the model fails; the
\* model answers with reasoning only.
AllMoves == {"impatient", "stop", "delete", "fail", "silent"}

ASSUME MovesAssumption == Moves \subseteq AllMoves
ASSUME BusAssumption == NumConsumers \in Nat \ {0} /\ Capacity \in Nat \ {0}
ASSUME NamesAssumption ==
    Dialogs # {} /\ NoMsg \notin MsgIds /\ "other" \notin MsgIds

VARIABLES
    status, ctx, history, recency, created, stale, locks, forced, result,
                    \* of DialogSessionManager
    issued,         \* history: the dialog ids create_dialog handed out
    display,        \* container.state.status
    placeholder,    \* container.state.streaming_msg: the id of the message
    stops,          \* _stop_requested of the runtime
    bus,            \* queued events
    dialog,         \* the dialog each message was posted to
    pc,             \* where the turn of each message is
    text,           \* chunks in accumulated_content
    thought         \* accumulated_reasoning is not empty

sessionVars == <<status, ctx, history, recency, created, stale, locks, forced, result>>
screenVars == <<issued, display, placeholder>>
turnVars == <<dialog, text, thought>>
vars == <<sessionVars, screenVars, stops, bus, pc, turnVars>>

Manager == INSTANCE DialogSessionManager WITH
    MaxSessions <- Cardinality(Dialogs),
    MaxHistory <- 4 * Cardinality(MsgIds),
    TransitionTargets <- {}

\* Every chunk is taken for a text_complete (mutant).
EmitsCompletes == [progress |-> "complete", complete |-> "complete",
                   broken |-> "complete", error |-> "error"]

\* What a turn in each of these phases is about to emit, and what it does then.
Emits == [progress |-> "progress", complete |-> "complete",
          broken |-> "complete", error |-> "error"]
After == [progress |-> "streaming", complete |-> "ended",
          broken |-> "error", error |-> "failed"]

Executing == {m \in MsgIds : pc[m] = "streaming" \/ pc[m] \in DOMAIN Emits}
Over == {m \in MsgIds : pc[m] \in {"ended", "stopped", "failed", "lost"}}
Active(d) == {m \in MsgIds \ Over : pc[m] # "new" /\ dialog[m] = d}

Goto(m, p) == pc' = [pc EXCEPT ![m] = p]
Show(d, s, p) ==
    /\ display' = [display EXCEPT ![d] = s]
    /\ placeholder' = [placeholder EXCEPT ![d] = p]
    /\ UNCHANGED issued
-----------------------------------------------------------------------------
\* POST /api/dialogs: every dialog gets a fresh uuid.
CreateDialog(d) ==
    /\ d \notin issued /\ issued' = issued \cup {d}
    /\ Manager!CreateSession(d)
    /\ display' = [display EXCEPT ![d] = "idle"]
    /\ placeholder' = [placeholder EXCEPT ![d] = NoMsg]
    /\ UNCHANGED <<stops, bus, pc, turnVars>>

\* DELETE /api/dialogs/{id}: close_session raises for a streaming session,
\* and then the state of the container stays, too.
DeleteDialog(d) ==
    /\ "delete" \in Moves
    /\ d \in issued
    /\ \/ /\ d \in Manager!Sessions
          /\ Manager!CloseSession(d)
          /\ IF Manager!CanClose(d) THEN Show(d, "idle", NoMsg) ELSE UNCHANGED screenVars
       \/ /\ d \notin Manager!Sessions
          /\ Show(d, "idle", NoMsg)
          /\ UNCHANGED sessionVars
    /\ UNCHANGED <<stops, bus, pc, turnVars>>

\* POST /api/dialogs/{id}/messages up to its sleep.  A patient user waits for
\* the status to leave "thinking".
Post(m, d) ==
    /\ pc[m] = "new" /\ d \in Manager!Sessions
    /\ "impatient" \in Moves
        \/ /\ display[d] # "thinking"
           /\ \A n \in Active(d) : pc[n] \notin {"posted", "queued"}
    /\ Manager!AddMessage(d, "other")
    /\ dialog' = [dialog EXCEPT ![m] = d]
    /\ Goto(m, "posted")
    /\ UNCHANGED <<screenVars, stops, bus, text, thought>>

\* The rest of it: the request is emitted or, after 5 seconds, given up;
\* the answer is "queued" either way.
EmitRequest(m) ==
    /\ pc[m] = "posted"
    /\ \/ /\ Len(bus) < Capacity
          /\ bus' = Append(bus, [kind |-> "execute", msg |-> m])
          /\ Goto(m, "queued")
       \/ /\ Len(bus) >= Capacity
          /\ Goto(m, "lost")
          /\ UNCHANGED bus
    /\ UNCHANGED <<sessionVars, screenVars, stops, turnVars>>

\* stop_agent() ends only what it is asked to and leaves the status (mutant).
StopSilently ==
    LET thinking == {d \in Dialogs : display[d] = "thinking"} IN
    /\ "stop" \in Moves /\ thinking # {}
    /\ stops' = stops \cup thinking
    /\ placeholder' = [d \in Dialogs |-> IF d \in thinking THEN NoMsg ELSE placeholder[d]]
    /\ UNCHANGED <<issued, display, sessionVars, bus, pc, turnVars>>

\* POST /api/agent/stop
Stop ==
    LET thinking == {d \in Dialogs : display[d] = "thinking"} IN
    /\ "stop" \in Moves /\ thinking # {}
    /\ stops' = stops \cup thinking
    /\ display' = [d \in Dialogs |-> IF d \in thinking THEN "idle" ELSE display[d]]
    /\ placeholder' = [d \in Dialogs |-> IF d \in thinking THEN NoMsg ELSE placeholder[d]]
    /\ UNCHANGED <<issued, sessionVars, bus, pc, turnVars>>
-----------------------------------------------------------------------------
\* A free consumer takes this event off the bus.
Consume(kind, m) ==
    /\ Cardinality(Executing) < NumConsumers
    /\ bus # <<>> /\ Head(bus) = [kind |-> kind, msg |-> m]
    /\ bus' = Tail(bus)

\* send_message() finds no session, creates one and starts the answer.
RecreateAndStart(d, m) ==
    /\ status' = [status EXCEPT ![d] = "streaming"]
    /\ ctx' = [ctx EXCEPT ![d] = m]
    /\ recency' = Manager!Latest(recency, d)
    /\ created' = Manager!Latest(created, d)
    /\ locks' = locks \cup {d}
    /\ Manager!Did("start", "ok")
    /\ UNCHANGED <<history, stale, forced>>

\* _handle_execute_request up to the first chunk of the model.
Begin(m) ==
    LET d == dialog[m] IN
    /\ Consume("execute", m)
    /\ Show(d, "thinking", m)
    /\ IF d \in Manager!Sessions
       THEN Manager!StartAiResponse(d, m) ELSE RecreateAndStart(d, m)
    /\ Goto(m, "streaming")
    /\ UNCHANGED <<stops, turnVars>>

\* A chunk arrives, and a stop was requested: the session stays as it is.
SeeStop(m) ==
    /\ pc[m] = "streaming" /\ dialog[m] \in stops
    /\ stops' = stops \ {dialog[m]}
    /\ Goto(m, "stopped")
    /\ UNCHANGED <<sessionVars, screenVars, bus, turnVars>>

\* A chunk of text, which the handler turns into an AgentProgressEvent.
Chunk(m) ==
    /\ pc[m] = "streaming" /\ dialog[m] \notin stops
    /\ text[m] < MaxText
    /\ text' = [text EXCEPT ![m] = @ + 1]
    /\ Goto(m, "progress")
    /\ UNCHANGED <<sessionVars, screenVars, stops, bus, dialog, thought>>

\* A chunk of reasoning, which is broadcast directly.
Reason(m) ==
    /\ pc[m] = "streaming" /\ dialog[m] \notin stops
    /\ "silent" \in Moves /\ ~thought[m]
    /\ thought' = [thought EXCEPT ![m] = TRUE]
    /\ UNCHANGED <<sessionVars, screenVars, stops, bus, pc, dialog, text>>

\* The answer is stored, but complete_ai_response is not called (mutant).
SaveMessageOnly(m) ==
    IF text[m] > 0 \/ thought[m]
    THEN Manager!AddMessage(dialog[m], m) ELSE UNCHANGED sessionVars

\* The check of the session's status is inverted (mutant).
SaveInverted(m) ==
    LET d == dialog[m] IN
    IF text[m] = 0 /\ ~thought[m] THEN UNCHANGED sessionVars
    ELSE IF d \in Manager!Sessions /\ status[d] = "completed"
    THEN Manager!CompleteAiResponse(d, m) ELSE Manager!GetSession(d)

\* The answer is saved unless the session is gone or already completed.
Save(m) ==
    LET d == dialog[m] IN
    IF text[m] = 0 /\ ~thought[m] THEN UNCHANGED sessionVars
    ELSE IF d \in Manager!Sessions /\ status[d] # "completed"
    THEN Manager!CompleteAiResponse(d, m) ELSE Manager!GetSession(d)

\* The stream ends and no message_complete follows (mutant).
EndStreamQuietly(m) ==
    /\ pc[m] = "streaming"
    /\ text[m] > 0 \/ "silent" \in Moves
    /\ Save(m)
    /\ stops' = stops \ {dialog[m]}
    /\ Goto(m, "ended")
    /\ UNCHANGED <<screenVars, bus, turnVars>>

\* The stream ends normally.
EndStream(m) ==
    /\ pc[m] = "streaming"
    /\ text[m] > 0 \/ "silent" \in Moves
    /\ Save(m)
    /\ stops' = stops \ {dialog[m]}
    /\ Goto(m, IF text[m] > 0 THEN "complete" ELSE "ended")
    /\ UNCHANGED <<screenVars, bus, turnVars>>

\* A failed stream is started again after its text was saved (mutant).
FailAndRetry(m) ==
    /\ "fail" \in Moves
    /\ pc[m] = "streaming" /\ text[m] > 0
    /\ Manager!CompleteAiResponse(dialog[m], m)
    /\ UNCHANGED <<pc, screenVars, stops, bus, turnVars>>

\* The stream fails: partial text is saved, with an exception swallowed if the
\* session does not allow it; message_complete comes only after a good save.
FailStream(m) ==
    LET d == dialog[m]
        saved == d \in Manager!Sessions /\ Manager!CanMove(d, "completed") IN
    /\ "fail" \in Moves
    /\ pc[m] = "streaming"
    /\ IF text[m] > 0 THEN Manager!CompleteAiResponse(d, m) ELSE UNCHANGED sessionVars
    /\ Goto(m, IF text[m] > 0 /\ saved THEN "broken" ELSE "error")
    /\ UNCHANGED <<screenVars, stops, bus, turnVars>>

\* A turn waits for room on the bus for ever (mutant).
EmitPatiently(m) ==
    /\ pc[m] \in DOMAIN Emits
    /\ Len(bus) < Capacity
    /\ bus' = Append(bus, [kind |-> Emits[pc[m]], msg |-> m])
    /\ Goto(m, After[pc[m]])
    /\ UNCHANGED <<sessionVars, screenVars, stops, turnVars>>

\* emit(..., timeout=0.5) inside a turn: on a full bus the event is lost.
EmitEvent(m) ==
    /\ pc[m] \in DOMAIN Emits
    /\ bus' = IF Len(bus) < Capacity
              THEN Append(bus, [kind |-> Emits[pc[m]], msg |-> m]) ELSE bus
    /\ Goto(m, After[pc[m]])
    /\ UNCHANGED <<sessionVars, screenVars, stops, turnVars>>
-----------------------------------------------------------------------------
\* _handle_agent_progress: only content and numbers of the broadcast change.
HandleProgress(m) ==
    /\ Consume("progress", m)
    /\ UNCHANGED <<sessionVars, screenVars, stops, pc, turnVars>>

\* _handle_agent_complete
HandleComplete(m) ==
    /\ Consume("complete", m)
    /\ Show(dialog[m], "idle", NoMsg)
    /\ UNCHANGED <<sessionVars, stops, pc, turnVars>>

\* _handle_agent_error
HandleError(m) ==
    /\ Consume("error", m)
    /\ Show(dialog[m], "error", NoMsg)
    /\ UNCHANGED <<sessionVars, stops, pc, turnVars>>
-----------------------------------------------------------------------------
Init ==
    /\ Manager!Init
    /\ issued = {}
    /\ display = [d \in Dialogs |-> "idle"]
    /\ placeholder = [d \in Dialogs |-> NoMsg]
    /\ stops = {} /\ bus = <<>>
    /\ dialog = [m \in MsgIds |-> CHOOSE d \in Dialogs : TRUE]
    /\ pc = [m \in MsgIds |-> "new"]
    /\ text = [m \in MsgIds |-> 0]
    /\ thought = [m \in MsgIds |-> FALSE]

Turn(m) == SeeStop(m) \/ Chunk(m) \/ Reason(m) \/ EndStream(m) \/ FailStream(m) \/ EmitEvent(m)
Handle(m) == Begin(m) \/ HandleProgress(m) \/ HandleComplete(m) \/ HandleError(m)

Next ==
    \/ \E d \in Dialogs : CreateDialog(d) \/ DeleteDialog(d)
    \/ \E m \in MsgIds, d \in Dialogs : Post(m, d)
    \/ \E m \in MsgIds : EmitRequest(m) \/ Turn(m) \/ Handle(m)
    \/ Stop

Spec == Init /\ [][Next]_vars

\* The event loop runs every ready task, the emits time out, and the model
\* sends its next chunk, its end or an error in the end.
FairSpec ==
    /\ Spec
    /\ \A m \in MsgIds : WF_vars(EmitRequest(m)) /\ WF_vars(Turn(m)) /\ WF_vars(Handle(m))
-----------------------------------------------------------------------------
Events == [kind : {"execute", "progress", "complete", "error"}, msg : MsgIds]

PipeTypeOK ==
    /\ Manager!TypeOK
    /\ issued \subseteq Dialogs
    /\ display \in [Dialogs -> {"idle", "thinking", "error"}]
    /\ placeholder \in [Dialogs -> MsgIds \cup {NoMsg}]
    /\ stops \subseteq Dialogs
    /\ bus \in Seq(Events) /\ Len(bus) <= Capacity
    /\ dialog \in [MsgIds -> Dialogs]
    /\ pc \in [MsgIds -> {"new", "posted", "queued", "streaming", "ended", "stopped",
                          "failed", "lost"} \cup DOMAIN Emits]
    /\ text \in [MsgIds -> 0..MaxText] /\ thought \in [MsgIds -> BOOLEAN]

Saved(m, h) == Cardinality({i \in DOMAIN h : h[i] = m})
Streaming == {m \in MsgIds : pc[m] \in {"streaming", "progress"}}
OnBus(d) == \E i \in DOMAIN bus : dialog[bus[i].msg] = d
Quiet(d) == Active(d) = {} /\ ~OnBus(d)

\* Whatever overlaps, fails or is stopped, an answer is stored at most once:
\* the normal end of a turn and its exception path never both save it.
AnswerOnce ==
    \A d \in Dialogs, m \in MsgIds : Saved(m, history[d]) <= 1

\* A dialog shows a placeholder exactly while it shows "thinking".
ScreenConsistent ==
    \A d \in Dialogs : display[d] = "thinking" <=> placeholder[d] # NoMsg

\* With users who wait for the answer and a model that does not fail, the turn
\* that is producing text owns its session: it is STREAMING with the turn's
\* message id, so the dialog cannot be deleted or restarted under the turn.
TurnOwnsSession ==
    \A m \in Streaming :
        status[dialog[m]] = "streaming" /\ ctx[dialog[m]] = m

\* When a turn tells the bus that its answer is complete, the answer is in
\* the session.
SavedBeforeAnnounced ==
    [][\A m \in MsgIds : pc[m] = "streaming" /\ pc'[m] = "complete"
        => Saved(m, history'[dialog[m]]) = 1]_vars

\* Every message that was posted comes to an end: turns run inside the
\* consumers of the bus they emit to, but never block it for good.
EveryTurnEnds == \A m \in MsgIds : pc[m] = "posted" ~> m \in Over

\* A dialog with no turn and no event under way does not show "thinking".
ThinkingEnds == \A d \in Dialogs : Quiet(d) => display[d] # "thinking"

\* A session with no turn under way is not STREAMING.
StreamingEnds == \A d \in Dialogs : Quiet(d) => status[d] # "streaming"

\* While a turn produces text its dialog shows "thinking" and its message.
ScreenFollowsTurn ==
    \A m \in Streaming :
        display[dialog[m]] = "thinking" /\ placeholder[dialog[m]] = m
=============================================================================
