------------------------ MODULE DialogSessionManager ------------------------
(***************************************************************************)
(* The in-memory table of dialog sessions, backend/domain/models/dialog:   *)
(* the facade DialogSessionManager and the SessionLifecycleManager below   *)
(* it.  Every coroutine of the two classes runs from its first statement   *)
(* to its last without suspending (the per-session asyncio.Lock is never   *)
(* contended), so an operation is one step; what interleaves is the order  *)
(* in which HTTP handlers, bus consumers and the cleanup task call them.   *)
(*                                                                         *)
(* last_activity_at is kept as the order it induces, with "stale" for the  *)
(* sessions idle for longer than session_ttl_seconds.                      *)
(***************************************************************************)
EXTENDS FiniteSets, Integers, Sequences

CONSTANTS
    Dialogs,            \* dialog ids
    MsgIds,             \* ids of AI answers
    NoMsg,              \* streaming_context is None
    MaxSessions,        \* max_sessions
    MaxHistory,         \* bound: messages added to one session
    TransitionTargets   \* what callers of the public transition() ask for

Statuses == {"creating", "active", "streaming", "completed", "error",
             "closing", "closed"}

ASSUME MaxSessionsAssumption == MaxSessions \in Nat \ {0}
ASSUME MaxHistoryAssumption == MaxHistory \in Nat
ASSUME NoMsgAssumption == NoMsg \notin MsgIds
ASSUME TargetsAssumption == TransitionTargets \subseteq Statuses

VARIABLES
    status,     \* status of each dialog's session, "none" without one
    ctx,        \* message id of the streaming_context
    history,    \* messages stored in the session
    recency,    \* pairs <<d, e>>: d was active before e
    created,    \* pairs <<d, e>>: d was inserted in _sessions before e
    stale,      \* sessions idle for longer than the TTL
    locks,      \* keys of _locks
    forced,     \* history: sessions that a caller of transition() has moved
    result      \* the last call: its name and "ok" or the exception it raised

vars == <<status, ctx, history, recency, created, stale, locks, forced, result>>

Sessions == {d \in Dialogs : status[d] # "none"}
Messages == MsgIds \cup {"other"}    \* "other": a user message or a tool result
Results ==
    [call : {"create", "get", "close", "transition", "add", "start", "complete",
             "cleanup"},
     outcome : {"ok", "SessionFullError", "SessionNotFoundError",
                "InvalidTransitionError"}]
-----------------------------------------------------------------------------
\* The transition matrix with a closing edge for streaming sessions, as the
\* state diagram of openspec/changes/dialog-session-manager draws it (mutant).
ValidTransitionsDiagram ==
    [creating  |-> {"active", "error"},
     active    |-> {"streaming", "completed", "closing", "error"},
     streaming |-> {"completed", "error", "active", "closing"},
     completed |-> {"active", "streaming", "closing", "error"},
     error     |-> {"active", "closing"},
     closing   |-> {"closed"},
     closed    |-> {}]

\* VALID_TRANSITIONS
ValidTransitions ==
    [creating  |-> {"active", "error"},
     active    |-> {"streaming", "completed", "closing", "error"},
     streaming |-> {"completed", "error", "active"},
     completed |-> {"active", "streaming", "closing", "error"},
     error     |-> {"active", "closing"},
     closing   |-> {"closed"},
     closed    |-> {}]

CanMove(d, to) == to \in ValidTransitions[status[d]]

\* close_session moves to CLOSING and then to CLOSED.
CanClose(d) == CanMove(d, "closing")

\* Touching a session keeps the earlier activity time as well (mutant).
LatestKeepsOld(R, d) == R \cup ((Sessions \ {d}) \X {d})

\* The order R after d has become its last element, and without the set D.
Latest(R, d) == {p \in R : p[1] # d /\ p[2] # d} \cup ((Sessions \ {d}) \X {d})

Without(R, D) == {p \in R : p[1] \notin D /\ p[2] \notin D}

\* session.touch()
Touch(d) ==
    /\ recency' = Latest(recency, d)
    /\ stale' = stale \ {d}

Did(call, outcome) == result' = [call |-> call, outcome |-> outcome]

\* The call raises and has changed none of the session state.
Raise(call, error) ==
    /\ Did(call, error)
    /\ UNCHANGED <<status, ctx, history, recency, created, stale, forced>>
-----------------------------------------------------------------------------
\* create_session lets one session too many in (mutant).
AtCapacityOffByOne == Cardinality(Sessions) > MaxSessions

AtCapacity == Cardinality(Sessions) >= MaxSessions

\* The table once the sessions in gone are closed and d, if any, is added.
Replace(gone, new) ==
    /\ status' = [e \in Dialogs |-> IF e \in new THEN "active"
                                    ELSE IF e \in gone THEN "none" ELSE status[e]]
    /\ ctx' = [e \in Dialogs |-> IF e \in gone \cup new THEN NoMsg ELSE ctx[e]]
    /\ history' = [e \in Dialogs |-> IF e \in gone \cup new THEN <<>> ELSE history[e]]
    /\ recency' = Without(recency, gone) \cup ((Sessions \ gone) \X new)
    /\ created' = Without(created, gone) \cup ((Sessions \ gone) \X new)
    /\ stale' = stale \ gone
    /\ forced' = forced \ gone
    /\ locks' = (locks \ gone) \cup new

\* min(self._sessions, key=last_activity_at)
IsLRU(d) == d \in Sessions /\ \A e \in Sessions \ {d} : <<d, e>> \in recency

CreateSession(d) ==
    \/ /\ d \in Sessions
       /\ Raise("create", "SessionFullError")
       /\ UNCHANGED locks
    \/ /\ d \notin Sessions /\ ~AtCapacity
       /\ Replace({}, {d})
       /\ Did("create", "ok")
    \/ /\ d \notin Sessions /\ AtCapacity
       /\ \E lru \in Sessions :
            /\ IsLRU(lru)
            /\ \/ /\ CanClose(lru)
                  /\ Replace({lru}, {d})
                  /\ Did("create", "ok")
               \/ /\ ~CanClose(lru)
                  /\ Raise("create", "InvalidTransitionError")
                  /\ UNCHANGED locks

\* get_session touches the session it finds.
GetSession(d) ==
    /\ IF d \in Sessions THEN Touch(d) ELSE UNCHANGED <<recency, stale>>
    /\ Did("get", "ok")
    /\ UNCHANGED <<status, ctx, history, created, locks, forced>>

\* close_session; _get_lock registers a lock for whatever id it is given.
CloseSession(d) ==
    \/ /\ d \notin Sessions
       /\ Raise("close", "SessionNotFoundError")
       /\ locks' = locks \cup {d}
    \/ /\ d \in Sessions /\ ~CanClose(d)
       /\ Raise("close", "InvalidTransitionError")
       /\ UNCHANGED locks
    \/ /\ d \in Sessions /\ CanClose(d)
       /\ Replace({d}, {})
       /\ Did("close", "ok")

\* transition()
Transition(d, to) ==
    \/ /\ d \notin Sessions
       /\ Raise("transition", "SessionNotFoundError")
       /\ locks' = locks \cup {d}
    \/ /\ d \in Sessions /\ ~CanMove(d, to)
       /\ Raise("transition", "InvalidTransitionError")
       /\ UNCHANGED locks
    \/ /\ d \in Sessions /\ CanMove(d, to)
       /\ status' = [status EXCEPT ![d] = to]
       /\ Touch(d)
       /\ forced' = forced \cup {d}
       /\ Did("transition", "ok")
       /\ UNCHANGED <<ctx, history, created, locks>>
-----------------------------------------------------------------------------
\* _require_session fails: the facade raises before it takes a lock.
NotFound(call, d) ==
    /\ d \notin Sessions
    /\ Raise(call, "SessionNotFoundError")
    /\ UNCHANGED locks

\* add_user_message, add_assistant_message, add_tool_result
AddMessage(d, m) ==
    \/ NotFound("add", d)
    \/ /\ d \in Sessions /\ Len(history[d]) < MaxHistory
       /\ history' = [history EXCEPT ![d] = Append(@, m)]
       /\ Touch(d)
       /\ Did("add", "ok")
       /\ UNCHANGED <<status, ctx, created, locks, forced>>

\* start_ai_response resets every session to ACTIVE first (mutant).
StartThroughActive(d, m) ==
    \/ NotFound("start", d)
    \/ /\ d \in Sessions
       /\ ctx' = [ctx EXCEPT ![d] = m]
       /\ LET ok == status[d] = "streaming" \/ CanMove(d, "streaming") IN
            /\ status' = [status EXCEPT ![d] = IF ok THEN "streaming" ELSE "active"]
            /\ Did("start", IF ok THEN "ok" ELSE "InvalidTransitionError")
       /\ Touch(d)
       /\ UNCHANGED <<history, created, locks, forced>>

\* start_ai_response: the context is replaced before the transition is tried;
\* a session that is already streaming passes through ACTIVE.
StartAiResponse(d, m) ==
    \/ NotFound("start", d)
    \/ /\ d \in Sessions
       /\ ctx' = [ctx EXCEPT ![d] = m]
       /\ LET ok == status[d] = "streaming" \/ CanMove(d, "streaming") IN
            /\ status' = IF ok THEN [status EXCEPT ![d] = "streaming"] ELSE status
            /\ Did("start", IF ok THEN "ok" ELSE "InvalidTransitionError")
       /\ Touch(d)
       /\ UNCHANGED <<history, created, locks, forced>>

\* complete_ai_response without "streaming_context = None" (mutant).
CompleteKeepsContext(d, m) ==
    \/ NotFound("complete", d)
    \/ /\ d \in Sessions /\ Len(history[d]) < MaxHistory
       /\ history' = [history EXCEPT ![d] = Append(@, m)]
       /\ LET ok == CanMove(d, "completed") IN
            /\ status' = IF ok THEN [status EXCEPT ![d] = "completed"] ELSE status
            /\ Did("complete", IF ok THEN "ok" ELSE "InvalidTransitionError")
       /\ Touch(d)
       /\ UNCHANGED <<ctx, created, locks, forced>>

\* complete_ai_response: a message id other than the context's is only
\* logged; the answer is stored and the context cleared before the transition.
CompleteAiResponse(d, m) ==
    \/ NotFound("complete", d)
    \/ /\ d \in Sessions /\ Len(history[d]) < MaxHistory
       /\ history' = [history EXCEPT ![d] = Append(@, m)]
       /\ ctx' = [ctx EXCEPT ![d] = NoMsg]
       /\ LET ok == CanMove(d, "completed") IN
            /\ status' = IF ok THEN [status EXCEPT ![d] = "completed"] ELSE status
            /\ Did("complete", IF ok THEN "ok" ELSE "InvalidTransitionError")
       /\ Touch(d)
       /\ UNCHANGED <<created, locks, forced>>
-----------------------------------------------------------------------------
\* The next session in order of activity passes its TTL.
Expire(d) ==
    /\ d \in Sessions \ stale
    /\ \A e \in Sessions : <<e, d>> \in recency => e \in stale
    /\ stale' = stale \cup {d}
    /\ UNCHANGED <<status, ctx, history, recency, created, locks, forced, result>>

\* The expired sessions the loop of cleanup_expired closes: it walks them in
\* the order of _sessions and the first that cannot be closed ends it.
Reached == {d \in stale : \A e \in stale :
                (e = d \/ <<e, d>> \in created) => CanClose(e)}

CleanupExpired ==
    /\ Replace(Reached, {})
    /\ Did("cleanup", IF Reached = stale THEN "ok" ELSE "InvalidTransitionError")
-----------------------------------------------------------------------------
Init ==
    /\ status = [d \in Dialogs |-> "none"]
    /\ ctx = [d \in Dialogs |-> NoMsg]
    /\ history = [d \in Dialogs |-> <<>>]
    /\ recency = {} /\ created = {} /\ stale = {} /\ locks = {} /\ forced = {}
    /\ result = [call |-> "get", outcome |-> "ok"]

Next ==
    \/ \E d \in Dialogs :
        \/ CreateSession(d)
        \/ GetSession(d)
        \/ CloseSession(d)
        \/ Expire(d)
        \/ \E to \in TransitionTargets : Transition(d, to)
        \/ \E m \in Messages : AddMessage(d, m)
        \/ \E m \in MsgIds : StartAiResponse(d, m) \/ CompleteAiResponse(d, m)
    \/ CleanupExpired

Spec == Init /\ [][Next]_vars
-----------------------------------------------------------------------------
(***************************************************************************)
(* Properties.                                                             *)
(***************************************************************************)
TypeOK ==
    /\ status \in [Dialogs -> Statuses \cup {"none"}]
    /\ ctx \in [Dialogs -> MsgIds \cup {NoMsg}]
    /\ history \in [Dialogs -> Seq(Messages)]
    /\ recency \subseteq Sessions \X Sessions
    /\ created \subseteq Sessions \X Sessions
    /\ stale \subseteq Sessions
    /\ locks \subseteq Dialogs
    /\ forced \subseteq Sessions
    /\ result \in Results

\* R is a strict total order of S.
StrictOrder(R, S) ==
    /\ \A d, e \in S : d # e => (<<d, e>> \in R \/ <<e, d>> \in R)
    /\ \A d, e \in S : <<d, e>> \in R => <<e, d>> \notin R
    /\ \A d, e, f \in S : <<d, e>> \in R /\ <<e, f>> \in R => <<d, f>> \in R

\* The table never holds more than max_sessions sessions, each has its lock,
\* the activity times order all of them whatever was evicted, closed or
\* touched in between, and only the least recently used ones are expired.
TableInv ==
    /\ IsFiniteSet(Sessions)
    /\ Cardinality(Sessions) <= MaxSessions
    /\ Sessions \subseteq locks
    /\ StrictOrder(recency, Sessions)
    /\ StrictOrder(created, Sessions)
    /\ \A d \in stale, e \in Sessions : <<e, d>> \in recency => e \in stale

\* Unless a caller of transition() has moved it, a session is STREAMING exactly
\* while it has a streaming_context: no order of overlapping start_ai_response
\* and complete_ai_response calls leaves one without the other.
ContextInv ==
    \A d \in Sessions \ forced : (status[d] = "streaming") <=> (ctx[d] # NoMsg)

\* A session whose answer is being streamed is never closed, evicted or
\* cleaned up under the turn that is writing to it, and as long as a session
\* exists its messages are only added to.
StreamingSurvives ==
    [][/\ \A d \in Sessions : status[d] = "streaming" => status'[d] # "none"
       /\ \A d \in Sessions : status'[d] # "none" =>
            SubSeq(history'[d], 1, Len(history[d])) = history[d]]_vars

\* A call that is refused with InvalidTransitionError leaves the status of
\* every session as it was, though start_ai_response may pass through ACTIVE
\* and create_session has begun to make room; only cleanup_expired may have
\* closed sessions before it met the one that refused.
RefusedKeepsStatus ==
    [][result'.outcome = "InvalidTransitionError" /\ result'.call # "cleanup"
        => status' = status]_vars

\* The manager is a session registry of capacity max_sessions.
Registry == INSTANCE SessionRegistry WITH
    Capacity <- MaxSessions,
    open <- Sessions,
    busy <- {d \in Dialogs : status[d] = "streaming"}
ImplementsRegistry == Registry!Spec
=============================================================================
