--------------------- MODULE DialogSessionManagerProofs ---------------------
(***************************************************************************)
(* Proofs about DialogSessionManager for any set of dialogs and messages   *)
(* and any capacity.  An operation either keeps the set of sessions and at *)
(* most touches one of them, or it replaces sessions; the lemmas treat the *)
(* two kinds once and the step proofs sort the operations into them.       *)
(***************************************************************************)
EXTENDS DialogSessionManager, FiniteSetTheorems, TLAPS

\* Touching a session makes it the last of the order and keeps the order strict.
LEMMA LatestIsOrder ==
    ASSUME NEW R \in SUBSET (Sessions \X Sessions), NEW d \in Sessions,
           StrictOrder(R, Sessions)
    PROVE  /\ Latest(R, d) \in SUBSET (Sessions \X Sessions)
           /\ StrictOrder(Latest(R, d), Sessions)
  BY DEF Latest, StrictOrder

\* Removing elements and adding one at the end keeps the order strict.
LEMMA ReplaceIsOrder ==
    ASSUME NEW R \in SUBSET (Sessions \X Sessions), StrictOrder(R, Sessions),
           NEW gone, NEW new, new \cap Sessions = {},
           \A d, e \in new : d = e
    PROVE  LET S == (Sessions \ gone) \cup new
               Q == Without(R, gone) \cup ((Sessions \ gone) \X new)
           IN  Q \in SUBSET (S \X S) /\ StrictOrder(Q, S)
<1> DEFINE S == (Sessions \ gone) \cup new
           Q == Without(R, gone) \cup ((Sessions \ gone) \X new)
<1>1. Q \in SUBSET (S \X S)
  BY DEF Without
<1>2. \A d, e \in S : <<d, e>> \in Q <=>
        \/ <<d, e>> \in R /\ d \notin gone /\ e \notin gone
        \/ d \in Sessions \ gone /\ e \in new
  BY DEF Without
<1>3. \A d, e \in S : <<d, e>> \in R => d \in Sessions /\ e \in Sessions
  OBVIOUS
<1>4. StrictOrder(Q, S)
  <2>1. \A d, e \in S : d # e => (<<d, e>> \in Q \/ <<e, d>> \in Q)
    BY <1>2 DEF StrictOrder
  <2>2. \A d, e \in S : <<d, e>> \in Q => <<e, d>> \notin Q
    BY <1>2, <1>3 DEF StrictOrder
  <2>3. \A d, e, f \in S : <<d, e>> \in Q /\ <<e, f>> \in Q => <<d, f>> \in Q
    BY <1>2, <1>3 DEF StrictOrder
  <2> QED
    BY <2>1, <2>2, <2>3 DEF StrictOrder
<1> QED
  BY <1>1, <1>4

\* What Replace does to the set of sessions.
LEMMA ReplaceSessions ==
    ASSUME TypeOK, NEW gone \in SUBSET Sessions, NEW new \in SUBSET Dialogs,
           new \cap Sessions = {}, Replace(gone, new)
    PROVE  Sessions' = (Sessions \ gone) \cup new
  BY DEF TypeOK, Replace, Sessions
-----------------------------------------------------------------------------
Inv == TypeOK /\ TableInv

\* The set of sessions stays; at most one session is touched.
KeepTable ==
    /\ Sessions' = Sessions
    /\ UNCHANGED created
    /\ locks \subseteq locks' /\ locks' \subseteq Dialogs
    /\ UNCHANGED <<recency, stale>> \/ \E d \in Sessions : Touch(d)

LEMMA KeepTableInv ==
    ASSUME Inv, KeepTable
    PROVE  /\ recency' \subseteq Sessions' \X Sessions'
           /\ created' \subseteq Sessions' \X Sessions'
           /\ stale' \subseteq Sessions'
           /\ TableInv'
<1> USE DEF Inv, TypeOK, TableInv, KeepTable
<1>1. CASE UNCHANGED <<recency, stale>>
  BY <1>1 DEF StrictOrder
<1>2. ASSUME NEW d \in Sessions, Touch(d)
      PROVE  /\ recency' \subseteq Sessions' \X Sessions'
             /\ created' \subseteq Sessions' \X Sessions'
             /\ stale' \subseteq Sessions'
             /\ TableInv'
  <2>1. /\ recency' \in SUBSET (Sessions \X Sessions)
        /\ StrictOrder(recency', Sessions)
    BY <1>2, LatestIsOrder DEF Touch
  <2>2. StrictOrder(created', Sessions)
    OBVIOUS
  <2>3. \A c \in stale', e \in Sessions : <<e, c>> \in recency' => e \in stale'
    BY <1>2 DEF Touch, Latest
  <2> QED
    BY <1>2, <2>1, <2>2, <2>3 DEF Touch
<1> QED
  BY <1>1, <1>2

\* Sessions are closed and at most one is added, within the capacity.
LEMMA ReplaceInv ==
    ASSUME Inv, NEW gone \in SUBSET Sessions, NEW new \in SUBSET Dialogs,
           new \cap Sessions = {}, \A d, e \in new : d = e,
           IsFiniteSet((Sessions \ gone) \cup new),
           Cardinality((Sessions \ gone) \cup new) <= MaxSessions,
           Replace(gone, new), result' \in Results
    PROVE  Inv'
<1> USE DEF Inv, TypeOK, TableInv
<1>1. Sessions' = (Sessions \ gone) \cup new
  BY ReplaceSessions
<1>2. /\ recency' \in SUBSET (Sessions' \X Sessions')
      /\ StrictOrder(recency', Sessions')
  BY <1>1, ReplaceIsOrder DEF Replace
<1>3. /\ created' \in SUBSET (Sessions' \X Sessions')
      /\ StrictOrder(created', Sessions')
  BY <1>1, ReplaceIsOrder DEF Replace
<1>4. /\ stale' \subseteq Sessions' /\ forced' \subseteq Sessions'
      /\ locks' \subseteq Dialogs /\ Sessions' \subseteq locks'
  BY <1>1 DEF Replace, Sessions
<1>5. \A d \in stale', e \in Sessions' : <<e, d>> \in recency' => e \in stale'
  BY <1>1 DEF Replace, Without
<1>6. /\ status' \in [Dialogs -> Statuses \cup {"none"}]
      /\ ctx' \in [Dialogs -> MsgIds \cup {NoMsg}]
  BY DEF Replace, Statuses
<1>7. history' \in [Dialogs -> Seq(Messages)]
  BY DEF Replace
<1> QED
  BY <1>1, <1>2, <1>3, <1>4, <1>5, <1>6, <1>7
-----------------------------------------------------------------------------
\* A raising call, a touch and a status change leave the table in place.
LEMMA RaiseKeeps ==
    ASSUME Inv, NEW call, NEW error, Raise(call, error),
           locks \subseteq locks', locks' \subseteq Dialogs
    PROVE  KeepTable
  BY DEF Raise, KeepTable, Sessions

LEMMA InitInv == Init => Inv
<1> SUFFICES ASSUME Init PROVE Inv
  OBVIOUS
<1>1. Sessions = {}
  BY DEF Init, Sessions
<1>2. TypeOK
  BY <1>1 DEF Init, TypeOK, Results
<1>3. IsFiniteSet(Sessions) /\ Cardinality(Sessions) = 0
  BY <1>1, FS_EmptySet
<1> QED
  BY <1>1, <1>2, <1>3, MaxSessionsAssumption DEF Inv, TableInv, StrictOrder, Init

\* A call that raises before it changed anything.
LEMMA RaiseInv ==
    ASSUME Inv, NEW call, NEW error, Raise(call, error),
           [call |-> call, outcome |-> error] \in Results,
           locks \subseteq locks', locks' \subseteq Dialogs
    PROVE  Inv'
<1>1. TableInv'
  BY RaiseKeeps, KeepTableInv
<1>2. Sessions' = Sessions
  BY DEF Raise, Sessions
<1> QED
  BY <1>1, <1>2 DEF Inv, TypeOK, Raise, Did

\* A call that finds its session, changes its fields and touches it.
LEMMA TouchInv ==
    ASSUME Inv, NEW d \in Sessions, Touch(d), UNCHANGED <<created, locks>>,
           status' \in [Dialogs -> Statuses \cup {"none"}],
           Sessions' = Sessions,
           ctx' \in [Dialogs -> MsgIds \cup {NoMsg}],
           history' \in [Dialogs -> Seq(Messages)],
           forced' \subseteq Sessions,
           result' \in Results
    PROVE  Inv'
<1>1. KeepTable
  BY DEF KeepTable, Inv, TypeOK
<1> QED
  BY <1>1, KeepTableInv DEF Inv, TypeOK

LEMMA NotFoundInv ==
    ASSUME Inv, NEW d, NEW call \in {"add", "start", "complete"}, NotFound(call, d)
    PROVE  Inv'
  BY RaiseInv DEF NotFound, Results, Inv, TypeOK

LEMMA CreateInv == ASSUME Inv, NEW d \in Dialogs, CreateSession(d) PROVE Inv'
<1>0. /\ IsFiniteSet(Sessions)
      /\ Cardinality(Sessions) \in Nat
      /\ Cardinality(Sessions) <= MaxSessions
      /\ MaxSessions \in Nat \ {0}
  BY FS_CardinalityType, MaxSessionsAssumption DEF Inv, TableInv
<1>1. ASSUME NEW error \in {"SessionFullError", "InvalidTransitionError"},
             Raise("create", error), UNCHANGED locks
      PROVE  Inv'
  BY <1>1, RaiseInv DEF Results, Inv, TypeOK
<1>2. CASE d \notin Sessions /\ ~AtCapacity /\ Replace({}, {d}) /\ Did("create", "ok")
  <2>1. /\ IsFiniteSet((Sessions \ {}) \cup {d})
        /\ Cardinality((Sessions \ {}) \cup {d}) <= MaxSessions
    <3>1. (Sessions \ {}) \cup {d} = Sessions \cup {d}
      OBVIOUS
    <3>2. /\ IsFiniteSet(Sessions \cup {d})
          /\ Cardinality(Sessions \cup {d}) = Cardinality(Sessions) + 1
      BY <1>0, <1>2, FS_AddElement
    <3>3. Cardinality(Sessions) < MaxSessions
      BY <1>0, <1>2 DEF AtCapacity
    <3> QED
      BY <3>1, <3>2, <3>3, <1>0
  <2>2. result' \in Results
    BY <1>2 DEF Did, Results
  <2> QED
    BY <1>2, <2>1, <2>2, ReplaceInv
<1>3. ASSUME d \notin Sessions, NEW lru \in Sessions,
             Replace({lru}, {d}), Did("create", "ok")
      PROVE  Inv'
  <2>1. /\ IsFiniteSet(Sessions \ {lru})
        /\ Cardinality(Sessions \ {lru}) = Cardinality(Sessions) - 1
    BY <1>0, FS_RemoveElement
  <2>2. /\ IsFiniteSet((Sessions \ {lru}) \cup {d})
        /\ Cardinality((Sessions \ {lru}) \cup {d}) = Cardinality(Sessions)
    BY <1>0, <1>3, <2>1, FS_AddElement
  <2>3. result' \in Results
    BY <1>3 DEF Did, Results
  <2> QED
    BY <1>0, <1>3, <2>2, <2>3, ReplaceInv
<1> QED
  BY <1>1, <1>2, <1>3 DEF CreateSession

LEMMA CloseInv == ASSUME Inv, NEW d \in Dialogs, CloseSession(d) PROVE Inv'
<1>1. ASSUME NEW error \in {"SessionNotFoundError", "InvalidTransitionError"},
             Raise("close", error), locks \subseteq locks', locks' \subseteq locks \cup {d}
      PROVE  Inv'
  BY <1>1, RaiseInv DEF Results, Inv, TypeOK
<1>2. CASE d \in Sessions /\ Replace({d}, {}) /\ Did("close", "ok")
  <2>1. /\ IsFiniteSet((Sessions \ {d}) \cup {})
        /\ Cardinality((Sessions \ {d}) \cup {}) <= Cardinality(Sessions)
    <3>1. (Sessions \ {d}) \cup {} \in SUBSET Sessions
      OBVIOUS
    <3> QED
      BY <3>1, FS_Subset DEF Inv, TableInv
  <2>2. Cardinality((Sessions \ {d}) \cup {}) <= MaxSessions
    BY <2>1, FS_CardinalityType, MaxSessionsAssumption DEF Inv, TableInv
  <2>3. result' \in Results
    BY <1>2 DEF Did, Results
  <2> QED
    BY <1>2, <2>1, <2>2, <2>3, ReplaceInv
<1> QED
  BY <1>1, <1>2 DEF CloseSession

LEMMA CleanupInv == ASSUME Inv, CleanupExpired PROVE Inv'
<1>1. Reached \in SUBSET Sessions
  BY DEF Reached, Inv, TypeOK
<1>2. /\ IsFiniteSet((Sessions \ Reached) \cup {})
      /\ Cardinality((Sessions \ Reached) \cup {}) <= Cardinality(Sessions)
  <2>1. (Sessions \ Reached) \cup {} \in SUBSET Sessions
    OBVIOUS
  <2> QED
    BY <2>1, FS_Subset DEF Inv, TableInv
<1>3. Cardinality((Sessions \ Reached) \cup {}) <= MaxSessions
  BY <1>2, FS_CardinalityType, MaxSessionsAssumption DEF Inv, TableInv
<1>4. result' \in Results
  BY DEF CleanupExpired, Did, Results
<1> QED
  BY <1>1, <1>2, <1>3, <1>4, ReplaceInv DEF CleanupExpired
-----------------------------------------------------------------------------
LEMMA TransitionInv ==
    ASSUME Inv, NEW d \in Dialogs, NEW to \in TransitionTargets, Transition(d, to)
    PROVE  Inv'
<1>1. ASSUME NEW error \in {"SessionNotFoundError", "InvalidTransitionError"},
             Raise("transition", error), locks \subseteq locks',
             locks' \subseteq locks \cup {d}
      PROVE  Inv'
  BY <1>1, RaiseInv DEF Results, Inv, TypeOK
<1>2. CASE /\ d \in Sessions /\ Touch(d) /\ Did("transition", "ok")
           /\ status' = [status EXCEPT ![d] = to]
           /\ forced' = forced \cup {d}
           /\ UNCHANGED <<ctx, history, created, locks>>
  <2>1. to \in Statuses /\ to # "none"
    BY TargetsAssumption DEF Statuses
  <2>2. /\ status' \in [Dialogs -> Statuses \cup {"none"}]
        /\ Sessions' = Sessions
    BY <1>2, <2>1 DEF Inv, TypeOK, Sessions
  <2>3. result' \in Results
    BY <1>2 DEF Did, Results
  <2> QED
    BY <1>2, <2>2, <2>3, TouchInv DEF Inv, TypeOK
<1> QED
  BY <1>1, <1>2 DEF Transition

LEMMA AddInv ==
    ASSUME Inv, NEW d \in Dialogs, NEW m \in Messages, AddMessage(d, m)
    PROVE  Inv'
<1>1. CASE NotFound("add", d)
  BY <1>1, NotFoundInv
<1>2. CASE ~NotFound("add", d)
  <2>1. /\ d \in Sessions /\ Touch(d) /\ Did("add", "ok")
        /\ history' = [history EXCEPT ![d] = Append(@, m)]
        /\ UNCHANGED <<status, ctx, created, locks, forced>>
    BY <1>2 DEF AddMessage
  <2>2. Sessions' = Sessions
    BY <2>1 DEF Sessions
  <2>3. result' \in Results
    BY <2>1 DEF Did, Results
  <2>4. history' \in [Dialogs -> Seq(Messages)]
    BY <2>1 DEF Inv, TypeOK
  <2> QED
    BY <2>1, <2>2, <2>3, <2>4, TouchInv DEF Inv, TypeOK
<1> QED
  BY <1>1, <1>2

LEMMA StartInv ==
    ASSUME Inv, NEW d \in Dialogs, NEW m \in MsgIds, StartAiResponse(d, m)
    PROVE  Inv'
<1>1. CASE NotFound("start", d)
  BY <1>1, NotFoundInv
<1>2. CASE ~NotFound("start", d)
  <2>1. /\ d \in Sessions /\ Touch(d) /\ result' \in Results
        /\ ctx' = [ctx EXCEPT ![d] = m]
        /\ status' \in {status, [status EXCEPT ![d] = "streaming"]}
        /\ UNCHANGED <<history, created, locks, forced>>
    BY <1>2 DEF StartAiResponse, Did, Results
  <2>2. /\ status' \in [Dialogs -> Statuses \cup {"none"}]
        /\ Sessions' = Sessions
    BY <2>1 DEF Inv, TypeOK, Sessions, Statuses
  <2> QED
    BY <2>1, <2>2, TouchInv DEF Inv, TypeOK
<1> QED
  BY <1>1, <1>2

LEMMA CompleteInv ==
    ASSUME Inv, NEW d \in Dialogs, NEW m \in MsgIds, CompleteAiResponse(d, m)
    PROVE  Inv'
<1>1. CASE NotFound("complete", d)
  BY <1>1, NotFoundInv
<1>2. CASE ~NotFound("complete", d)
  <2>1. /\ d \in Sessions /\ Touch(d) /\ result' \in Results
        /\ ctx' = [ctx EXCEPT ![d] = NoMsg]
        /\ history' = [history EXCEPT ![d] = Append(@, m)]
        /\ status' \in {status, [status EXCEPT ![d] = "completed"]}
        /\ UNCHANGED <<created, locks, forced>>
    BY <1>2 DEF CompleteAiResponse, Did, Results
  <2>2. /\ status' \in [Dialogs -> Statuses \cup {"none"}]
        /\ Sessions' = Sessions
    BY <2>1 DEF Inv, TypeOK, Sessions, Statuses
  <2>3. history' \in [Dialogs -> Seq(Messages)]
    BY <2>1 DEF Inv, TypeOK, Messages
  <2> QED
    BY <2>1, <2>2, <2>3, TouchInv DEF Inv, TypeOK
<1> QED
  BY <1>1, <1>2

LEMMA ExpireInv == ASSUME Inv, NEW d \in Dialogs, Expire(d) PROVE Inv'
<1>1. Sessions' = Sessions
  BY DEF Expire, Sessions
<1>2. \A c \in stale', e \in Sessions : <<e, c>> \in recency' => e \in stale'
  BY DEF Expire, Inv, TypeOK, TableInv
<1> QED
  BY <1>1, <1>2 DEF Expire, Inv, TypeOK, TableInv, StrictOrder

LEMMA GetInv == ASSUME Inv, NEW d \in Dialogs, GetSession(d) PROVE Inv'
<1>1. Sessions' = Sessions
  BY DEF GetSession, Sessions
<1>2. KeepTable
  BY <1>1 DEF GetSession, KeepTable, Inv, TypeOK
<1>3. result' \in Results
  BY DEF GetSession, Did, Results
<1> QED
  BY <1>1, <1>2, <1>3, KeepTableInv DEF GetSession, Inv, TypeOK

LEMMA NextInv == Inv /\ [Next]_vars => Inv'
<1> SUFFICES ASSUME Inv, [Next]_vars PROVE Inv'
  OBVIOUS
<1>1. ASSUME NEW d \in Dialogs,
             \/ CreateSession(d) \/ GetSession(d) \/ CloseSession(d) \/ Expire(d)
             \/ \E to \in TransitionTargets : Transition(d, to)
             \/ \E m \in Messages : AddMessage(d, m)
             \/ \E m \in MsgIds : StartAiResponse(d, m) \/ CompleteAiResponse(d, m)
      PROVE  Inv'
  BY <1>1, CreateInv, GetInv, CloseInv, ExpireInv, TransitionInv, AddInv,
     StartInv, CompleteInv
<1>2. CASE CleanupExpired
  BY <1>2, CleanupInv
<1>3. CASE UNCHANGED vars
  BY <1>3 DEF vars, Inv, TypeOK, TableInv, StrictOrder, Sessions
<1> QED
  BY <1>1, <1>2, <1>3 DEF Next

\* The session table is type correct, whatever calls are made in whatever order.
THEOREM TypeCorrect == Spec => []TypeOK
<1>1. Inv => TypeOK
  BY DEF Inv
<1> QED
  BY <1>1, InitInv, NextInv, PTL DEF Spec

\* For any capacity the table never exceeds it, every session has its lock,
\* and activity times order the sessions with the expired ones first.
THEOREM TableCorrect == Spec => []TableInv
<1>1. Inv => TableInv
  BY DEF Inv
<1> QED
  BY <1>1, InitInv, NextInv, PTL DEF Spec
-----------------------------------------------------------------------------
(***************************************************************************)
(* The streaming context.  ContextInv alone is not inductive: a session in *)
(* ERROR would keep a context that start_ai_response gave it in vain.  No  *)
(* session gets there unless a caller of transition() moves it.            *)
(***************************************************************************)
ContextIInv ==
    \A d \in Sessions \ forced :
        /\ status[d] \in {"active", "streaming", "completed"}
        /\ (status[d] = "streaming") <=> (ctx[d] # NoMsg)

LEMMA ReplaceContext ==
    ASSUME Inv, ContextIInv, NEW gone \in SUBSET Sessions, NEW new \in SUBSET Dialogs,
           new \cap Sessions = {}, Replace(gone, new)
    PROVE  ContextIInv'
<1>1. Sessions' = (Sessions \ gone) \cup new
  BY ReplaceSessions DEF Inv
<1> QED
  BY <1>1 DEF ContextIInv, Replace, Sessions

LEMMA NextContext == Inv /\ ContextIInv /\ [Next]_vars => ContextIInv'
<1> SUFFICES ASSUME Inv, ContextIInv, [Next]_vars PROVE ContextIInv'
  OBVIOUS
<1>1. ASSUME UNCHANGED <<status, ctx, forced>> PROVE ContextIInv'
  BY <1>1 DEF ContextIInv, Sessions
<1>2. ASSUME NEW d \in Dialogs, CreateSession(d) PROVE ContextIInv'
  BY <1>1, <1>2, ReplaceContext DEF CreateSession, Raise
<1>3. ASSUME NEW d \in Dialogs, CloseSession(d) PROVE ContextIInv'
  BY <1>1, <1>3, ReplaceContext DEF CloseSession, Raise
<1>4. CASE CleanupExpired
  BY <1>4, ReplaceContext DEF CleanupExpired, Reached, Inv, TypeOK
<1>5. ASSUME NEW d \in Dialogs, NEW m \in MsgIds, StartAiResponse(d, m)
      PROVE  ContextIInv'
  <2>1. CASE NotFound("start", d)
    BY <1>1, <2>1 DEF NotFound, Raise
  <2>2. CASE ~NotFound("start", d)
    <3>1. /\ d \in Sessions /\ UNCHANGED forced
          /\ ctx' = [ctx EXCEPT ![d] = m]
          /\ status' \in {status, [status EXCEPT ![d] = "streaming"]}
      BY <1>5, <2>2 DEF StartAiResponse
    <3>2. d \notin forced => status[d] = "streaming" \/ CanMove(d, "streaming")
      BY <3>1 DEF ContextIInv, CanMove, ValidTransitions
    <3>3. d \notin forced => status' = [status EXCEPT ![d] = "streaming"]
      BY <1>5, <2>2, <3>2 DEF StartAiResponse
    <3>4. Sessions' = Sessions
      BY <3>1 DEF Sessions, Inv, TypeOK
    <3> QED
      BY <3>1, <3>3, <3>4, NoMsgAssumption DEF ContextIInv, Inv, TypeOK, Sessions
  <2> QED
    BY <2>1, <2>2
<1>6. ASSUME NEW d \in Dialogs, NEW m \in MsgIds, CompleteAiResponse(d, m)
      PROVE  ContextIInv'
  <2>1. CASE NotFound("complete", d)
    BY <1>1, <2>1 DEF NotFound, Raise
  <2>2. CASE ~NotFound("complete", d)
    <3>1. /\ d \in Sessions /\ UNCHANGED forced
          /\ ctx' = [ctx EXCEPT ![d] = NoMsg]
          /\ status' \in {status, [status EXCEPT ![d] = "completed"]}
      BY <1>6, <2>2 DEF CompleteAiResponse
    <3>2. d \notin forced => CanMove(d, "completed") \/ status[d] = "completed"
      BY <3>1 DEF ContextIInv, CanMove, ValidTransitions
    <3>3. d \notin forced => status' = [status EXCEPT ![d] = "completed"]
      BY <1>6, <2>2, <3>2 DEF CompleteAiResponse, Inv, TypeOK
    <3>4. Sessions' = Sessions
      BY <3>1 DEF Sessions, Inv, TypeOK
    <3> QED
      BY <3>1, <3>3, <3>4 DEF ContextIInv, Inv, TypeOK, Sessions
  <2> QED
    BY <2>1, <2>2
<1>7. ASSUME NEW d \in Dialogs,
             GetSession(d) \/ Expire(d) \/ \E m \in Messages : AddMessage(d, m)
      PROVE  ContextIInv'
  BY <1>1, <1>7 DEF GetSession, Expire, AddMessage, NotFound, Raise
<1>8. ASSUME NEW d \in Dialogs, NEW to \in TransitionTargets, Transition(d, to)
      PROVE  ContextIInv'
  <2>1. CASE UNCHANGED <<status, ctx, forced>>
    BY <1>1, <2>1
  <2>2. CASE ~UNCHANGED <<status, ctx, forced>>
    <3>1. /\ d \in Sessions
          /\ status' = [status EXCEPT ![d] = to]
          /\ ctx' = ctx /\ forced' = forced \cup {d}
      BY <1>8, <2>2 DEF Transition, Raise
    <3>2. to # "none"
      BY TargetsAssumption DEF Statuses
    <3> QED
      BY <3>1, <3>2 DEF ContextIInv, Inv, TypeOK, Sessions
  <2> QED
    BY <2>1, <2>2
<1>9. CASE UNCHANGED vars
  BY <1>1, <1>9 DEF vars
<1> QED
  BY <1>2, <1>3, <1>4, <1>5, <1>6, <1>7, <1>8, <1>9 DEF Next

\* A session that only the facade has moved streams exactly while it has a
\* streaming context, for any number of overlapping answers.
THEOREM ContextCorrect == Spec => []ContextInv
<1>1. Init => ContextIInv
  BY DEF Init, ContextIInv, Sessions
<1>2. ContextIInv => ContextInv
  BY DEF ContextIInv, ContextInv
<1> QED
  BY <1>1, <1>2, InitInv, NextInv, NextContext, PTL DEF Spec
-----------------------------------------------------------------------------
(***************************************************************************)
(* A streaming session survives every call.                                *)
(***************************************************************************)
LEMMA StreamingNotClosable ==
    ASSUME NEW d, status[d] = "streaming" PROVE ~CanClose(d)
  BY DEF CanClose, CanMove, ValidTransitions

LEMMA PrefixKept ==
    ASSUME NEW s \in Seq(Messages), NEW m \in Messages
    PROVE  /\ SubSeq(s, 1, Len(s)) = s
           /\ SubSeq(Append(s, m), 1, Len(s)) = s
  OBVIOUS

\* What StreamingSurvives asks of one step.
Survives ==
    /\ \A d \in Sessions : status[d] = "streaming" => status'[d] # "none"
    /\ \A d \in Sessions : status'[d] # "none" =>
            SubSeq(history'[d], 1, Len(history[d])) = history[d]

LEMMA KeptSurvives ==
    ASSUME Inv, UNCHANGED history,
           \A d \in Sessions : status[d] = "streaming" => status'[d] # "none"
    PROVE  Survives
  BY PrefixKept DEF Inv, TypeOK, Survives, Sessions

LEMMA ReplaceSurvives ==
    ASSUME Inv, NEW gone \in SUBSET Sessions, NEW new \in SUBSET Dialogs,
           new \cap Sessions = {}, \A d \in gone : CanClose(d), Replace(gone, new)
    PROVE  Survives
<1>1. \A d \in Sessions : status[d] = "streaming" => status'[d] # "none"
  BY StreamingNotClosable DEF Replace, Sessions
<1>2. \A d \in Sessions : status'[d] # "none" => history'[d] = history[d]
  BY DEF Replace, Sessions
<1> QED
  BY <1>1, <1>2, PrefixKept DEF Inv, TypeOK, Survives, Sessions

LEMMA AppendSurvives ==
    ASSUME Inv, NEW d \in Sessions, NEW m \in Messages,
           history' = [history EXCEPT ![d] = Append(@, m)],
           \A e \in Sessions : status'[e] # "none"
    PROVE  Survives
  BY PrefixKept DEF Inv, TypeOK, Survives, Sessions

LEMMA NextSurvives == Inv /\ [Next]_vars => [Survives]_vars
<1> SUFFICES ASSUME Inv, Next PROVE Survives
  OBVIOUS
<1>1. ASSUME UNCHANGED <<status, history>> PROVE Survives
  BY <1>1, KeptSurvives DEF Sessions
<1>2. ASSUME NEW d \in Dialogs, CreateSession(d) PROVE Survives
  <2>1. CASE d \notin Sessions /\ Replace({}, {d})
    BY <2>1, ReplaceSurvives
  <2>2. ASSUME NEW lru \in Sessions, d \notin Sessions, CanClose(lru),
               Replace({lru}, {d})
        PROVE  Survives
    BY <2>2, ReplaceSurvives
  <2> QED
    BY <1>1, <1>2, <2>1, <2>2 DEF CreateSession, Raise
<1>3. ASSUME NEW d \in Dialogs, CloseSession(d) PROVE Survives
  BY <1>1, <1>3, ReplaceSurvives DEF CloseSession, Raise
<1>4. CASE CleanupExpired
  <2>1. Reached \in SUBSET Sessions /\ \A d \in Reached : CanClose(d)
    BY DEF Reached, Inv, TypeOK
  <2> QED
    BY <1>4, <2>1, ReplaceSurvives DEF CleanupExpired
<1>5. ASSUME NEW d \in Dialogs, NEW m \in MsgIds, StartAiResponse(d, m) PROVE Survives
  BY <1>1, <1>5, KeptSurvives DEF StartAiResponse, NotFound, Raise, Inv, TypeOK, Sessions
<1>6. ASSUME NEW d \in Dialogs, NEW m \in MsgIds, CompleteAiResponse(d, m)
      PROVE  Survives
  <2>1. CASE NotFound("complete", d)
    BY <1>1, <2>1 DEF NotFound, Raise
  <2>2. CASE ~NotFound("complete", d)
    <3>1. /\ d \in Sessions /\ m \in Messages
          /\ history' = [history EXCEPT ![d] = Append(@, m)]
          /\ status' \in {status, [status EXCEPT ![d] = "completed"]}
      BY <1>6, <2>2 DEF CompleteAiResponse, Messages
    <3> QED
      BY <3>1, AppendSurvives DEF Inv, TypeOK, Sessions
  <2> QED
    BY <2>1, <2>2
<1>7. ASSUME NEW d \in Dialogs, NEW m \in Messages, AddMessage(d, m) PROVE Survives
  BY <1>1, <1>7, AppendSurvives DEF AddMessage, NotFound, Raise, Sessions
<1>8. ASSUME NEW d \in Dialogs, NEW to \in TransitionTargets, Transition(d, to)
      PROVE  Survives
  <2>1. to # "none"
    BY TargetsAssumption DEF Statuses
  <2> QED
    BY <1>1, <1>8, <2>1, KeptSurvives DEF Transition, Raise, Inv, TypeOK, Sessions
<1>9. ASSUME NEW d \in Dialogs, GetSession(d) \/ Expire(d) PROVE Survives
  BY <1>1, <1>9 DEF GetSession, Expire
<1> QED
  BY <1>2, <1>3, <1>4, <1>5, <1>6, <1>7, <1>8, <1>9 DEF Next

\* No call, and no order of calls, closes, evicts or cleans up a session while
\* an answer streams into it, or removes a message from a session.
THEOREM StreamingIsSafe == Spec => StreamingSurvives
<1>1. Inv /\ [Next]_vars => [Survives]_vars
  BY NextSurvives
<1>2. Spec => [][Survives]_vars
  BY <1>1, InitInv, NextInv, PTL DEF Spec
<1> QED
  BY <1>2 DEF StreamingSurvives, Survives
-----------------------------------------------------------------------------
(***************************************************************************)
(* A refused call leaves every status as it was.                           *)
(***************************************************************************)
\* What RefusedKeepsStatus asks of one step.
Keeps ==
    result'.outcome = "InvalidTransitionError" /\ result'.call # "cleanup"
        => status' = status

LEMMA NextKeeps == [Next]_vars => [Keeps]_vars
<1> SUFFICES ASSUME Next PROVE Keeps
  OBVIOUS
<1> USE DEF Keeps, Did, Raise, NotFound
<1>1. ASSUME NEW d \in Dialogs,
             CreateSession(d) \/ CloseSession(d) \/ GetSession(d) \/ Expire(d)
      PROVE  Keeps
  <2>1. CASE CreateSession(d)
    <3>1. \/ status' = status
          \/ Did("create", "ok")
      BY <2>1 DEF CreateSession
    <3> QED
      BY <3>1
  <2>2. CASE CloseSession(d)
    BY <2>2 DEF CloseSession
  <2>3. CASE GetSession(d)
    BY <2>3 DEF GetSession
  <2>4. CASE Expire(d)
    BY <2>4 DEF Expire
  <2> QED
    BY <1>1, <2>1, <2>2, <2>3, <2>4
<1>2. ASSUME NEW d \in Dialogs, NEW to \in TransitionTargets, Transition(d, to)
      PROVE  Keeps
  BY <1>2 DEF Transition
<1>3. ASSUME NEW d \in Dialogs, NEW m \in Messages, AddMessage(d, m) PROVE Keeps
  BY <1>3 DEF AddMessage
<1>4. ASSUME NEW d \in Dialogs, NEW m \in MsgIds,
             StartAiResponse(d, m) \/ CompleteAiResponse(d, m)
      PROVE  Keeps
  BY <1>4 DEF StartAiResponse, CompleteAiResponse
<1>5. CASE CleanupExpired
  BY <1>5 DEF CleanupExpired
<1> QED
  BY <1>1, <1>2, <1>3, <1>4, <1>5 DEF Next

\* No call but cleanup_expired changes the status of a session and is then
\* refused with InvalidTransitionError.
THEOREM RefusalIsClean == Spec => RefusedKeepsStatus
<1>1. Spec => [][Keeps]_vars
  BY NextKeeps, PTL DEF Spec
<1> QED
  BY <1>1 DEF RefusedKeepsStatus, Keeps
-----------------------------------------------------------------------------
(***************************************************************************)
(* The manager implements the session registry.                            *)
(***************************************************************************)
Busy == {d \in Dialogs : status[d] = "streaming"}

LEMMA ReplaceRefines ==
    ASSUME Inv, NEW gone \in SUBSET Sessions, NEW new \in SUBSET Dialogs,
           new \cap Sessions = {}, \A d \in gone : CanClose(d), Replace(gone, new)
    PROVE  /\ Sessions' = (Sessions \ gone) \cup new
           /\ Busy' = Busy
           /\ gone \in SUBSET (Sessions \ Busy)
<1>1. Sessions' = (Sessions \ gone) \cup new
  BY ReplaceSessions DEF Inv
<1>2. Busy' = Busy
  BY StreamingNotClosable DEF Replace, Busy, Sessions
<1>3. gone \in SUBSET (Sessions \ Busy)
  BY StreamingNotClosable DEF Busy
<1> QED
  BY <1>1, <1>2, <1>3

\* A step that changes the status of one session only, and not to "none".
LEMMA MoveRefines ==
    ASSUME Inv, NEW d \in Sessions, NEW to \in Statuses,
           status' = [status EXCEPT ![d] = to]
    PROVE  [Registry!Next]_<<Sessions, Busy>>
<1>1. d \in Dialogs /\ Sessions' = Sessions
  BY DEF Inv, TypeOK, Sessions, Statuses
<1>2. CASE to = "streaming"
  <2>1. Busy' = Busy \cup {d}
    BY <1>1, <1>2 DEF Busy, Inv, TypeOK
  <2> QED
    BY <1>1, <2>1 DEF Registry!Next, Registry!Begin, Busy
<1>3. CASE to # "streaming"
  <2>1. Busy' = Busy \ {d}
    BY <1>1, <1>3 DEF Busy, Inv, TypeOK
  <2>2. CASE d \in Busy
    BY <1>1, <2>1, <2>2 DEF Registry!Next, Registry!End, Busy
  <2>3. CASE d \notin Busy
    BY <1>1, <2>1, <2>3
  <2> QED
    BY <2>2, <2>3
<1> QED
  BY <1>2, <1>3

LEMMA NextRefines == Inv /\ [Next]_vars => [Registry!Next]_<<Sessions, Busy>>
<1> SUFFICES ASSUME Inv, Next PROVE [Registry!Next]_<<Sessions, Busy>>
  BY DEF vars, Sessions, Busy
<1>1. ASSUME UNCHANGED status PROVE [Registry!Next]_<<Sessions, Busy>>
  BY <1>1 DEF Sessions, Busy
<1>2. ASSUME NEW d \in Dialogs, CreateSession(d)
      PROVE  [Registry!Next]_<<Sessions, Busy>>
  <2>1. CASE d \notin Sessions /\ ~AtCapacity /\ Replace({}, {d})
    <3>1. Sessions' = Sessions \cup {d} /\ Busy' = Busy
      BY <2>1, ReplaceRefines
    <3>2. Cardinality(Sessions) < MaxSessions
      BY <2>1, FS_CardinalityType, MaxSessionsAssumption DEF AtCapacity, Inv, TableInv
    <3>3. Registry!Cardinality(Sessions) = Cardinality(Sessions)
      BY DEF Registry!Cardinality, Cardinality
    <3>4. Registry!Open(d)
      BY <2>1, <3>1, <3>2, <3>3 DEF Registry!Open, Busy
    <3> QED
      BY <3>4 DEF Registry!Next
  <2>2. ASSUME NEW lru \in Sessions, d \notin Sessions, CanClose(lru),
               Replace({lru}, {d})
        PROVE  [Registry!Next]_<<Sessions, Busy>>
    <3>1. /\ Sessions' = (Sessions \ {lru}) \cup {d} /\ Busy' = Busy
          /\ lru \in Sessions \ Busy
      BY <2>2, ReplaceRefines
    <3> QED
      BY <2>2, <3>1 DEF Registry!Next, Registry!Open, Busy
  <2> QED
    <3>1. CASE UNCHANGED status
      BY <1>1, <3>1
    <3>2. CASE ~UNCHANGED status
      BY <1>2, <2>1, <2>2, <3>2 DEF CreateSession, Raise
    <3> QED
      BY <3>1, <3>2
<1>3. ASSUME NEW gone \in SUBSET Sessions, \A d \in gone : CanClose(d),
             Replace(gone, {})
      PROVE  [Registry!Next]_<<Sessions, Busy>>
  <2>1. /\ Sessions' = Sessions \ gone /\ Busy' = Busy
        /\ gone \in SUBSET (Sessions \ Busy)
    BY <1>3, ReplaceRefines
  <2> QED
    BY <2>1 DEF Registry!Next, Registry!Drop, Busy
<1>4. ASSUME NEW d \in Dialogs, CloseSession(d)
      PROVE  [Registry!Next]_<<Sessions, Busy>>
  BY <1>1, <1>3, <1>4 DEF CloseSession, Raise
<1>5. CASE CleanupExpired
  <2>1. Reached \in SUBSET Sessions /\ \A d \in Reached : CanClose(d)
    BY DEF Reached, Inv, TypeOK
  <2> QED
    BY <1>3, <1>5, <2>1 DEF CleanupExpired
<1>6. ASSUME NEW d \in Dialogs, NEW m \in MsgIds, StartAiResponse(d, m)
      PROVE  [Registry!Next]_<<Sessions, Busy>>
  BY <1>1, <1>6, MoveRefines DEF StartAiResponse, NotFound, Raise, Statuses
<1>7. ASSUME NEW d \in Dialogs, NEW m \in MsgIds, CompleteAiResponse(d, m)
      PROVE  [Registry!Next]_<<Sessions, Busy>>
  BY <1>1, <1>7, MoveRefines DEF CompleteAiResponse, NotFound, Raise, Statuses
<1>8. ASSUME NEW d \in Dialogs, NEW to \in TransitionTargets, Transition(d, to)
      PROVE  [Registry!Next]_<<Sessions, Busy>>
  BY <1>1, <1>8, MoveRefines, TargetsAssumption DEF Transition, Raise
<1>9. ASSUME NEW d \in Dialogs,
             GetSession(d) \/ Expire(d) \/ \E m \in Messages : AddMessage(d, m)
      PROVE  [Registry!Next]_<<Sessions, Busy>>
  BY <1>1, <1>9 DEF GetSession, Expire, AddMessage, NotFound, Raise
<1> QED
  BY <1>2, <1>4, <1>5, <1>6, <1>7, <1>8, <1>9 DEF Next

\* The detailed manager, with its activity times, locks and exceptions, does
\* nothing the abstract registry of max_sessions entries would not do.
THEOREM RegistryImplemented == Spec => ImplementsRegistry
<1>1. Init => Registry!Init
  BY DEF Init, Registry!Init, Sessions
<1>2. Inv /\ [Next]_vars => [Registry!Next]_Registry!vars
  BY NextRefines DEF Registry!vars, Busy
<1> QED
  BY <1>1, <1>2, InitInv, NextInv, PTL DEF Spec, ImplementsRegistry, Registry!Spec
=============================================================================
