------------------------- MODULE TurnPipelineProofs -------------------------
(***************************************************************************)
(* Theorems about TurnPipeline: what holds however turns overlap, fail and *)
(* are stopped, and what a patient user and a model that does not fail     *)
(* make of it.  Of the session manager underneath the proofs use only what *)
(* each call does to the status, the context and the history of a session. *)
(***************************************************************************)
EXTENDS TurnPipeline, FiniteSetTheorems, TLAPS

Answers == MsgIds \cup {"other"}
Phases == {"new", "posted", "queued", "streaming", "ended", "stopped", "failed",
           "lost", "progress", "complete", "broken", "error"}

SessionTypes ==
    /\ status \in [Dialogs -> Manager!Statuses \cup {"none"}]
    /\ ctx \in [Dialogs -> MsgIds \cup {NoMsg}]
    /\ history \in [Dialogs -> Seq(Answers)]

TurnTypes ==
    /\ issued \subseteq Dialogs
    /\ display \in [Dialogs -> {"idle", "thinking", "error"}]
    /\ placeholder \in [Dialogs -> MsgIds \cup {NoMsg}]
    /\ stops \subseteq Dialogs
    /\ bus \in Seq(Events)
    /\ dialog \in [MsgIds -> Dialogs]
    /\ pc \in [MsgIds -> Phases]
    /\ text \in [MsgIds -> Nat] /\ thought \in [MsgIds -> BOOLEAN]

Types == SessionTypes /\ TurnTypes
-----------------------------------------------------------------------------
(***************************************************************************)
(* What the calls of the session manager do to the histories.              *)
(***************************************************************************)

\* Every history stays, is emptied, or, that of d alone, gets the message m.
Extends(d, m) ==
    \A e \in Dialogs :
        \/ history'[e] = history[e]
        \/ history'[e] = <<>>
        \/ e = d /\ history'[e] = Append(history[e], m)

LEMMA ReplaceTypes ==
    ASSUME SessionTypes, NEW gone, NEW new, NEW d, NEW m, Manager!Replace(gone, new)
    PROVE  SessionTypes' /\ Extends(d, m)
<1>1. \A e \in Dialogs :
        /\ status'[e] \in Manager!Statuses \cup {"none"}
        /\ ctx'[e] \in MsgIds \cup {NoMsg}
        /\ history'[e] \in {<<>>, history[e]}
  BY DEF SessionTypes, Manager!Replace, Manager!Statuses
<1>2. SessionTypes'
  BY <1>1 DEF SessionTypes, Manager!Replace
<1>3. QED
  BY <1>1, <1>2 DEF Extends

LEMMA AppendTypes ==
    ASSUME SessionTypes, NEW d \in Dialogs, NEW m \in Answers,
           history' = [history EXCEPT ![d] = Append(@, m)],
           status' \in [Dialogs -> Manager!Statuses \cup {"none"}],
           ctx' \in [Dialogs -> MsgIds \cup {NoMsg}]
    PROVE  SessionTypes' /\ Extends(d, m)
<1>1. history[d] \in Seq(Answers)
  BY DEF SessionTypes
<1>2. Append(history[d], m) \in Seq(Answers)
  BY <1>1
<1>3. QED
  BY <1>2 DEF SessionTypes, Extends

LEMMA AddTypes ==
    ASSUME SessionTypes, NEW d \in Dialogs, NEW m \in Answers, Manager!AddMessage(d, m)
    PROVE  /\ SessionTypes' /\ Extends(d, m)
           /\ UNCHANGED <<status, ctx>>
<1>1. CASE UNCHANGED <<status, ctx, history>>
  BY <1>1 DEF SessionTypes, Extends
<1>2. CASE /\ history' = [history EXCEPT ![d] = Append(@, m)]
           /\ UNCHANGED <<status, ctx>>
  BY <1>2, AppendTypes DEF SessionTypes
<1>3. QED
  BY <1>1, <1>2 DEF Manager!AddMessage, Manager!NotFound, Manager!Raise

LEMMA CreateTypes ==
    ASSUME SessionTypes, NEW d \in Dialogs, NEW m, Manager!CreateSession(d)
    PROVE  SessionTypes' /\ Extends(d, m)
<1>1. CASE UNCHANGED <<status, ctx, history>>
  BY <1>1 DEF SessionTypes, Extends
<1>2. CASE \E gone, new : Manager!Replace(gone, new)
  BY <1>2, ReplaceTypes
<1>3. QED
  BY <1>1, <1>2 DEF Manager!CreateSession, Manager!Raise

LEMMA CloseTypes ==
    ASSUME SessionTypes, NEW d \in Dialogs, NEW m, Manager!CloseSession(d)
    PROVE  SessionTypes' /\ Extends(d, m)
<1>1. CASE UNCHANGED <<status, ctx, history>>
  BY <1>1 DEF SessionTypes, Extends
<1>2. CASE \E gone, new : Manager!Replace(gone, new)
  BY <1>2, ReplaceTypes
<1>3. QED
  BY <1>1, <1>2 DEF Manager!CloseSession, Manager!Raise

LEMMA StartTypes ==
    ASSUME SessionTypes, NEW d \in Dialogs, NEW m \in MsgIds,
           Manager!StartAiResponse(d, m) \/ RecreateAndStart(d, m)
    PROVE  SessionTypes' /\ UNCHANGED history
  BY DEF SessionTypes, Manager!StartAiResponse, RecreateAndStart, Manager!NotFound,
         Manager!Raise, Manager!Statuses

LEMMA CompleteTypes ==
    ASSUME SessionTypes, NEW d \in Dialogs, NEW m \in MsgIds,
           Manager!CompleteAiResponse(d, m)
    PROVE  SessionTypes' /\ Extends(d, m)
<1>1. CASE UNCHANGED <<status, ctx, history>>
  BY <1>1 DEF SessionTypes, Extends
<1>2. CASE /\ history' = [history EXCEPT ![d] = Append(@, m)]
           /\ ctx' = [ctx EXCEPT ![d] = NoMsg]
           /\ \/ status' = [status EXCEPT ![d] = "completed"]
              \/ status' = status
  <2>1. /\ status' \in [Dialogs -> Manager!Statuses \cup {"none"}]
        /\ ctx' \in [Dialogs -> MsgIds \cup {NoMsg}]
    BY <1>2 DEF SessionTypes, Manager!Statuses
  <2>2. QED
    BY <1>2, <2>1, AppendTypes DEF Answers
<1>3. QED
  BY <1>1, <1>2 DEF Manager!CompleteAiResponse, Manager!NotFound, Manager!Raise

LEMMA SaveTypes ==
    ASSUME Types, NEW m \in MsgIds, Save(m)
    PROVE  SessionTypes' /\ Extends(dialog[m], m)
<1>1. dialog[m] \in Dialogs
  BY DEF Types, TurnTypes
<1>2. CASE Manager!CompleteAiResponse(dialog[m], m)
  BY <1>1, <1>2, CompleteTypes DEF Types
<1>3. CASE UNCHANGED <<status, ctx, history>>
  BY <1>3 DEF Types, SessionTypes, Extends
<1>4. QED
  BY <1>2, <1>3 DEF Save, sessionVars, Manager!GetSession
-----------------------------------------------------------------------------
(***************************************************************************)
(* Well-typedness.                                                         *)
(***************************************************************************)
LEMMA BusTypes ==
    ASSUME bus \in Seq(Events), NEW m \in MsgIds,
           NEW k \in {"execute", "progress", "complete", "error"}
    PROVE  /\ Append(bus, [kind |-> k, msg |-> m]) \in Seq(Events)
           /\ bus # <<>> => Tail(bus) \in Seq(Events) /\ Head(bus) \in Events
<1>1. [kind |-> k, msg |-> m] \in Events
  BY DEF Events
<1>2. QED
  BY <1>1

LEMMA InitTypes == Init => Types
<1>. SUFFICES ASSUME Init PROVE Types
  OBVIOUS
<1>1. SessionTypes
  BY DEF Init, Manager!Init, SessionTypes
<1>2. (CHOOSE d \in Dialogs : TRUE) \in Dialogs
  BY NamesAssumption
<1>3. TurnTypes
  BY <1>2 DEF Init, TurnTypes, Phases
<1>4. QED
  BY <1>1, <1>3 DEF Types

LEMMA NextTypes == Types /\ [Next]_vars => Types'
<1>. SUFFICES ASSUME Types, [Next]_vars PROVE Types'
  OBVIOUS
<1>. USE DEF Types
<1>1. ASSUME NEW d \in Dialogs, CreateDialog(d) PROVE Types'
  <2>1. SessionTypes'
    BY <1>1, CreateTypes DEF CreateDialog
  <2>2. TurnTypes'
    BY <1>1 DEF CreateDialog, TurnTypes, turnVars
  <2>3. QED
    BY <2>1, <2>2
<1>2. ASSUME NEW d \in Dialogs, DeleteDialog(d) PROVE Types'
  <2>1. SessionTypes'
    BY <1>2, CloseTypes DEF DeleteDialog, SessionTypes, sessionVars
  <2>2. TurnTypes'
    BY <1>2 DEF DeleteDialog, TurnTypes, turnVars, Show, screenVars
  <2>3. QED
    BY <2>1, <2>2
<1>3. ASSUME NEW m \in MsgIds, NEW d \in Dialogs, Post(m, d) PROVE Types'
  <2>1. SessionTypes'
    BY <1>3, AddTypes DEF Post, Answers
  <2>2. TurnTypes'
    BY <1>3 DEF Post, TurnTypes, screenVars, Goto, Phases
  <2>3. QED
    BY <2>1, <2>2
<1>4. ASSUME NEW m \in MsgIds, EmitRequest(m) PROVE Types'
  <2>1. SessionTypes'
    BY <1>4 DEF EmitRequest, SessionTypes, sessionVars
  <2>2. bus' \in Seq(Events)
    BY <1>4, BusTypes DEF EmitRequest, TurnTypes
  <2>3. TurnTypes'
    BY <1>4, <2>2 DEF EmitRequest, TurnTypes, screenVars, turnVars, Goto, Phases
  <2>4. QED
    BY <2>1, <2>3
<1>5. ASSUME NEW m \in MsgIds, SeeStop(m) \/ Chunk(m) \/ Reason(m) PROVE Types'
  <2>1. SessionTypes'
    BY <1>5 DEF SeeStop, Chunk, Reason, SessionTypes, sessionVars
  <2>2. TurnTypes'
    <3>1. CASE SeeStop(m)
      BY <3>1 DEF SeeStop, TurnTypes, screenVars, turnVars, Goto, Phases
    <3>2. CASE Chunk(m)
      BY <3>2 DEF Chunk, TurnTypes, screenVars, Goto, Phases
    <3>3. CASE Reason(m)
      BY <3>3 DEF Reason, TurnTypes, screenVars
    <3>4. QED
      BY <1>5, <3>1, <3>2, <3>3
  <2>3. QED
    BY <2>1, <2>2
<1>6. ASSUME NEW m \in MsgIds, EndStream(m) PROVE Types'
  <2>1. SessionTypes'
    BY <1>6, SaveTypes DEF EndStream
  <2>2. TurnTypes'
    BY <1>6 DEF EndStream, TurnTypes, screenVars, turnVars, Goto, Phases
  <2>3. QED
    BY <2>1, <2>2
<1>7. ASSUME NEW m \in MsgIds, FailStream(m) PROVE Types'
  <2>1. dialog[m] \in Dialogs
    BY DEF TurnTypes
  <2>2. SessionTypes'
    BY <1>7, <2>1, CompleteTypes DEF FailStream, SessionTypes, sessionVars
  <2>3. TurnTypes'
    BY <1>7 DEF FailStream, TurnTypes, screenVars, turnVars, Goto, Phases
  <2>4. QED
    BY <2>2, <2>3
<1>8. ASSUME NEW m \in MsgIds, EmitEvent(m) PROVE Types'
  <2>1. SessionTypes'
    BY <1>8 DEF EmitEvent, SessionTypes, sessionVars
  <2>2. /\ Emits[pc[m]] \in {"progress", "complete", "error"}
        /\ After[pc[m]] \in Phases
    BY <1>8 DEF EmitEvent, Emits, After, Phases
  <2>3. bus' \in Seq(Events)
    BY <1>8, <2>2, BusTypes DEF EmitEvent, TurnTypes
  <2>4. TurnTypes'
    BY <1>8, <2>2, <2>3 DEF EmitEvent, TurnTypes, screenVars, turnVars, Goto
  <2>5. QED
    BY <2>1, <2>4
<1>9. ASSUME NEW m \in MsgIds, Begin(m) PROVE Types'
  <2>1. dialog[m] \in Dialogs
    BY DEF TurnTypes
  <2>2. SessionTypes'
    BY <1>9, <2>1, StartTypes DEF Begin
  <2>3. bus' \in Seq(Events)
    BY <1>9, BusTypes DEF Begin, Consume, TurnTypes
  <2>4. TurnTypes'
    BY <1>9, <2>1, <2>3 DEF Begin, TurnTypes, turnVars, Goto, Phases, Show
  <2>5. QED
    BY <2>2, <2>4
<1>10. ASSUME NEW m \in MsgIds, HandleProgress(m) \/ HandleComplete(m) \/ HandleError(m)
       PROVE  Types'
  <2>1. SessionTypes'
    BY <1>10 DEF HandleProgress, HandleComplete, HandleError, SessionTypes, sessionVars
  <2>2. bus' \in Seq(Events)
    BY <1>10, BusTypes DEF HandleProgress, HandleComplete, HandleError, Consume, TurnTypes
  <2>3. TurnTypes'
    BY <1>10, <2>2 DEF HandleProgress, HandleComplete, HandleError, TurnTypes, turnVars,
                       screenVars, Show
  <2>4. QED
    BY <2>1, <2>3
<1>11. CASE Stop
  <2>1. SessionTypes'
    BY <1>11 DEF Stop, SessionTypes, sessionVars
  <2>2. TurnTypes'
    BY <1>11 DEF Stop, TurnTypes, turnVars
  <2>3. QED
    BY <2>1, <2>2
<1>12. CASE UNCHANGED vars
  BY <1>12 DEF vars, sessionVars, screenVars, turnVars, SessionTypes, TurnTypes
<1>13. QED
  BY <1>1, <1>2, <1>3, <1>4, <1>5, <1>6, <1>7, <1>8, <1>9, <1>10, <1>11, <1>12
     DEF Next, Turn, Handle

\* Sessions, screen, bus and turns are well typed in every reachable state.
THEOREM TurnTypeCorrect == Spec => []Types
<1>1. QED
  BY InitTypes, NextTypes, PTL DEF Spec
-----------------------------------------------------------------------------
(***************************************************************************)
(* The screen does not contradict itself.                                  *)
(***************************************************************************)
LEMMA NextScreen == Types /\ ScreenConsistent /\ [Next]_vars => ScreenConsistent'
<1>. SUFFICES ASSUME Types, ScreenConsistent, [Next]_vars PROVE ScreenConsistent'
  OBVIOUS
<1>1. ASSUME NEW d \in Dialogs, NEW m \in MsgIds,
             Show(d, "thinking", m) \/ Show(d, "idle", NoMsg) \/ Show(d, "error", NoMsg)
      PROVE  ScreenConsistent'
  BY <1>1, NamesAssumption DEF Show, ScreenConsistent, Types, TurnTypes
<1>2. ASSUME UNCHANGED <<display, placeholder>> PROVE ScreenConsistent'
  BY <1>2 DEF ScreenConsistent
<1>3. ASSUME NEW d \in Dialogs, CreateDialog(d) PROVE ScreenConsistent'
  BY <1>3, NamesAssumption DEF CreateDialog, ScreenConsistent, Types, TurnTypes
<1>4. ASSUME NEW d \in Dialogs, DeleteDialog(d) PROVE ScreenConsistent'
  <2>1. Show(d, "idle", NoMsg) \/ UNCHANGED <<display, placeholder>>
    BY <1>4 DEF DeleteDialog, screenVars
  <2>2. CASE Show(d, "idle", NoMsg)
    BY <2>2, NamesAssumption DEF Show, ScreenConsistent, Types, TurnTypes
  <2>3. QED
    BY <2>1, <2>2, <1>2
<1>5. ASSUME NEW m \in MsgIds, Begin(m) \/ HandleComplete(m) \/ HandleError(m)
      PROVE  ScreenConsistent'
  <2>1. dialog[m] \in Dialogs
    BY DEF Types, TurnTypes
  <2>2. QED
    BY <1>1, <1>5, <2>1 DEF Begin, HandleComplete, HandleError
<1>6. CASE Stop
  BY <1>6 DEF Stop, ScreenConsistent, Types, TurnTypes
<1>7. QED
  BY <1>2, <1>3, <1>4, <1>5, <1>6
     DEF Next, Turn, Handle, Post, EmitRequest, SeeStop, Chunk, Reason, EndStream,
         FailStream, EmitEvent, HandleProgress, screenVars, vars

\* In every reachable state a dialog shows a placeholder exactly while it shows
\* "thinking", whatever overlaps, fails, is stopped or deleted.
THEOREM ScreenCorrect == Spec => []ScreenConsistent
<1>1. Init => ScreenConsistent
  BY DEF Init, ScreenConsistent
<1>2. QED
  BY <1>1, InitTypes, NextTypes, NextScreen, PTL DEF Spec
-----------------------------------------------------------------------------
(***************************************************************************)
(* An answer is stored once.  While a turn may still save its answer, no   *)
(* history has it, and a turn begins only once: the bus has one request    *)
(* for each message that is queued and none for any other.                 *)
(***************************************************************************)
Saving == {"new", "posted", "queued", "streaming", "progress"}
Has(h, m) == \E i \in DOMAIN h : h[i] = m

Distinct ==
    \A d \in Dialogs, m \in MsgIds : \A i, j \in DOMAIN history[d] :
        history[d][i] = m /\ history[d][j] = m => i = j
Unsaved ==
    \A m \in MsgIds : pc[m] \in Saving => \A d \in Dialogs : ~Has(history[d], m)
Requested ==
    \A i \in DOMAIN bus : bus[i].kind = "execute" =>
        /\ pc[bus[i].msg] = "queued"
        /\ \A j \in DOMAIN bus : bus[j] = bus[i] => i = j

\* Appending m, which is no answer or not stored yet, keeps the answers apart.
LEMMA HistoryKept ==
    ASSUME Types, Distinct, Unsaved, NEW d \in Dialogs, NEW m \in Answers,
           Extends(d, m), SessionTypes',
           m \in MsgIds => pc[m] \in Saving /\ pc'[m] \notin Saving,
           \A n \in MsgIds : pc'[n] \in Saving => pc[n] \in Saving
    PROVE  Distinct' /\ Unsaved'
<1>. USE DEF Types, SessionTypes
<1>1. ASSUME NEW e \in Dialogs, NEW n \in MsgIds, Has(history'[e], n)
      PROVE  Has(history[e], n) \/ n = m
  <2>1. CASE history'[e] = Append(history[e], m)
    BY <1>1, <2>1 DEF Has
  <2>2. QED
    BY <1>1, <2>1 DEF Has, Extends
<1>2. Unsaved'
  <2>. SUFFICES ASSUME NEW n \in MsgIds, pc'[n] \in Saving, NEW e \in Dialogs,
                       Has(history'[e], n)
                PROVE  FALSE
    BY DEF Unsaved
  <2>1. n # m
    OBVIOUS
  <2>2. QED
    BY <1>1, <2>1 DEF Unsaved
<1>3. Distinct'
  <2>. SUFFICES ASSUME NEW e \in Dialogs, NEW n \in MsgIds,
                       NEW i \in DOMAIN history'[e], NEW j \in DOMAIN history'[e],
                       history'[e][i] = n, history'[e][j] = n
                PROVE  i = j
    BY DEF Distinct
  <2>1. CASE history'[e] = history[e]
    BY <2>1 DEF Distinct
  <2>2. CASE history'[e] = Append(history[e], m)
    <3>1. history[e] \in Seq(Answers)
      OBVIOUS
    <3>2. CASE n = m
      <4>1. ~Has(history[e], n)
        BY <3>2 DEF Unsaved
      <4>2. QED
        BY <2>2, <3>1, <4>1 DEF Has
    <3>3. CASE n # m
      BY <2>2, <3>1, <3>3 DEF Distinct
    <3>4. QED
      BY <3>2, <3>3
  <2>3. QED
    BY <2>1, <2>2 DEF Extends
<1>4. QED
  BY <1>2, <1>3

\* The same when no answer is appended.
LEMMA HistoryStays ==
    ASSUME Types, Distinct, Unsaved, SessionTypes',
           \A e \in Dialogs : history'[e] \in {history[e], <<>>},
           \A n \in MsgIds : pc'[n] \in Saving => pc[n] \in Saving
    PROVE  Distinct' /\ Unsaved'
<1>1. PICK d \in Dialogs : TRUE
  BY NamesAssumption
<1>2. "other" \in Answers /\ "other" \notin MsgIds
  BY NamesAssumption DEF Answers
<1>3. Extends(d, "other")
  BY DEF Extends
<1>4. QED
  BY <1>2, <1>3, HistoryKept
LEMMA EventAt ==
    ASSUME bus \in Seq(Events), NEW i \in DOMAIN bus
    PROVE  /\ bus[i] \in Events /\ bus[i].msg \in MsgIds
           /\ bus[i] = [kind |-> bus[i].kind, msg |-> bus[i].msg]
<1>1. bus[i] \in Events
  OBVIOUS
<1>2. QED
  BY <1>1 DEF Events

\* Requests stay unique while events of other kinds come and go.
LEMMA OthersAppended ==
    ASSUME bus \in Seq(Events), Requested, NEW e \in Events, e.kind # "execute",
           bus' = Append(bus, e) \/ bus' = bus,
           \A n \in MsgIds : pc[n] = "queued" => pc'[n] = "queued"
    PROVE  Requested'
<1>1. \A i \in DOMAIN bus : bus[i].msg \in MsgIds
  BY EventAt
<1>2. CASE bus' = bus
  BY <1>1, <1>2 DEF Requested
<1>3. CASE bus' = Append(bus, e)
  <2>1. \A i \in DOMAIN bus' : bus'[i].kind = "execute" => i \in DOMAIN bus /\ bus'[i] = bus[i]
    BY <1>3
  <2>2. QED
    BY <1>1, <2>1 DEF Requested
<1>4. QED
  BY <1>2, <1>3

LEMMA RequestAppended ==
    ASSUME bus \in Seq(Events), Requested, pc \in [MsgIds -> Phases],
           NEW m \in MsgIds, pc[m] = "posted",
           bus' = Append(bus, [kind |-> "execute", msg |-> m]),
           pc' = [pc EXCEPT ![m] = "queued"]
    PROVE  Requested'
<1>1. \A i \in DOMAIN bus : bus[i].kind = "execute" => bus[i].msg # m /\ bus[i].msg \in MsgIds
  BY EventAt DEF Requested
<1>2. \A i \in DOMAIN bus' :
        \/ i \in DOMAIN bus /\ bus'[i] = bus[i]
        \/ i = Len(bus) + 1 /\ bus'[i] = [kind |-> "execute", msg |-> m]
  OBVIOUS
<1>3. QED
  BY <1>1, <1>2 DEF Requested

LEMMA HeadTaken ==
    ASSUME bus \in Seq(Events), Requested, bus # <<>>, bus' = Tail(bus),
           \A n \in MsgIds : pc[n] = "queued" =>
                pc'[n] = "queued" \/ Head(bus) = [kind |-> "execute", msg |-> n]
    PROVE  Requested'
<1>1. \A i \in DOMAIN bus' : i + 1 \in DOMAIN bus /\ bus'[i] = bus[i + 1]
  OBVIOUS
<1>2. 1 \in DOMAIN bus /\ Head(bus) = bus[1]
  OBVIOUS
<1>3. \A i \in DOMAIN bus : bus[i].msg \in MsgIds
  BY EventAt
<1>. SUFFICES ASSUME NEW i \in DOMAIN bus', bus'[i].kind = "execute"
              PROVE  /\ pc'[bus'[i].msg] = "queued"
                     /\ \A j \in DOMAIN bus' : bus'[j] = bus'[i] => i = j
  BY DEF Requested
<1>4. /\ i + 1 \in DOMAIN bus /\ bus'[i] = bus[i + 1]
      /\ pc[bus[i + 1].msg] = "queued"
      /\ \A j \in DOMAIN bus : bus[j] = bus[i + 1] => j = i + 1
  BY <1>1 DEF Requested
<1>5. bus[1] # bus[i + 1]
  BY <1>2, <1>4
<1>6. bus[i + 1] = [kind |-> "execute", msg |-> bus[i + 1].msg]
  BY <1>4, EventAt
<1>7. pc'[bus'[i].msg] = "queued"
  BY <1>2, <1>3, <1>4, <1>5, <1>6
<1>8. \A j \in DOMAIN bus' : bus'[j] = bus'[i] => i = j
  BY <1>1, <1>4
<1>9. QED
  BY <1>7, <1>8

OnceInv == Distinct /\ Unsaved /\ Requested

LEMMA InitOnce == Init => OnceInv
  BY DEF Init, Manager!Init, OnceInv, Distinct, Unsaved, Requested, Has

LEMMA NextOnce == Types /\ OnceInv /\ [Next]_vars => OnceInv'
<1>. SUFFICES ASSUME Types, OnceInv, [Next]_vars PROVE OnceInv'
  OBVIOUS
<1>. USE DEF OnceInv
<1>0. SessionTypes'
  BY NextTypes DEF Types
<1>T. /\ bus \in Seq(Events) /\ pc \in [MsgIds -> Phases]
      /\ \A m \in MsgIds : dialog[m] \in Dialogs
  BY DEF Types, TurnTypes
<1>1. ASSUME bus' = bus, pc' = pc PROVE Requested'
  BY <1>1 DEF Requested
<1>2. ASSUME NEW d \in Dialogs, CreateDialog(d) PROVE OnceInv'
  <2>1. Extends(d, "other")
    BY <1>2, CreateTypes DEF CreateDialog, Types
  <2>2. bus' = bus /\ pc' = pc
    BY <1>2 DEF CreateDialog
  <2>3. QED
    BY <1>0, <1>1, <2>1, <2>2, HistoryKept, NamesAssumption DEF Answers
<1>3. ASSUME NEW d \in Dialogs, DeleteDialog(d) PROVE OnceInv'
  <2>1. Extends(d, "other")
    BY <1>3, CloseTypes DEF DeleteDialog, Types, Extends, sessionVars
  <2>2. bus' = bus /\ pc' = pc
    BY <1>3 DEF DeleteDialog
  <2>3. QED
    BY <1>0, <1>1, <2>1, <2>2, HistoryKept, NamesAssumption DEF Answers
<1>4. ASSUME NEW m \in MsgIds, NEW d \in Dialogs, Post(m, d) PROVE OnceInv'
  <2>1. "other" \in Answers /\ "other" \notin MsgIds
    BY NamesAssumption DEF Answers
  <2>2. Extends(d, "other")
    BY <1>4, <2>1, AddTypes DEF Post, Types
  <2>3. pc' = [pc EXCEPT ![m] = "posted"] /\ pc[m] = "new" /\ bus' = bus
    BY <1>4 DEF Post, Goto
  <2>4. \A n \in MsgIds : pc'[n] \in Saving => pc[n] \in Saving
    BY <1>T, <2>3 DEF Saving
  <2>5. Requested'
    BY <1>T, <2>3 DEF Requested, Events
  <2>6. QED
    BY <1>0, <2>1, <2>2, <2>4, <2>5, HistoryKept
<1>5. ASSUME NEW m \in MsgIds, EmitRequest(m) PROVE OnceInv'
  <2>1. Distinct' /\ Unsaved'
    <3>1. \A n \in MsgIds : pc'[n] \in Saving => pc[n] \in Saving
      BY <1>5, <1>T DEF EmitRequest, Goto, Saving
    <3>2. UNCHANGED history
      BY <1>5 DEF EmitRequest, sessionVars
    <3>3. QED
      BY <1>0, <3>1, <3>2, HistoryStays
  <2>2. ASSUME bus' = bus, pc' = [pc EXCEPT ![m] = "lost"] PROVE Requested'
    <3>1. pc[m] = "posted"
      BY <1>5 DEF EmitRequest
    <3>2. QED
      BY <1>T, <2>2, <3>1, EventAt DEF Requested
  <2>3. ASSUME bus' = Append(bus, [kind |-> "execute", msg |-> m]),
               pc' = [pc EXCEPT ![m] = "queued"]
        PROVE  Requested'
    <3>1. pc[m] = "posted"
      BY <1>5 DEF EmitRequest
    <3>2. QED
      BY <1>T, <2>3, <3>1, RequestAppended
  <2>4. Requested'
    BY <1>5, <2>2, <2>3 DEF EmitRequest, Goto
  <2>5. QED
    BY <2>1, <2>4
<1>6. ASSUME NEW m \in MsgIds, SeeStop(m) \/ Chunk(m) \/ Reason(m) PROVE OnceInv'
  <2>1. /\ UNCHANGED <<history, bus>>
        /\ pc[m] = "streaming"
        /\ \E p \in {"stopped", "progress", "streaming"} : pc' = [pc EXCEPT ![m] = p]
    BY <1>6, <1>T DEF SeeStop, Chunk, Reason, sessionVars, Goto
  <2>2. \A n \in MsgIds : pc'[n] \in Saving => pc[n] \in Saving
    BY <1>T, <2>1 DEF Saving
  <2>3. Requested'
    BY <1>T, <2>1 DEF Requested, Events
  <2>4. QED
    BY <1>0, <2>1, <2>2, <2>3, HistoryStays
<1>7. ASSUME NEW m \in MsgIds, EndStream(m) \/ FailStream(m) PROVE OnceInv'
  <2>1. /\ pc[m] = "streaming" /\ bus' = bus
        /\ \E p \in {"complete", "ended", "broken", "error"} : pc' = [pc EXCEPT ![m] = p]
    BY <1>7 DEF EndStream, FailStream, Goto
  <2>2. Extends(dialog[m], m)
    <3>1. CASE EndStream(m)
      BY <3>1, SaveTypes DEF EndStream
    <3>2. CASE FailStream(m)
      BY <1>T, <3>2, CompleteTypes DEF FailStream, Types, Extends, sessionVars
    <3>3. QED
      BY <1>7, <3>1, <3>2
  <2>3. /\ pc'[m] \notin Saving /\ pc[m] \in Saving
        /\ \A n \in MsgIds : pc'[n] \in Saving => pc[n] \in Saving
    BY <1>T, <2>1 DEF Saving
  <2>4. Distinct' /\ Unsaved'
    BY <1>0, <1>T, <2>2, <2>3, HistoryKept DEF Answers
  <2>5. Requested'
    BY <1>T, <2>1 DEF Requested, Events
  <2>6. QED
    BY <2>4, <2>5
<1>8. ASSUME NEW m \in MsgIds, EmitEvent(m) PROVE OnceInv'
  <2>1. /\ Emits[pc[m]] \in {"progress", "complete", "error"}
        /\ pc[m] \in {"progress", "complete", "broken", "error"}
        /\ After[pc[m]] \in {"streaming", "ended", "error", "failed"}
        /\ After[pc[m]] = "streaming" => pc[m] = "progress"
    BY <1>8 DEF EmitEvent, Emits, After
  <2>2. pc' = [pc EXCEPT ![m] = After[pc[m]]] /\ UNCHANGED history
    BY <1>8 DEF EmitEvent, Goto, sessionVars
  <2>3. \A n \in MsgIds : pc'[n] \in Saving => pc[n] \in Saving
    BY <1>T, <2>1, <2>2 DEF Saving
  <2>4. \A n \in MsgIds : pc[n] = "queued" => pc'[n] = "queued"
    BY <1>T, <2>1, <2>2
  <2>5. [kind |-> Emits[pc[m]], msg |-> m] \in Events
    BY <2>1 DEF Events
  <2>6. Requested'
    BY <1>8, <1>T, <2>1, <2>4, <2>5, OthersAppended DEF EmitEvent
  <2>7. QED
    BY <1>0, <2>2, <2>3, <2>6, HistoryStays
<1>9. ASSUME NEW m \in MsgIds, Begin(m) PROVE OnceInv'
  <2>1. /\ bus # <<>> /\ Head(bus) = [kind |-> "execute", msg |-> m]
        /\ bus' = Tail(bus) /\ pc' = [pc EXCEPT ![m] = "streaming"]
    BY <1>9 DEF Begin, Consume, Goto
  <2>2. UNCHANGED history
    BY <1>9, <1>T, StartTypes DEF Begin, Types
  <2>3. pc[m] = "queued"
    BY <1>T, <2>1 DEF Requested
  <2>4. \A n \in MsgIds : pc'[n] \in Saving => pc[n] \in Saving
    BY <1>T, <2>1, <2>3 DEF Saving
  <2>5. Requested'
    BY <1>T, <2>1, HeadTaken
  <2>6. QED
    BY <1>0, <2>2, <2>4, <2>5, HistoryStays
<1>10. ASSUME NEW m \in MsgIds, HandleProgress(m) \/ HandleComplete(m) \/ HandleError(m)
       PROVE  OnceInv'
  <2>1. bus # <<>> /\ bus' = Tail(bus) /\ UNCHANGED <<history, pc>>
    BY <1>10 DEF HandleProgress, HandleComplete, HandleError, Consume, sessionVars
  <2>2. Requested'
    BY <1>T, <2>1, HeadTaken
  <2>3. QED
    BY <1>0, <2>1, <2>2, HistoryStays
<1>11. CASE Stop \/ UNCHANGED vars
  <2>1. UNCHANGED <<history, pc, bus>>
    BY <1>11 DEF Stop, vars, sessionVars
  <2>2. QED
    BY <1>0, <1>1, <2>1, HistoryStays
<1>12. QED
  BY <1>2, <1>3, <1>4, <1>5, <1>6, <1>7, <1>8, <1>9, <1>10, <1>11 DEF Next, Turn, Handle

LEMMA OnceIsOnce == Types /\ Distinct => AnswerOnce
<1>. SUFFICES ASSUME Types, Distinct, NEW d \in Dialogs, NEW m \in MsgIds
              PROVE  Saved(m, history[d]) <= 1
  BY DEF AnswerOnce
<1>. DEFINE at == {i \in DOMAIN history[d] : history[d][i] = m}
<1>1. CASE at = {}
  BY <1>1, FS_EmptySet DEF Saved
<1>2. CASE at # {}
  <2>1. PICK i : i \in at
    BY <1>2
  <2>2. at = {i}
    BY <2>1 DEF Distinct
  <2>3. QED
    <3>1. Cardinality(at) = 1
      BY <2>2, FS_Singleton
    <3>2. QED
      BY <3>1 DEF Saved
<1>3. QED
  BY <1>1, <1>2

\* In every reachable state an answer is stored at most once, for all dialogs,
\* messages, limits and moves of users and models.
THEOREM AnswerOnceCorrect == Spec => []AnswerOnce
<1>1. Types /\ OnceInv => AnswerOnce
  BY OnceIsOnce DEF OnceInv
<1>2. QED
  BY <1>1, InitTypes, NextTypes, InitOnce, NextOnce, PTL DEF Spec
-----------------------------------------------------------------------------
(***************************************************************************)
(* Patient users and a model that does not fail: dialogs may be deleted,   *)
(* and the bus may lose events, but nobody posts to a dialog that thinks,  *)
(* stops an answer or sends none.                                          *)
(***************************************************************************)
Patient == Moves \subseteq {"delete"}

\* The completion of m is still to be emitted or to be handled.
Announced(m) == \E i \in DOMAIN bus : bus[i].kind = "complete" /\ bus[i].msg = m
Announcing(m) == pc[m] = "complete" \/ Announced(m)
Busy(m) == pc[m] \in {"posted", "queued", "streaming", "progress"} \/ Announcing(m)

Calm ==
    /\ \A m \in MsgIds : pc[m] \in {"new", "posted", "queued", "streaming", "progress",
                                    "complete", "ended", "lost"}
    /\ \A d \in Dialogs : status[d] \in {"none", "active", "streaming", "completed"}
    /\ \A i \in DOMAIN bus : bus[i].kind # "error"
    /\ stops = {}

Known ==
    /\ Manager!Sessions \subseteq issued
    /\ \A m \in MsgIds : pc[m] # "new" => dialog[m] \in issued

\* At most one message of a dialog is under way, its completion included.
Alone ==
    \A m, n \in MsgIds : Busy(m) /\ Busy(n) /\ dialog[m] = dialog[n] => m = n

EndedOnce ==
    \A i \in DOMAIN bus : bus[i].kind = "complete" =>
        /\ pc[bus[i].msg] = "ended"
        /\ \A j \in DOMAIN bus : bus[j] = bus[i] => i = j

Owned ==
    \A m \in Streaming :
        /\ status[dialog[m]] = "streaming" /\ ctx[dialog[m]] = m
        /\ display[dialog[m]] = "thinking" /\ placeholder[dialog[m]] = m

\* Until a completion is handled nobody can post to its dialog.
Closed ==
    \A m \in MsgIds : Announcing(m) =>
        display[dialog[m]] = "thinking" \/ dialog[m] \notin Manager!Sessions

PatientInv == Calm /\ Known /\ Alone /\ EndedOnce /\ Owned /\ Closed

LEMMA InitPatient == Init => PatientInv
<1>. SUFFICES ASSUME Init PROVE PatientInv
  OBVIOUS
<1>1. /\ \A m \in MsgIds : pc[m] = "new" /\ ~Busy(m)
      /\ \A d \in Dialogs : status[d] = "none"
      /\ bus = <<>> /\ stops = {}
  BY DEF Init, Manager!Init, Busy, Announcing, Announced
<1>2. Manager!Sessions = {} /\ Streaming = {}
  BY <1>1 DEF Manager!Sessions, Streaming
<1>3. QED
  BY <1>1, <1>2 DEF PatientInv, Calm, Known, Alone, EndedOnce, Owned, Closed, Busy

\* What the bus says of completions when an event comes or goes.
LEMMA AppendAnnounces ==
    ASSUME bus \in Seq(Events), NEW e \in Events, bus' = Append(bus, e)
    PROVE  \A n \in MsgIds : Announced(n)' <=>
                Announced(n) \/ (e.kind = "complete" /\ e.msg = n)
<1>1. \A i \in DOMAIN bus : i \in DOMAIN bus' /\ bus'[i] = bus[i]
  OBVIOUS
<1>2. Len(bus) + 1 \in DOMAIN bus' /\ bus'[Len(bus) + 1] = e
  OBVIOUS
<1>3. \A i \in DOMAIN bus' : i \in DOMAIN bus \/ i = Len(bus) + 1
  OBVIOUS
<1>4. QED
  BY <1>1, <1>2, <1>3 DEF Announced

LEMMA TailAnnounces ==
    ASSUME bus \in Seq(Events), bus # <<>>, bus' = Tail(bus)
    PROVE  /\ \A n \in MsgIds : Announced(n)' => Announced(n)
           /\ \A n \in MsgIds : EndedOnce /\ Head(bus) = [kind |-> "complete", msg |-> n]
                => ~Announced(n)'
<1>1. \A i \in DOMAIN bus' : i + 1 \in DOMAIN bus /\ bus'[i] = bus[i + 1]
  OBVIOUS
<1>2. 1 \in DOMAIN bus /\ Head(bus) = bus[1]
  OBVIOUS
<1>3. \A n \in MsgIds : Announced(n)' => Announced(n)
  BY <1>1 DEF Announced
<1>4. ASSUME NEW n \in MsgIds, EndedOnce, Head(bus) = [kind |-> "complete", msg |-> n],
             Announced(n)'
      PROVE  FALSE
  <2>1. PICK i \in DOMAIN bus' : bus'[i].kind = "complete" /\ bus'[i].msg = n
    BY <1>4 DEF Announced
  <2>2. bus[i + 1] = bus[1]
    BY <1>1, <1>2, <1>4, <2>1, EventAt
  <2>3. i + 1 = 1
    BY <1>1, <1>2, <1>4, <2>2 DEF EndedOnce
  <2>4. QED
    BY <2>3
<1>5. QED
  BY <1>3, <1>4

LEMMA AloneStays ==
    ASSUME Alone, dialog' = dialog, \A n \in MsgIds : Busy(n)' => Busy(n)
    PROVE  Alone'
  BY DEF Alone

\* Completions stay unique and later than their turns.
LEMMA OthersEnded ==
    ASSUME bus \in Seq(Events), EndedOnce, NEW e \in Events, e.kind # "complete",
           bus' = Append(bus, e) \/ bus' = bus,
           \A n \in MsgIds : pc[n] = "ended" => pc'[n] = "ended"
    PROVE  EndedOnce'
<1>1. \A i \in DOMAIN bus : bus[i].msg \in MsgIds
  BY EventAt
<1>2. CASE bus' = bus
  BY <1>1, <1>2 DEF EndedOnce
<1>3. CASE bus' = Append(bus, e)
  <2>1. \A i \in DOMAIN bus' : bus'[i].kind = "complete" => i \in DOMAIN bus /\ bus'[i] = bus[i]
    BY <1>3
  <2>2. QED
    BY <1>1, <2>1 DEF EndedOnce
<1>4. QED
  BY <1>2, <1>3

LEMMA CompletionAppended ==
    ASSUME bus \in Seq(Events), EndedOnce, pc \in [MsgIds -> Phases],
           NEW m \in MsgIds, pc[m] = "complete",
           bus' = Append(bus, [kind |-> "complete", msg |-> m]),
           pc' = [pc EXCEPT ![m] = "ended"]
    PROVE  EndedOnce'
<1>1. \A i \in DOMAIN bus : bus[i].kind = "complete" => bus[i].msg # m /\ bus[i].msg \in MsgIds
  BY EventAt DEF EndedOnce
<1>2. \A i \in DOMAIN bus' :
        \/ i \in DOMAIN bus /\ bus'[i] = bus[i]
        \/ i = Len(bus) + 1 /\ bus'[i] = [kind |-> "complete", msg |-> m]
  OBVIOUS
<1>3. QED
  BY <1>1, <1>2 DEF EndedOnce

LEMMA CompletionTaken ==
    ASSUME bus \in Seq(Events), EndedOnce, bus # <<>>, bus' = Tail(bus),
           \A n \in MsgIds : pc[n] = "ended" => pc'[n] = "ended"
    PROVE  EndedOnce'
<1>1. \A i \in DOMAIN bus' : i + 1 \in DOMAIN bus /\ bus'[i] = bus[i + 1]
  OBVIOUS
<1>2. \A i \in DOMAIN bus : bus[i].msg \in MsgIds
  BY EventAt
<1>3. QED
  BY <1>1, <1>2 DEF EndedOnce

\* A turn that has not begun and one that has been announced differ.
LEMMA AnnouncedEnded ==
    ASSUME bus \in Seq(Events), EndedOnce, NEW m \in MsgIds, Announced(m)
    PROVE  pc[m] = "ended"
  BY DEF Announced, EndedOnce

(***************************************************************************)
(* What the calls of the session manager do to the table of sessions.      *)
(***************************************************************************)
Kept(e) == status'[e] = status[e] /\ ctx'[e] = ctx[e]
Dropped(e) == status'[e] = "none" /\ status[e] # "streaming"

LEMMA CreateKeeps ==
    ASSUME SessionTypes, NEW d \in Dialogs, Manager!CreateSession(d)
    PROVE  /\ \A e \in Dialogs \ {d} : Kept(e) \/ Dropped(e)
           /\ d \notin Manager!Sessions => status'[d] \in {"none", "active"}
<1>1. CASE UNCHANGED <<status, ctx>>
  BY <1>1 DEF Kept, Manager!Sessions
<1>2. CASE Manager!Replace({}, {d})
  BY <1>2 DEF Manager!Replace, Kept
<1>3. CASE \E lru \in Manager!Sessions : Manager!CanClose(lru) /\ Manager!Replace({lru}, {d})
  <2>1. PICK lru \in Manager!Sessions :
            Manager!CanClose(lru) /\ Manager!Replace({lru}, {d})
    BY <1>3
  <2>2. status[lru] # "streaming"
    BY <2>1 DEF Manager!CanClose, Manager!CanMove, Manager!ValidTransitions
  <2>3. QED
    BY <2>1, <2>2 DEF Manager!Replace, Kept, Dropped, Manager!Sessions
<1>4. QED
  BY <1>1, <1>2, <1>3 DEF Manager!CreateSession, Manager!Raise

LEMMA CloseKeeps ==
    ASSUME SessionTypes, NEW d \in Dialogs, d \in Manager!Sessions, Manager!CloseSession(d)
    PROVE  \/ ~Manager!CanClose(d) /\ UNCHANGED <<status, ctx>>
           \/ /\ Manager!CanClose(d) /\ Dropped(d)
              /\ \A e \in Dialogs \ {d} : Kept(e)
<1>1. CASE Manager!CanClose(d)
  <2>1. Manager!Replace({d}, {})
    BY <1>1 DEF Manager!CloseSession
  <2>2. status[d] # "streaming"
    BY <1>1 DEF Manager!CanClose, Manager!CanMove, Manager!ValidTransitions
  <2>3. QED
    BY <1>1, <2>1, <2>2 DEF Manager!Replace, Kept, Dropped
<1>2. CASE ~Manager!CanClose(d)
  BY <1>2 DEF Manager!CloseSession, Manager!Raise
<1>3. QED
  BY <1>1, <1>2

LEMMA StartOwns ==
    ASSUME SessionTypes, NEW d \in Dialogs, NEW m \in MsgIds,
           status[d] \in {"none", "active", "streaming", "completed"},
           IF d \in Manager!Sessions
           THEN Manager!StartAiResponse(d, m) ELSE RecreateAndStart(d, m)
    PROVE  /\ status' = [status EXCEPT ![d] = "streaming"]
           /\ ctx' = [ctx EXCEPT ![d] = m]
<1>1. CASE d \in Manager!Sessions
  <2>1. status[d] # "none"
    BY <1>1 DEF Manager!Sessions
  <2>2. status[d] = "streaming" \/ Manager!CanMove(d, "streaming")
    BY <2>1 DEF Manager!CanMove, Manager!ValidTransitions
  <2>3. QED
    BY <1>1, <2>2 DEF Manager!StartAiResponse, Manager!NotFound
<1>2. CASE d \notin Manager!Sessions
  BY <1>2 DEF RecreateAndStart
<1>3. QED
  BY <1>1, <1>2

\* A patient turn ends by completing the session that it owns.
LEMMA PatientSave ==
    ASSUME Patient, Types, Owned, NEW m \in MsgIds, EndStream(m)
    PROVE  /\ history' = [history EXCEPT ![dialog[m]] = Append(@, m)]
           /\ status' = [status EXCEPT ![dialog[m]] = "completed"]
           /\ ctx' = [ctx EXCEPT ![dialog[m]] = NoMsg]
           /\ pc' = [pc EXCEPT ![m] = "complete"]
           /\ pc[m] = "streaming"
<1>1. pc[m] = "streaming" /\ text[m] > 0 /\ text[m] # 0
  BY DEF EndStream, Patient, Types, TurnTypes
<1>2. m \in Streaming
  BY <1>1 DEF Streaming
<1>3. dialog[m] \in Dialogs /\ status[dialog[m]] = "streaming"
  BY <1>2 DEF Owned, Types, TurnTypes
<1>4. dialog[m] \in Manager!Sessions
  BY <1>3 DEF Manager!Sessions
<1>5. Manager!CompleteAiResponse(dialog[m], m)
  BY <1>1, <1>3, <1>4 DEF EndStream, Save
<1>6. Manager!CanMove(dialog[m], "completed")
  BY <1>3 DEF Manager!CanMove, Manager!ValidTransitions
<1>7. /\ history' = [history EXCEPT ![dialog[m]] = Append(@, m)]
      /\ status' = [status EXCEPT ![dialog[m]] = "completed"]
      /\ ctx' = [ctx EXCEPT ![dialog[m]] = NoMsg]
  BY <1>4, <1>5, <1>6 DEF Manager!CompleteAiResponse, Manager!NotFound
<1>8. QED
  BY <1>1, <1>7 DEF EndStream, Goto

LEMMA NextPatient ==
    Patient /\ Types /\ OnceInv /\ PatientInv /\ [Next]_vars => PatientInv'
<1>. SUFFICES ASSUME Patient, Types, OnceInv, PatientInv, [Next]_vars PROVE PatientInv'
  OBVIOUS
<1>. USE DEF PatientInv
<1>0. SessionTypes /\ TurnTypes /\ SessionTypes' /\ TurnTypes'
  BY NextTypes DEF Types
<1>T. /\ bus \in Seq(Events) /\ pc \in [MsgIds -> Phases]
      /\ \A m \in MsgIds : dialog[m] \in Dialogs
      /\ \A d \in Dialogs : d \in Manager!Sessions <=> status[d] # "none"
      /\ \A d \in Dialogs : d \in Manager!Sessions' <=> status'[d] # "none"
  BY <1>0 DEF TurnTypes, Manager!Sessions
\* What a phase that has begun says of its dialog.
<1>P. /\ \A m \in MsgIds : Announcing(m) => pc[m] # "new" /\ dialog[m] \in issued
      /\ \A m \in Streaming : pc[m] # "new" /\ dialog[m] \in issued
      /\ \A m \in Streaming : Busy(m) /\ ~Announcing(m)
  BY <1>T, AnnouncedEnded DEF Announcing, Streaming, Known, Busy
\* Steps that leave the bus and the turns alone.
<1>S. ASSUME UNCHANGED <<bus, pc, dialog>>
      PROVE  /\ Alone' /\ EndedOnce'
             /\ \A m \in MsgIds : Announcing(m)' <=> Announcing(m)
             /\ Streaming' = Streaming
  BY <1>S DEF Alone, EndedOnce, Announcing, Announced, Busy, Streaming
\* Steps that leave the sessions and the screen alone.
<1>Q. ASSUME UNCHANGED <<status, ctx, issued, display, placeholder, dialog>>,
             Streaming' \subseteq Streaming,
             \A m \in MsgIds : Announcing(m)' => Announcing(m) \/ m \in Streaming,
             \A m \in MsgIds : pc'[m] # "new" => pc[m] # "new"
      PROVE  Known' /\ Owned' /\ Closed'
  <2>1. Known'
    BY <1>Q DEF Known, Manager!Sessions
  <2>2. Owned'
    BY <1>Q DEF Owned
  <2>3. Closed'
    BY <1>Q DEF Closed, Owned, Manager!Sessions
  <2>4. QED
    BY <2>1, <2>2, <2>3
<1>1. ASSUME NEW d \in Dialogs, CreateDialog(d) PROVE PatientInv'
  <2>1. /\ d \notin issued /\ issued' = issued \cup {d}
        /\ UNCHANGED <<bus, pc, dialog, stops>>
        /\ \A e \in Dialogs \ {d} : display'[e] = display[e] /\ placeholder'[e] = placeholder[e]
    BY <1>0, <1>1 DEF CreateDialog, turnVars, TurnTypes
  <2>2. d \notin Manager!Sessions
    BY <2>1 DEF Known
  <2>3. /\ \A e \in Dialogs \ {d} : Kept(e) \/ Dropped(e)
        /\ status'[d] \in {"none", "active"}
    BY <1>0, <1>1, <2>2, CreateKeeps DEF CreateDialog
  <2>4. /\ \A m \in Streaming : dialog[m] # d
        /\ \A m \in MsgIds : Announcing(m) => dialog[m] # d
    BY <1>P, <2>1
  <2>5. Calm'
    BY <2>1, <2>3 DEF Calm, Kept, Dropped
  <2>6. Known'
    BY <1>T, <2>1, <2>3 DEF Known, Kept, Dropped, Manager!Sessions
  <2>7. Owned'
    <3>1. \A m \in Streaming : m \in MsgIds /\ status[dialog[m]] = "streaming"
      BY DEF Owned, Streaming
    <3>2. \A m \in Streaming : Kept(dialog[m])
      BY <1>T, <2>3, <2>4, <3>1 DEF Dropped
    <3>3. QED
      BY <1>S, <1>T, <2>1, <2>4, <3>1, <3>2 DEF Owned, Kept
  <2>8. Closed'
    BY <1>S, <1>T, <2>1, <2>3, <2>4 DEF Closed, Kept, Dropped
  <2>9. QED
    BY <1>S, <2>1, <2>5, <2>6, <2>7, <2>8
<1>2. ASSUME NEW d \in Dialogs, DeleteDialog(d) PROVE PatientInv'
  <2>1. UNCHANGED <<bus, pc, dialog, stops, issued>>
    BY <1>2 DEF DeleteDialog, turnVars, Show, screenVars
  <2>2. CASE UNCHANGED <<status, ctx, display, placeholder>>
    <3>1. Calm'
      BY <2>1, <2>2 DEF Calm
    <3>2. QED
      BY <1>S, <1>Q, <2>1, <2>2, <3>1
  <2>3. CASE /\ Show(d, "idle", NoMsg)
             /\ status[d] # "streaming" /\ status'[d] = "none"
             /\ \A e \in Dialogs \ {d} : Kept(e)
    <3>1. \A e \in Dialogs \ {d} : display'[e] = display[e] /\ placeholder'[e] = placeholder[e]
      BY <1>0, <2>3 DEF Show, TurnTypes
    <3>2. Calm'
      BY <2>1, <2>3 DEF Calm, Kept
    <3>3. Known'
      BY <1>T, <2>1, <2>3 DEF Known, Kept, Manager!Sessions
    <3>4. Owned'
      <4>1. \A m \in Streaming : dialog[m] # d /\ m \in MsgIds
        BY <2>3 DEF Owned, Streaming
      <4>2. QED
        BY <1>S, <1>T, <2>1, <2>3, <3>1, <4>1 DEF Owned, Kept
    <3>5. Closed'
      BY <1>S, <1>T, <2>1, <2>3, <3>1 DEF Closed, Kept
    <3>6. QED
      BY <1>S, <2>1, <3>2, <3>3, <3>4, <3>5
  <2>4. CASE d \in Manager!Sessions
    BY <1>0, <1>2, <2>2, <2>3, <2>4, CloseKeeps DEF DeleteDialog, screenVars, Dropped
  <2>5. CASE d \notin Manager!Sessions
    BY <1>2, <1>T, <2>3, <2>5 DEF DeleteDialog, sessionVars, Kept
  <2>6. QED
    BY <2>4, <2>5
<1>3. ASSUME NEW m \in MsgIds, NEW d \in Dialogs, Post(m, d) PROVE PatientInv'
  <2>1. /\ pc[m] = "new" /\ pc' = [pc EXCEPT ![m] = "posted"]
        /\ dialog' = [dialog EXCEPT ![m] = d]
        /\ d \in Manager!Sessions /\ display[d] # "thinking"
        /\ \A n \in Active(d) : pc[n] \notin {"posted", "queued"}
        /\ UNCHANGED <<bus, stops, issued, display, placeholder>>
    BY <1>3 DEF Post, Goto, screenVars, Patient
  <2>2. UNCHANGED <<status, ctx>>
    BY <1>0, <1>3, AddTypes DEF Post, Answers
  <2>3. \A n \in MsgIds : Announced(n)' <=> Announced(n)
    BY <2>1 DEF Announced
  <2>4. \A n \in MsgIds \ {m} : pc'[n] = pc[n] /\ dialog'[n] = dialog[n]
    BY <1>0, <2>1 DEF TurnTypes
  <2>5. pc'[m] = "posted" /\ dialog'[m] = d
    BY <1>0, <2>1 DEF TurnTypes
  <2>6. ~Announced(m)
    BY <1>T, <2>1, AnnouncedEnded
  <2>7. \A n \in MsgIds : Busy(n) => dialog[n] # d
    <3>. SUFFICES ASSUME NEW n \in MsgIds, Busy(n), dialog[n] = d PROVE FALSE
      OBVIOUS
    <3>1. CASE pc[n] \in {"posted", "queued"}
      BY <2>1, <3>1 DEF Active, Over
    <3>2. CASE n \in Streaming
      BY <2>1, <3>2 DEF Owned
    <3>3. CASE Announcing(n)
      BY <2>1, <3>3 DEF Closed
    <3>4. QED
      BY <3>1, <3>2, <3>3 DEF Busy, Streaming
  <2>8. /\ \A n \in MsgIds \ {m} : Busy(n)' <=> Busy(n)
        /\ \A n \in MsgIds : Announcing(n)' => n # m /\ Announcing(n)
        /\ Streaming' = Streaming /\ m \notin Streaming
    BY <2>1, <2>3, <2>4, <2>5, <2>6 DEF Busy, Announcing, Streaming
  <2>9. Calm'
    BY <2>1, <2>2, <2>4, <2>5 DEF Calm
  <2>10. Known'
    BY <2>1, <2>2, <2>4, <2>5 DEF Known, Manager!Sessions
  <2>11. Alone'
    BY <2>4, <2>5, <2>7, <2>8 DEF Alone
  <2>12. EndedOnce'
    BY <1>T, <2>1, <2>4, EventAt DEF EndedOnce
  <2>13. Owned'
    BY <2>1, <2>2, <2>4, <2>8 DEF Owned, Streaming
  <2>14. Closed'
    BY <1>T, <2>1, <2>2, <2>4, <2>8 DEF Closed
  <2>15. QED
    BY <2>9, <2>10, <2>11, <2>12, <2>13, <2>14
<1>4. ASSUME NEW m \in MsgIds, EmitRequest(m) PROVE PatientInv'
  <2>1. /\ UNCHANGED <<status, ctx, issued, display, placeholder, dialog, stops>>
        /\ pc[m] = "posted"
        /\ \E p \in {"queued", "lost"} : pc' = [pc EXCEPT ![m] = p]
        /\ bus' = Append(bus, [kind |-> "execute", msg |-> m]) \/ bus' = bus
    BY <1>4 DEF EmitRequest, sessionVars, screenVars, turnVars, Goto
  <2>2. [kind |-> "execute", msg |-> m] \in Events
    BY DEF Events
  <2>3. \A n \in MsgIds : Announced(n)' <=> Announced(n)
    BY <1>T, <2>1, <2>2, AppendAnnounces DEF Announced
  <2>4. /\ \A n \in MsgIds : Announcing(n)' <=> Announcing(n)
        /\ \A n \in MsgIds : Busy(n)' => Busy(n)
        /\ Streaming' = Streaming
        /\ \A n \in MsgIds : pc[n] = "ended" => pc'[n] = "ended"
    BY <1>T, <2>1, <2>3 DEF Announcing, Busy, Streaming
  <2>5. Calm'
    <3>1. \A i \in DOMAIN bus' : bus'[i].kind # "error"
      BY <1>T, <2>1 DEF Calm
    <3>2. QED
      BY <1>T, <2>1, <3>1 DEF Calm
  <2>6. EndedOnce'
    BY <1>T, <2>1, <2>2, <2>4, OthersEnded
  <2>7. Known' /\ Owned' /\ Closed'
    BY <1>Q, <1>T, <2>1, <2>4
  <2>8. QED
    BY <2>1, <2>4, <2>5, <2>6, <2>7, AloneStays
<1>5. ASSUME NEW m \in MsgIds, SeeStop(m) \/ Reason(m) \/ FailStream(m) PROVE PatientInv'
  BY <1>5 DEF SeeStop, Reason, FailStream, Calm, Patient
<1>6. ASSUME NEW m \in MsgIds, Chunk(m) PROVE PatientInv'
  <2>1. /\ UNCHANGED <<status, ctx, issued, display, placeholder, dialog, stops, bus>>
        /\ pc[m] = "streaming" /\ pc' = [pc EXCEPT ![m] = "progress"]
    BY <1>6 DEF Chunk, sessionVars, screenVars, Goto
  <2>2. /\ \A n \in MsgIds : Announcing(n)' <=> Announcing(n)
        /\ \A n \in MsgIds : Busy(n)' => Busy(n)
        /\ Streaming' = Streaming
        /\ \A n \in MsgIds : pc[n] = "ended" => pc'[n] = "ended"
    BY <1>T, <2>1 DEF Announcing, Announced, Busy, Streaming
  <2>3. Calm'
    BY <1>T, <2>1 DEF Calm
  <2>4. EndedOnce'
    BY <1>T, <2>1, <2>2, EventAt DEF EndedOnce
  <2>5. Known' /\ Owned' /\ Closed'
    BY <1>Q, <1>T, <2>1, <2>2
  <2>6. QED
    BY <2>1, <2>2, <2>3, <2>4, <2>5, AloneStays
<1>7. ASSUME NEW m \in MsgIds, EndStream(m) PROVE PatientInv'
  <2>0. Owned
    OBVIOUS
  <2>1. /\ status' = [status EXCEPT ![dialog[m]] = "completed"]
        /\ ctx' = [ctx EXCEPT ![dialog[m]] = NoMsg]
        /\ pc[m] = "streaming" /\ pc' = [pc EXCEPT ![m] = "complete"]
    BY <1>7, <2>0, PatientSave
  <2>2. /\ UNCHANGED <<issued, display, placeholder, dialog, bus>>
        /\ stops' = {}
    BY <1>7 DEF EndStream, screenVars, turnVars, Calm
  <2>3. m \in Streaming /\ display[dialog[m]] = "thinking"
    BY <2>1 DEF Streaming, Owned
  <2>4. /\ \A n \in MsgIds : Announcing(n)' => Announcing(n) \/ n = m
        /\ \A n \in MsgIds : Busy(n)' => Busy(n)
        /\ Streaming' = Streaming \ {m}
        /\ \A n \in MsgIds : pc[n] = "ended" => pc'[n] = "ended"
    BY <1>T, <2>1, <2>2 DEF Announcing, Announced, Busy, Streaming
  <2>5. \A n \in Streaming \ {m} : n \in MsgIds /\ dialog[n] # dialog[m]
    BY <1>P, <2>3 DEF Alone, Streaming
  <2>6. Calm'
    BY <1>0, <1>T, <2>1, <2>2 DEF Calm, SessionTypes
  <2>7. Known'
    BY <1>0, <1>P, <1>T, <2>1, <2>2, <2>3 DEF Known, Manager!Sessions, SessionTypes
  <2>8. EndedOnce'
    BY <1>T, <2>2, <2>4, EventAt DEF EndedOnce
  <2>9. Owned'
    BY <1>0, <1>T, <2>1, <2>2, <2>4, <2>5 DEF Owned, SessionTypes
  <2>10. Closed'
    BY <1>0, <1>T, <2>1, <2>2, <2>3, <2>4 DEF Closed, SessionTypes
  <2>11. QED
    BY <2>2, <2>4, <2>6, <2>7, <2>8, <2>9, <2>10, AloneStays
<1>8. ASSUME NEW m \in MsgIds, EmitEvent(m) PROVE PatientInv'
  <2>1. UNCHANGED <<status, ctx, issued, display, placeholder, dialog, stops>>
    BY <1>8 DEF EmitEvent, sessionVars, screenVars, turnVars
  <2>2. CASE pc[m] = "progress"
    <3>1. /\ pc' = [pc EXCEPT ![m] = "streaming"]
          /\ bus' = Append(bus, [kind |-> "progress", msg |-> m]) \/ bus' = bus
      BY <1>8, <2>2 DEF EmitEvent, Emits, After, Goto
    <3>2. [kind |-> "progress", msg |-> m] \in Events
      BY DEF Events
    <3>3. \A n \in MsgIds : Announced(n)' <=> Announced(n)
      BY <1>T, <3>1, <3>2, AppendAnnounces, SMTT(30) DEF Announced
    <3>4. /\ \A n \in MsgIds : Announcing(n)' <=> Announcing(n)
          /\ \A n \in MsgIds : Busy(n)' => Busy(n)
          /\ Streaming' = Streaming
          /\ \A n \in MsgIds : pc[n] = "ended" => pc'[n] = "ended"
      BY <1>T, <2>2, <3>1, <3>3 DEF Announcing, Busy, Streaming
    <3>5. Calm'
      <4>1. \A i \in DOMAIN bus' : bus'[i].kind # "error"
        BY <1>T, <3>1 DEF Calm
      <4>2. QED
        BY <1>T, <2>1, <3>1, <4>1 DEF Calm
    <3>6. EndedOnce'
      BY <1>T, <3>1, <3>2, <3>4, OthersEnded
    <3>7. Known' /\ Owned' /\ Closed'
      BY <1>Q, <1>T, <2>1, <2>2, <3>1, <3>4
    <3>8. QED
      BY <2>1, <3>4, <3>5, <3>6, <3>7, AloneStays
  <2>3. CASE pc[m] = "complete"
    <3>1. /\ pc' = [pc EXCEPT ![m] = "ended"]
          /\ bus' = Append(bus, [kind |-> "complete", msg |-> m]) \/ bus' = bus
      BY <1>8, <2>3 DEF EmitEvent, Emits, After, Goto
    <3>2. [kind |-> "complete", msg |-> m] \in Events
      BY DEF Events
    <3>3. \A n \in MsgIds : Announced(n)' => Announced(n) \/ n = m
      BY <1>T, <3>1, <3>2, AppendAnnounces DEF Announced
    <3>4. /\ \A n \in MsgIds : Announcing(n)' => Announcing(n)
          /\ \A n \in MsgIds : Busy(n)' => Busy(n)
          /\ Streaming' = Streaming
          /\ \A n \in MsgIds : pc[n] = "ended" => pc'[n] = "ended"
      BY <1>T, <2>3, <3>1, <3>3 DEF Announcing, Busy, Streaming
    <3>5. Calm'
      <4>1. \A i \in DOMAIN bus' : bus'[i].kind # "error"
        BY <1>T, <3>1 DEF Calm
      <4>2. QED
        BY <1>T, <2>1, <3>1, <4>1 DEF Calm
    <3>6. EndedOnce'
      <4>1. CASE bus' = Append(bus, [kind |-> "complete", msg |-> m])
        BY <1>T, <2>3, <3>1, <4>1, CompletionAppended
      <4>2. CASE bus' = bus
        BY <1>T, <3>4, <4>2, EventAt DEF EndedOnce
      <4>3. QED
        BY <3>1, <4>1, <4>2
    <3>7. Known' /\ Owned' /\ Closed'
      BY <1>Q, <1>T, <2>1, <2>3, <3>1, <3>4
    <3>8. QED
      BY <2>1, <3>4, <3>5, <3>6, <3>7, AloneStays
  <2>4. QED
    BY <1>8, <2>2, <2>3 DEF EmitEvent, Emits, Calm
<1>9. ASSUME NEW m \in MsgIds, Begin(m) PROVE PatientInv'
  <2>. DEFINE d == dialog[m]
  <2>1. /\ bus # <<>> /\ bus' = Tail(bus)
        /\ Head(bus) = [kind |-> "execute", msg |-> m]
        /\ pc' = [pc EXCEPT ![m] = "streaming"]
        /\ UNCHANGED <<stops, dialog, issued>>
        /\ display' = [display EXCEPT ![d] = "thinking"]
        /\ placeholder' = [placeholder EXCEPT ![d] = m]
    BY <1>9 DEF Begin, Consume, Goto, Show, turnVars
  <2>2. pc[m] = "queued"
    BY <2>1, <1>T DEF OnceInv, Requested
  <2>3. status[d] \in {"none", "active", "streaming", "completed"}
    BY <1>T DEF Calm
  <2>4. /\ status' = [status EXCEPT ![d] = "streaming"]
        /\ ctx' = [ctx EXCEPT ![d] = m]
    BY <1>0, <1>9, <1>T, <2>3, StartOwns DEF Begin
  <2>5. \A n \in MsgIds : Announced(n)' => Announced(n)
    BY <1>T, <2>1, TailAnnounces
  <2>6. /\ \A n \in MsgIds : Announcing(n)' => Announcing(n)
        /\ \A n \in MsgIds : Busy(n)' => Busy(n)
        /\ Streaming' = Streaming \cup {m}
        /\ \A n \in MsgIds : pc[n] = "ended" => pc'[n] = "ended"
    BY <1>T, <2>1, <2>2, <2>5 DEF Announcing, Busy, Streaming
  <2>7. \A n \in MsgIds \ {m} : Busy(n) => dialog[n] # d
    BY <2>2 DEF Alone, Busy
  <2>8. Calm'
    <3>1. \A i \in DOMAIN bus' : bus'[i].kind # "error"
      BY <1>T, <2>1 DEF Calm
    <3>2. QED
      BY <1>0, <1>T, <2>1, <2>4, <3>1 DEF Calm, SessionTypes
  <2>9. Known'
    BY <1>0, <1>T, <2>1, <2>2, <2>4 DEF Known, Manager!Sessions, SessionTypes
  <2>10. EndedOnce'
    BY <1>T, <2>1, <2>6, CompletionTaken
  <2>11. Owned'
    <3>1. \A n \in Streaming \ {m} : n \in MsgIds /\ dialog[n] # d
      BY <1>P, <2>7 DEF Streaming
    <3>2. QED
      BY <1>0, <1>T, <2>1, <2>4, <2>6, <3>1 DEF Owned, SessionTypes, TurnTypes
  <2>12. Closed'
    <3>1. \A n \in MsgIds : Announcing(n)' => Announcing(n) /\ (n = m \/ dialog[n] # d)
      BY <2>6, <2>7 DEF Busy
    <3>2. QED
      BY <1>0, <1>T, <2>1, <2>4, <3>1 DEF Closed, SessionTypes, TurnTypes
  <2>13. QED
    BY <2>1, <2>6, <2>8, <2>9, <2>10, <2>11, <2>12, AloneStays
<1>10. ASSUME NEW m \in MsgIds, HandleProgress(m) PROVE PatientInv'
  <2>1. /\ bus # <<>> /\ bus' = Tail(bus)
        /\ UNCHANGED <<status, ctx, issued, display, placeholder, dialog, stops, pc>>
    BY <1>10 DEF HandleProgress, Consume, sessionVars, screenVars, turnVars
  <2>2. \A n \in MsgIds : Announced(n)' => Announced(n)
    BY <1>T, <2>1, TailAnnounces
  <2>3. /\ \A n \in MsgIds : Announcing(n)' => Announcing(n)
        /\ \A n \in MsgIds : Busy(n)' => Busy(n)
        /\ Streaming' = Streaming
    BY <2>1, <2>2 DEF Announcing, Busy, Streaming
  <2>4. Calm'
    <3>1. \A i \in DOMAIN bus' : bus'[i].kind # "error"
      BY <1>T, <2>1 DEF Calm
    <3>2. QED
      BY <2>1, <3>1 DEF Calm
  <2>5. EndedOnce'
    BY <1>T, <2>1, CompletionTaken
  <2>6. Known' /\ Owned' /\ Closed'
    BY <1>Q, <2>1, <2>3
  <2>7. QED
    BY <2>1, <2>3, <2>4, <2>5, <2>6, AloneStays
<1>11. ASSUME NEW m \in MsgIds, HandleComplete(m) PROVE PatientInv'
  <2>. DEFINE d == dialog[m]
  <2>1. /\ bus # <<>> /\ bus' = Tail(bus)
        /\ Head(bus) = [kind |-> "complete", msg |-> m]
        /\ UNCHANGED <<status, ctx, issued, dialog, stops, pc>>
        /\ display' = [display EXCEPT ![d] = "idle"]
        /\ placeholder' = [placeholder EXCEPT ![d] = NoMsg]
    BY <1>11 DEF HandleComplete, Consume, sessionVars, turnVars, Show
  <2>2. Announced(m) /\ Busy(m) /\ pc[m] = "ended"
    <3>1. 1 \in DOMAIN bus /\ Head(bus) = bus[1]
      BY <1>T, <2>1
    <3>2. Announced(m)
      BY <2>1, <3>1 DEF Announced
    <3>3. QED
      BY <1>T, <3>2, AnnouncedEnded DEF Busy, Announcing
  <2>3. /\ \A n \in MsgIds : Announced(n)' => Announced(n)
        /\ ~Announced(m)'
    BY <1>T, <2>1, TailAnnounces
  <2>4. /\ \A n \in MsgIds : Announcing(n)' => Announcing(n) /\ n # m
        /\ \A n \in MsgIds : Busy(n)' => Busy(n)
        /\ Streaming' = Streaming /\ m \notin Streaming
    BY <2>1, <2>2, <2>3 DEF Announcing, Busy, Streaming
  <2>5. \A n \in MsgIds \ {m} : Busy(n) => dialog[n] # d
    BY <2>2 DEF Alone
  <2>6. Calm'
    <3>1. \A i \in DOMAIN bus' : bus'[i].kind # "error"
      BY <1>T, <2>1 DEF Calm
    <3>2. QED
      BY <2>1, <3>1 DEF Calm
  <2>7. Known'
    BY <2>1 DEF Known, Manager!Sessions
  <2>8. EndedOnce'
    BY <1>T, <2>1, CompletionTaken
  <2>9. Owned'
    <3>1. \A n \in Streaming : n \in MsgIds /\ dialog[n] # d
      BY <1>P, <2>4, <2>5 DEF Streaming
    <3>2. QED
      BY <1>0, <1>T, <2>1, <2>4, <3>1 DEF Owned, TurnTypes
  <2>10. Closed'
    <3>1. \A n \in MsgIds : Announcing(n)' => Announcing(n) /\ dialog[n] # d
      BY <2>4, <2>5 DEF Busy
    <3>2. QED
      BY <1>0, <1>T, <2>1, <3>1 DEF Closed, TurnTypes
  <2>11. QED
    BY <2>1, <2>4, <2>6, <2>7, <2>8, <2>9, <2>10, AloneStays
<1>12. ASSUME NEW m \in MsgIds, HandleError(m) PROVE PatientInv'
  <2>1. bus # <<>> /\ Head(bus) = [kind |-> "error", msg |-> m]
    BY <1>12 DEF HandleError, Consume
  <2>2. 1 \in DOMAIN bus /\ bus[1].kind = "error"
    BY <1>T, <2>1
  <2>3. QED
    BY <2>2 DEF Calm
<1>13. CASE Stop
  BY <1>13 DEF Stop, Patient
<1>14. CASE UNCHANGED vars
  <2>1. UNCHANGED <<bus, pc, dialog, stops, status, ctx, issued, display, placeholder>>
    BY <1>14 DEF vars, sessionVars, screenVars, turnVars
  <2>2. Calm'
    BY <2>1 DEF Calm
  <2>3. QED
    BY <1>S, <1>Q, <2>1, <2>2
<1>15. QED
  BY <1>1, <1>2, <1>3, <1>4, <1>5, <1>6, <1>7, <1>8, <1>9, <1>10, <1>11, <1>12, <1>13, <1>14
     DEF Next, Turn, Handle

LEMMA OneAppended ==
    ASSUME Types, NEW h, h \in Seq(Answers), NEW m \in MsgIds, ~Has(h, m)
    PROVE  Saved(m, Append(h, m)) = 1
<1>. DEFINE at == {i \in DOMAIN Append(h, m) : Append(h, m)[i] = m}
<1>1. at = {Len(h) + 1}
  BY DEF Has
<1>2. Cardinality(at) = 1
  BY <1>1, FS_Singleton
<1>3. QED
  BY <1>2 DEF Saved

LEMMA SavedStep ==
    Patient /\ Types /\ OnceInv /\ PatientInv /\ [Next]_vars =>
        [\A m \in MsgIds : pc[m] = "streaming" /\ pc'[m] = "complete"
            => Saved(m, history'[dialog[m]]) = 1]_vars
<1>. SUFFICES ASSUME Patient, Types, OnceInv, PatientInv, Next, NEW m \in MsgIds,
                     pc[m] = "streaming", pc'[m] = "complete"
              PROVE  Saved(m, history'[dialog[m]]) = 1
  OBVIOUS
<1>1. pc \in [MsgIds -> Phases] /\ dialog[m] \in Dialogs /\ history[dialog[m]] \in Seq(Answers)
  BY DEF Types, TurnTypes, SessionTypes
<1>2. EndStream(m)
  BY <1>1 DEF Next, Turn, Handle, CreateDialog, DeleteDialog, Post, EmitRequest, SeeStop,
              Chunk, Reason, EndStream, FailStream, EmitEvent, Begin, HandleProgress,
              HandleComplete, HandleError, Stop, Goto, Emits, After
<1>3. history' = [history EXCEPT ![dialog[m]] = Append(@, m)]
  BY <1>2, PatientSave DEF PatientInv
<1>4. ~Has(history[dialog[m]], m)
  BY <1>1 DEF OnceInv, Unsaved, Saving
<1>5. history'[dialog[m]] = Append(history[dialog[m]], m)
  BY <1>1, <1>3 DEF Types, SessionTypes
<1>6. QED
  BY <1>1, <1>4, <1>5, OneAppended

\* The strengthened invariant, under the hypothesis that users and model are patient.
LEMMA PatientCorrect == Patient => (Spec => [](Types /\ OnceInv /\ PatientInv))
<1>. SUFFICES ASSUME Patient PROVE Spec => [](Types /\ OnceInv /\ PatientInv)
  OBVIOUS
<1>1. Init => Types /\ OnceInv /\ PatientInv
  BY InitTypes, InitOnce, InitPatient
<1>2. Types /\ OnceInv /\ PatientInv /\ [Next]_vars => (Types /\ OnceInv /\ PatientInv)'
  BY NextTypes, NextOnce, NextPatient
<1>3. QED
  BY <1>1, <1>2, PTL DEF Spec

\* When users wait for their answer and the model neither fails nor answers
\* without text, the turn that produces text owns its session, however dialogs
\* are deleted and created and however many turns run at once.
THEOREM OwnershipCorrect == Patient => (Spec => []TurnOwnsSession)
<1>1. PatientInv => TurnOwnsSession
  BY DEF PatientInv, Owned, TurnOwnsSession
<1>2. QED
  BY <1>1, PatientCorrect, PTL

\* Under the same hypothesis a dialog shows "thinking" and the message of the
\* turn that is producing text for it.
THEOREM FollowsCorrect == Patient => (Spec => []ScreenFollowsTurn)
<1>1. PatientInv => ScreenFollowsTurn
  BY DEF PatientInv, Owned, ScreenFollowsTurn
<1>2. QED
  BY <1>1, PatientCorrect, PTL

\* Under the same hypothesis no completion is announced before the answer is in
\* the session, exactly once.
THEOREM SavedFirst == Patient => (Spec => SavedBeforeAnnounced)
<1>. SUFFICES ASSUME Patient PROVE Spec => SavedBeforeAnnounced
  OBVIOUS
<1>1. Types /\ OnceInv /\ PatientInv /\ [Next]_vars =>
        [\A m \in MsgIds : pc[m] = "streaming" /\ pc'[m] = "complete"
            => Saved(m, history'[dialog[m]]) = 1]_vars
  BY SavedStep
<1>2. QED
  BY <1>1, PatientCorrect, PTL DEF Spec, SavedBeforeAnnounced
-----------------------------------------------------------------------------
(***************************************************************************)
(* A session that is STREAMING is held by a turn that produces text.       *)
(***************************************************************************)
Held ==
    \A d \in Dialogs : status[d] = "streaming" => \E m \in Streaming : dialog[m] = d

LEMMA NextHeld ==
    Patient /\ Types /\ OnceInv /\ PatientInv /\ Held /\ [Next]_vars => Held'
<1>. SUFFICES ASSUME Patient, Types, OnceInv, PatientInv, Held, [Next]_vars PROVE Held'
  OBVIOUS
<1>0. SessionTypes /\ TurnTypes
  BY DEF Types
<1>T. /\ bus \in Seq(Events) /\ pc \in [MsgIds -> Phases]
      /\ \A m \in MsgIds : dialog[m] \in Dialogs
  BY <1>0 DEF TurnTypes
<1>1. ASSUME \A d \in Dialogs : status'[d] = "streaming" => status[d] = "streaming",
             Streaming \subseteq Streaming', \A m \in Streaming : dialog'[m] = dialog[m]
      PROVE  Held'
  BY <1>1 DEF Held
<1>2. ASSUME NEW d \in Dialogs, CreateDialog(d) \/ DeleteDialog(d) PROVE Held'
  <2>1. UNCHANGED <<pc, dialog>>
    BY <1>2 DEF CreateDialog, DeleteDialog, turnVars
  <2>2. \A e \in Dialogs : status'[e] = "streaming" => status[e] = "streaming"
    <3>1. CASE CreateDialog(d)
      <4>1. d \notin Manager!Sessions /\ Manager!CreateSession(d)
        BY <3>1 DEF CreateDialog, PatientInv, Known
      <4>2. QED
        BY <1>0, <4>1, CreateKeeps DEF Kept, Dropped
    <3>2. CASE DeleteDialog(d)
      BY <1>0, <3>2, CloseKeeps DEF DeleteDialog, sessionVars, Kept, Dropped
    <3>3. QED
      BY <1>2, <3>1, <3>2
  <2>3. QED
    BY <1>1, <2>1, <2>2 DEF Streaming
<1>3. ASSUME NEW m \in MsgIds, NEW d \in Dialogs, Post(m, d) PROVE Held'
  <2>1. UNCHANGED status
    BY <1>0, <1>3, AddTypes DEF Post, Answers
  <2>2. /\ pc[m] = "new" /\ pc' = [pc EXCEPT ![m] = "posted"]
        /\ dialog' = [dialog EXCEPT ![m] = d]
    BY <1>3 DEF Post, Goto
  <2>3. m \notin Streaming
    BY <2>2 DEF Streaming
  <2>4. Streaming \subseteq Streaming' /\ \A n \in Streaming : dialog'[n] = dialog[n]
    BY <1>0, <2>2, <2>3 DEF Streaming, TurnTypes
  <2>5. QED
    BY <1>1, <2>1, <2>4
<1>4. ASSUME NEW m \in MsgIds, EndStream(m) PROVE Held'
  <2>1. /\ status' = [status EXCEPT ![dialog[m]] = "completed"]
        /\ pc' = [pc EXCEPT ![m] = "complete"]
    BY <1>4, PatientSave DEF PatientInv
  <2>2. dialog' = dialog /\ Streaming' = Streaming \ {m}
    BY <1>4, <1>T, <2>1 DEF EndStream, turnVars, Streaming
  <2>3. QED
    BY <1>0, <2>1, <2>2 DEF Held, SessionTypes
<1>5. ASSUME NEW m \in MsgIds, Begin(m) PROVE Held'
  <2>1. status[dialog[m]] \in {"none", "active", "streaming", "completed"}
    BY <1>T DEF PatientInv, Calm
  <2>2. status' = [status EXCEPT ![dialog[m]] = "streaming"]
    BY <1>0, <1>5, <1>T, <2>1, StartOwns DEF Begin
  <2>3. dialog' = dialog /\ Streaming' = Streaming \cup {m}
    BY <1>5, <1>T DEF Begin, Goto, turnVars, Streaming
  <2>4. QED
    BY <1>0, <2>2, <2>3 DEF Held, SessionTypes
<1>6. ASSUME NEW m \in MsgIds, EmitRequest(m) \/ Chunk(m) \/ EmitEvent(m) PROVE Held'
  <2>1. UNCHANGED <<status, dialog>>
    BY <1>6 DEF EmitRequest, Chunk, EmitEvent, sessionVars, turnVars
  <2>2. Streaming \subseteq Streaming'
    BY <1>6, <1>T DEF EmitRequest, Chunk, EmitEvent, Goto, Emits, After, Streaming
  <2>3. QED
    BY <1>1, <2>1, <2>2
<1>7. ASSUME NEW m \in MsgIds, HandleProgress(m) \/ HandleComplete(m) \/ HandleError(m)
      PROVE  Held'
  BY <1>1, <1>7 DEF HandleProgress, HandleComplete, HandleError, sessionVars, turnVars,
                    Streaming
<1>8. ASSUME NEW m \in MsgIds, SeeStop(m) \/ Reason(m) \/ FailStream(m) PROVE Held'
  BY <1>8 DEF SeeStop, Reason, FailStream, PatientInv, Calm, Patient
<1>9. CASE Stop
  BY <1>9 DEF Stop, Patient
<1>10. CASE UNCHANGED vars
  BY <1>1, <1>10 DEF vars, sessionVars, turnVars, Streaming
<1>11. QED
  BY <1>2, <1>3, <1>4, <1>5, <1>6, <1>7, <1>8, <1>9, <1>10 DEF Next, Turn, Handle

\* Under the same hypothesis no session is left STREAMING once its turns are
\* over: what is busy can always be freed by the turn that holds it.
THEOREM StreamingEndsCorrect == Patient => (Spec => []StreamingEnds)
<1>. SUFFICES ASSUME Patient PROVE Spec => []StreamingEnds
  OBVIOUS
<1>1. Init => Held
  BY DEF Init, Manager!Init, Held
<1>2. Patient /\ Types /\ OnceInv /\ PatientInv /\ Held /\ [Next]_vars => Held'
  BY NextHeld
<1>3. Held => StreamingEnds
  BY DEF Held, StreamingEnds, Quiet, Active, Over, Streaming
<1>4. QED
  BY <1>1, <1>2, <1>3, PatientCorrect, PTL DEF Spec
-----------------------------------------------------------------------------
(***************************************************************************)
(* A dialog that shows "thinking" has a turn that will still tell it the   *)
(* end, as long as the bus does not lose the completion.  It does not when *)
(* it has room for every event the turns can emit: each event takes a slot *)
(* of its own, numbered by how many events its turn emitted before.        *)
(***************************************************************************)
Thinker(m) == pc[m] \in {"streaming", "progress"} \/ Announcing(m)
Thought == \A d \in Dialogs : display[d] = "thinking" =>
              \E m \in MsgIds : dialog[m] = d /\ Thinker(m)

\* An event that a turn emits now would find room.
Room == \A m \in MsgIds : pc[m] = "complete" => Len(bus) < Capacity

\* A bus with room for a request, the text and the completion of every message.
Ample ==
    /\ IsFiniteSet(MsgIds) /\ MaxText \in Nat
    /\ Capacity >= Cardinality(MsgIds) * (MaxText + 2)

Used(m) ==
    IF pc[m] \in {"new", "posted", "lost"} THEN 0
    ELSE IF pc[m] = "queued" THEN 1
    ELSE IF pc[m] = "progress" THEN text[m]
    ELSE IF pc[m] = "ended" THEN text[m] + 2 ELSE text[m] + 1

Slots == MsgIds \X (0..(MaxText + 1))
Slotted(f) ==
    /\ f \in [DOMAIN bus -> Slots]
    /\ \A i, j \in DOMAIN bus : f[i] = f[j] => i = j
    /\ \A i \in DOMAIN bus, m \in MsgIds : bus[i].msg = m =>
          f[i][1] = m /\ f[i][2] < Used(m)
Spaced ==
    /\ \A m \in MsgIds : text[m] <= MaxText
    /\ \E f : Slotted(f)

LEMMA SlotTaken ==
    ASSUME bus \in Seq(Events), MaxText \in Nat, NEW f, Slotted(f),
           NEW e \in Events, bus' = Append(bus, e),
           Used(e.msg) \in 0..(MaxText + 1), Used(e.msg)' = Used(e.msg) + 1,
           \A n \in MsgIds : Used(n) \in Nat /\ Used(n)' \in Nat /\ Used(n)' >= Used(n)
    PROVE  \E g : Slotted(g)'
<1>. DEFINE last == Len(bus) + 1
            slot == <<e.msg, Used(e.msg)>>
            g == [i \in 1..last |-> IF i = last THEN slot ELSE f[i]]
<1>1. /\ Len(bus) \in Nat /\ DOMAIN bus = 1..Len(bus) /\ DOMAIN bus' = 1..last
      /\ bus'[last] = e /\ \A i \in 1..Len(bus) : bus'[i] = bus[i]
  OBVIOUS
<1>2. \A i \in 1..Len(bus) : bus[i].msg \in MsgIds
  BY <1>1, EventAt
<1>3. e.msg \in MsgIds /\ slot \in Slots /\ slot[1] = e.msg /\ slot[2] = Used(e.msg)
  BY DEF Events, Slots
<1>4. ASSUME NEW i \in 1..Len(bus) PROVE f[i] # slot
  <2>1. f[i][1] = bus[i].msg /\ f[i][2] < Used(bus[i].msg) /\ f[i] \in Slots
    BY <1>1, <1>2 DEF Slotted
  <2>2. SUFFICES ASSUME f[i] = slot PROVE FALSE
    OBVIOUS
  <2>3. bus[i].msg = e.msg /\ Used(e.msg) < Used(e.msg)
    BY <1>3, <2>1, <2>2
  <2>4. QED
    BY <1>3, <2>3
<1>. HIDE DEF slot
<1>5. g \in [1..last -> Slots]
  BY <1>1, <1>3 DEF Slotted
<1>6. \A i, j \in 1..last : g[i] = g[j] => i = j
  BY <1>1, <1>4 DEF Slotted
<1>7. ASSUME NEW i \in 1..last, NEW n \in MsgIds, bus'[i].msg = n
      PROVE  g[i][1] = n /\ g[i][2] < Used(n)'
  <2>1. CASE i = last
    <3>1. g[i] = slot /\ n = e.msg
      BY <1>1, <1>7, <2>1
    <3>2. slot[1] = n /\ slot[2] = Used(n) /\ Used(n)' = Used(n) + 1 /\ Used(n) \in Nat
      BY <1>3, <3>1
    <3>3. QED
      BY <3>1, <3>2
  <2>2. CASE i # last
    <3>1. i \in 1..Len(bus)
      BY <1>1, <2>2
    <3>2. g[i] = f[i] /\ bus[i].msg = n
      BY <1>1, <1>7, <2>2, <3>1
    <3>3. f[i] \in Slots /\ f[i][1] = n /\ f[i][2] < Used(n)
      BY <1>1, <3>1, <3>2 DEF Slotted
    <3>4. f[i][2] \in Int
      BY <3>3 DEF Slots
    <3>5. Used(n)' >= Used(n) /\ Used(n) \in Nat /\ Used(n)' \in Nat
      OBVIOUS
    <3>6. QED
      BY <3>2, <3>3, <3>4, <3>5
  <2>3. QED
    BY <2>1, <2>2
<1>. HIDE DEF g
<1>8. PICK h : h = g
  OBVIOUS
<1>9. Slotted(h)'
  <2>1. h \in [DOMAIN bus' -> Slots]
    BY <1>1, <1>5, <1>8
  <2>2. \A i, j \in DOMAIN bus' : h[i] = h[j] => i = j
    BY <1>1, <1>6, <1>8
  <2>3. \A i \in DOMAIN bus', m \in MsgIds : bus'[i].msg = m =>
            h[i][1] = m /\ h[i][2] < Used(m)'
    BY <1>1, <1>7, <1>8
  <2>4. QED
    BY <2>1, <2>2, <2>3 DEF Slotted, Slots
<1>10. QED
  BY <1>9

LEMMA SlotsKept ==
    ASSUME bus \in Seq(Events), NEW f, Slotted(f),
           bus' = bus \/ (bus # <<>> /\ bus' = Tail(bus)),
           \A n \in MsgIds : Used(n) \in Nat /\ Used(n)' \in Nat /\ Used(n)' >= Used(n)
    PROVE  \E g : Slotted(g)'
<1>1. PICK k \in {0, 1} : /\ \A i \in DOMAIN bus' : i \in Nat /\ i + k \in DOMAIN bus
                          /\ \A i \in DOMAIN bus' : bus'[i] = bus[i + k]
  <2>1. CASE bus' = bus
    BY <2>1
  <2>2. CASE bus # <<>> /\ bus' = Tail(bus)
    BY <2>2
  <2>3. QED
    BY <2>1, <2>2
<1>. DEFINE g == [i \in DOMAIN bus' |-> f[i + k]]
<1>2. g \in [DOMAIN bus' -> Slots]
  BY <1>1 DEF Slotted
<1>3. \A i, j \in DOMAIN bus' : g[i] = g[j] => i = j
  <2>1. ASSUME NEW i \in DOMAIN bus', NEW j \in DOMAIN bus', g[i] = g[j]
        PROVE  i = j
    <3>1. i + k = j + k
      BY <1>1, <2>1 DEF Slotted
    <3>2. QED
      BY <1>1, <3>1
  <2>2. QED
    BY <2>1
<1>4. ASSUME NEW i \in DOMAIN bus', NEW n \in MsgIds, bus'[i].msg = n
      PROVE  g[i][1] = n /\ g[i][2] < Used(n)'
  <2>1. i + k \in DOMAIN bus /\ g[i] = f[i + k] /\ bus[i + k].msg = n
    BY <1>1, <1>4
  <2>2. f[i + k] \in Slots /\ f[i + k][1] = n /\ f[i + k][2] < Used(n)
    BY <2>1 DEF Slotted
  <2>3. f[i + k][2] \in Int
    BY <2>2 DEF Slots
  <2>4. Used(n)' >= Used(n) /\ Used(n) \in Nat /\ Used(n)' \in Nat
    OBVIOUS
  <2>5. QED
    BY <2>1, <2>2, <2>3, <2>4
<1>. HIDE DEF g
<1>5. PICK h : h = g
  OBVIOUS
<1>6. Slotted(h)'
  BY <1>2, <1>3, <1>4, <1>5 DEF Slotted, Slots
<1>7. QED
  BY <1>6

\* The slot of the completion is free, so the bus is not full.
LEMMA SpacedRoom == Ample /\ Types /\ Spaced => Room
<1>. SUFFICES ASSUME Ample, Types, Spaced, NEW m \in MsgIds, pc[m] = "complete"
              PROVE  Len(bus) < Capacity
  BY DEF Room
<1>1. PICK f : Slotted(f)
  BY DEF Spaced
<1>2. bus \in Seq(Events) /\ Len(bus) \in Nat /\ DOMAIN bus = 1..Len(bus)
  BY DEF Types, TurnTypes
<1>. DEFINE slot == <<m, text[m] + 1>>
            free == Slots \ {slot}
<1>3. text[m] \in 0..MaxText /\ Used(m) = text[m] + 1 /\ MaxText \in Nat
  BY DEF Ample, Spaced, Types, TurnTypes, Used
<1>4. slot \in Slots
  BY <1>3 DEF Slots
<1>5. ASSUME NEW i \in 1..Len(bus) PROVE f[i] \in free
  <2>1. f[i] \in Slots /\ f[i][1] = bus[i].msg /\ f[i][2] < Used(bus[i].msg)
    BY <1>1, <1>2, EventAt DEF Slotted
  <2>2. SUFFICES ASSUME f[i] = slot PROVE FALSE
    BY <2>1
  <2>3. bus[i].msg = m /\ text[m] + 1 < Used(m)
    BY <2>1, <2>2
  <2>4. QED
    BY <1>3, <2>3
<1>6. f \in Injection(1..Len(bus), free)
  BY <1>1, <1>2, <1>5 DEF Slotted, Injection, IsInjective
<1>7. IsFiniteSet(0..(MaxText + 1)) /\ Cardinality(0..(MaxText + 1)) = MaxText + 2
  BY <1>3, FS_Interval
<1>8. IsFiniteSet(MsgIds) /\ Cardinality(MsgIds) \in Nat
  BY FS_CardinalityType DEF Ample
<1>9. IsFiniteSet(Slots) /\ Cardinality(Slots) = Cardinality(MsgIds) * (MaxText + 2)
  BY <1>7, <1>8, FS_Product DEF Slots
<1>10. IsFiniteSet(free) /\ Cardinality(free) = Cardinality(Slots) - 1
  BY <1>4, <1>9, FS_RemoveElement
<1>11. Cardinality(1..Len(bus)) <= Cardinality(free)
  BY <1>6, <1>10, FS_Injection
<1>12. Cardinality(1..Len(bus)) = Len(bus)
  BY <1>2, FS_Interval
<1>13. Cardinality(Slots) \in Nat /\ Capacity >= Cardinality(Slots) /\ Capacity \in Nat
  BY <1>9, FS_CardinalityType, BusAssumption DEF Ample
<1>14. QED
  BY <1>2, <1>10, <1>11, <1>12, <1>13

\* An event that is not the completion of m leaves it on the bus.
LEMMA TailKeeps ==
    ASSUME bus \in Seq(Events), bus # <<>>, bus' = Tail(bus), NEW m \in MsgIds,
           Announced(m), Head(bus) # [kind |-> "complete", msg |-> m]
    PROVE  Announced(m)'
<1>1. PICK i \in DOMAIN bus : bus[i].kind = "complete" /\ bus[i].msg = m
  BY DEF Announced
<1>2. i # 1
  BY <1>1, EventAt
<1>3. i - 1 \in DOMAIN bus' /\ bus'[i - 1] = bus[i]
  BY <1>2
<1>4. QED
  BY <1>1, <1>3 DEF Announced

LEMMA NotItsCompletion ==
    ASSUME NEW m, NEW n, NEW k, k # "complete" \/ m # n
    PROVE  [kind |-> k, msg |-> m] # [kind |-> "complete", msg |-> n]
<1>1. /\ [kind |-> k, msg |-> m].kind = k /\ [kind |-> k, msg |-> m].msg = m
      /\ [kind |-> "complete", msg |-> n].kind = "complete"
      /\ [kind |-> "complete", msg |-> n].msg = n
  OBVIOUS
<1>2. QED
  BY <1>1

LEMMA NextThought ==
    Patient /\ Types /\ OnceInv /\ PatientInv /\ Room /\ Thought /\ [Next]_vars => Thought'
<1>. SUFFICES ASSUME Patient, Types, OnceInv, PatientInv, Room, Thought, [Next]_vars
              PROVE  Thought'
  OBVIOUS
<1>T. /\ bus \in Seq(Events) /\ pc \in [MsgIds -> Phases]
      /\ \A m \in MsgIds : dialog[m] \in Dialogs
      /\ dialog \in [MsgIds -> Dialogs]
      /\ display \in [Dialogs -> {"idle", "thinking", "error"}]
  BY DEF Types, TurnTypes
<1>1. ASSUME \A d \in Dialogs : display'[d] = "thinking" => display[d] = "thinking",
             \A m \in MsgIds : Thinker(m) => Thinker(m)' /\ dialog'[m] = dialog[m]
      PROVE  Thought'
  BY <1>1 DEF Thought
\* A turn that is not over, or announced, was posted before.
<1>2. \A m \in MsgIds : Thinker(m) => pc[m] \in {"streaming", "progress", "complete", "ended"}
  BY <1>T, AnnouncedEnded DEF Thinker, Announcing, PatientInv
<1>3. ASSUME NEW d \in Dialogs, CreateDialog(d) \/ DeleteDialog(d) PROVE Thought'
  <2>1. UNCHANGED <<pc, dialog, bus>>
    BY <1>3 DEF CreateDialog, DeleteDialog, turnVars
  <2>2. \A e \in Dialogs : display'[e] = "thinking" => display[e] = "thinking"
    BY <1>3, <1>T DEF CreateDialog, DeleteDialog, Show, screenVars
  <2>3. QED
    BY <1>1, <2>1, <2>2 DEF Thinker, Announcing, Announced
<1>4. ASSUME NEW m \in MsgIds, NEW d \in Dialogs, Post(m, d) PROVE Thought'
  <2>1. /\ pc[m] = "new" /\ pc' = [pc EXCEPT ![m] = "posted"]
        /\ dialog' = [dialog EXCEPT ![m] = d] /\ UNCHANGED <<bus, display>>
    BY <1>4 DEF Post, Goto, screenVars
  <2>2. \A n \in MsgIds : Thinker(n) => n # m
    BY <1>2, <2>1
  <2>3. \A n \in MsgIds \ {m} : pc'[n] = pc[n] /\ dialog'[n] = dialog[n]
    BY <1>T, <2>1
  <2>4. QED
    BY <1>1, <2>1, <2>2, <2>3 DEF Thinker, Announcing, Announced
<1>5. ASSUME NEW m \in MsgIds, EmitRequest(m) PROVE Thought'
  <2>1. /\ pc[m] = "posted" /\ UNCHANGED <<dialog, display>>
        /\ \A n \in MsgIds \ {m} : pc'[n] = pc[n]
    BY <1>5, <1>T DEF EmitRequest, Goto, turnVars, screenVars
  <2>2. \A n \in MsgIds : Announced(n) => Announced(n)'
    <3>1. CASE bus' = bus
      BY <3>1 DEF Announced
    <3>2. CASE bus' = Append(bus, [kind |-> "execute", msg |-> m])
      BY <1>T, <3>2, AppendAnnounces DEF Events
    <3>3. QED
      BY <1>5, <3>1, <3>2 DEF EmitRequest
  <2>3. \A n \in MsgIds : Thinker(n) => n # m
    BY <1>2, <2>1
  <2>4. QED
    BY <1>1, <2>1, <2>2, <2>3 DEF Thinker, Announcing
<1>6. ASSUME NEW m \in MsgIds, Chunk(m) PROVE Thought'
  <2>1. /\ pc[m] = "streaming" /\ pc' = [pc EXCEPT ![m] = "progress"]
        /\ UNCHANGED <<dialog, display, bus>>
    BY <1>6 DEF Chunk, Goto, screenVars
  <2>2. QED
    BY <1>1, <1>T, <2>1 DEF Thinker, Announcing, Announced
<1>7. ASSUME NEW m \in MsgIds, EndStream(m) PROVE Thought'
  <2>1. pc[m] = "streaming" /\ pc' = [pc EXCEPT ![m] = "complete"]
    BY <1>7, PatientSave DEF PatientInv
  <2>2. UNCHANGED <<dialog, display, bus>>
    BY <1>7 DEF EndStream, turnVars, screenVars
  <2>3. QED
    BY <1>1, <1>T, <2>1, <2>2 DEF Thinker, Announcing, Announced
<1>8. ASSUME NEW m \in MsgIds, EmitEvent(m) PROVE Thought'
  <2>1. /\ pc[m] \in DOMAIN Emits /\ pc' = [pc EXCEPT ![m] = After[pc[m]]]
        /\ bus' = IF Len(bus) < Capacity
                  THEN Append(bus, [kind |-> Emits[pc[m]], msg |-> m]) ELSE bus
        /\ UNCHANGED <<dialog, display>>
    BY <1>8 DEF EmitEvent, Goto, turnVars, screenVars
  <2>2. pc[m] = "progress" \/ pc[m] = "complete"
    BY <2>1 DEF Emits, PatientInv, Calm
  <2>3. [kind |-> Emits[pc[m]], msg |-> m] \in Events
    BY <2>2 DEF Emits, Events
  <2>4. \A n \in MsgIds : Announced(n) => Announced(n)'
    <3>1. CASE bus' = bus
      BY <3>1 DEF Announced
    <3>2. CASE bus' = Append(bus, [kind |-> Emits[pc[m]], msg |-> m])
      BY <1>T, <2>3, <3>2, AppendAnnounces
    <3>3. QED
      BY <2>1, <3>1, <3>2
  <2>5. \A n \in MsgIds \ {m} : pc'[n] = pc[n]
    BY <1>T, <2>1
  <2>6. Thinker(m)'
    <3>1. CASE pc[m] = "progress"
      BY <1>T, <2>1, <3>1 DEF Thinker, Emits, After
    <3>2. CASE pc[m] = "complete"
      <4>1. bus' = Append(bus, [kind |-> Emits[pc[m]], msg |-> m])
        BY <2>1, <3>2 DEF Room
      <4>2. [kind |-> Emits[pc[m]], msg |-> m].kind = "complete"
        BY <3>2 DEF Emits
      <4>3. Announced(m)'
        BY <1>T, <2>3, <4>1, <4>2, AppendAnnounces
      <4>4. QED
        BY <4>3 DEF Thinker, Announcing
    <3>3. QED
      BY <2>2, <3>1, <3>2
  <2>7. QED
    BY <1>1, <2>1, <2>4, <2>5, <2>6 DEF Thinker, Announcing
<1>9. ASSUME NEW m \in MsgIds, Begin(m) PROVE Thought'
  <2>1. /\ bus # <<>> /\ Head(bus) = [kind |-> "execute", msg |-> m] /\ bus' = Tail(bus)
        /\ pc' = [pc EXCEPT ![m] = "streaming"]
        /\ display' = [display EXCEPT ![dialog[m]] = "thinking"]
        /\ dialog' = dialog
    BY <1>9 DEF Begin, Consume, Show, Goto, turnVars
  <2>2. Thinker(m)'
    BY <1>T, <2>1 DEF Thinker
  <2>3. ASSUME NEW n \in MsgIds \ {m}, Thinker(n) PROVE Thinker(n)'
    <3>1. Announced(n) => Announced(n)'
      <4>1. "execute" # "complete"
        OBVIOUS
      <4>2. Head(bus) # [kind |-> "complete", msg |-> n]
        BY <2>1, <4>1, NotItsCompletion
      <4>3. QED
        BY <1>T, <2>1, <4>2, TailKeeps
    <3>2. QED
      BY <1>T, <2>1, <2>3, <3>1 DEF Thinker, Announcing
  <2>4. \A d \in Dialogs \ {dialog[m]} : display'[d] = display[d]
    BY <1>T, <2>1
  <2>5. QED
    BY <2>1, <2>2, <2>3, <2>4 DEF Thought
<1>10. ASSUME NEW m \in MsgIds, HandleProgress(m) PROVE Thought'
  <2>1. /\ bus # <<>> /\ Head(bus) = [kind |-> "progress", msg |-> m] /\ bus' = Tail(bus)
        /\ UNCHANGED <<pc, dialog, display>>
    BY <1>10 DEF HandleProgress, Consume, turnVars, screenVars
  <2>2. ASSUME NEW n \in MsgIds, Announced(n) PROVE Announced(n)'
    <3>1. "progress" # "complete"
      OBVIOUS
    <3>2. Head(bus) # [kind |-> "complete", msg |-> n]
      BY <2>1, <3>1, NotItsCompletion
    <3>3. QED
      BY <1>T, <2>1, <2>2, <3>2, TailKeeps
  <2>3. QED
    BY <1>1, <2>1, <2>2 DEF Thinker, Announcing
<1>11. ASSUME NEW m \in MsgIds, HandleComplete(m) \/ HandleError(m) PROVE Thought'
  <2>1. HandleComplete(m)
    <3>1. SUFFICES ASSUME HandleError(m) PROVE FALSE
      BY <1>11
    <3>2. bus # <<>> /\ Head(bus).kind = "error"
      BY <3>1 DEF HandleError, Consume
    <3>3. 1 \in DOMAIN bus /\ Head(bus) = bus[1]
      BY <1>T, <3>2
    <3>4. QED
      BY <3>2, <3>3 DEF PatientInv, Calm
  <2>2. /\ bus # <<>> /\ Head(bus) = [kind |-> "complete", msg |-> m] /\ bus' = Tail(bus)
        /\ UNCHANGED <<pc, dialog>>
        /\ display' = [display EXCEPT ![dialog[m]] = "idle"]
    BY <2>1 DEF HandleComplete, Consume, turnVars, Show
  <2>3. ASSUME NEW n \in MsgIds \ {m}, Thinker(n) PROVE Thinker(n)'
    <3>1. Announced(n) => Announced(n)'
      <4>1. Head(bus) # [kind |-> "complete", msg |-> n]
        BY <2>2, <2>3, NotItsCompletion
      <4>2. QED
        BY <1>T, <2>2, <4>1, TailKeeps
    <3>2. QED
      BY <2>2, <2>3, <3>1 DEF Thinker, Announcing
  <2>4. \A d \in Dialogs : display'[d] = "thinking" => display[d] = "thinking" /\ d # dialog[m]
    BY <1>T, <2>2
  <2>5. QED
    BY <2>2, <2>3, <2>4 DEF Thought
<1>12. ASSUME NEW m \in MsgIds, SeeStop(m) \/ Reason(m) \/ FailStream(m) PROVE Thought'
  BY <1>12 DEF SeeStop, Reason, FailStream, PatientInv, Calm, Patient
<1>13. CASE Stop
  BY <1>13 DEF Stop, Patient
<1>14. CASE UNCHANGED vars
  BY <1>1, <1>14 DEF vars, screenVars, turnVars, Thinker, Announcing, Announced
<1>15. QED
  BY <1>3, <1>4, <1>5, <1>6, <1>7, <1>8, <1>9, <1>10, <1>11, <1>12, <1>13, <1>14
  DEF Next, Turn, Handle

LEMMA NextSpaced ==
    Patient /\ Ample /\ Types /\ OnceInv /\ PatientInv /\ Spaced /\ [Next]_vars => Spaced'
<1>. SUFFICES ASSUME Patient, Ample, Types, OnceInv, PatientInv, Spaced, [Next]_vars
              PROVE  Spaced'
  OBVIOUS
<1>T. /\ bus \in Seq(Events) /\ pc \in [MsgIds -> Phases]
      /\ text \in [MsgIds -> Nat] /\ MaxText \in Nat
      /\ \A m \in MsgIds : text[m] \in 0..MaxText
  BY DEF Types, TurnTypes, Ample, Spaced
<1>F. PICK f : Slotted(f)
  BY DEF Spaced
<1>U. \A m \in MsgIds : Used(m) \in Nat
  BY <1>T DEF Used
<1>1. ASSUME bus' = bus \/ (bus # <<>> /\ bus' = Tail(bus)),
             \A m \in MsgIds : text'[m] \in 0..MaxText,
             \A m \in MsgIds : Used(m)' \in Nat /\ Used(m)' >= Used(m)
      PROVE  Spaced'
  <2>1. \E g : Slotted(g)'
    BY <1>1, <1>F, <1>T, <1>U, SlotsKept
  <2>2. QED
    BY <1>1, <1>T, <2>1 DEF Spaced
<1>2. ASSUME NEW m \in MsgIds, NEW k \in {"execute", "progress", "complete", "error"},
             bus' = Append(bus, [kind |-> k, msg |-> m]), text' = text,
             Used(m) <= MaxText + 1, Used(m)' = Used(m) + 1,
             \A n \in MsgIds \ {m} : pc'[n] = pc[n]
      PROVE  Spaced'
  <2>1. \A n \in MsgIds : Used(n)' \in Nat /\ Used(n)' >= Used(n)
    <3>1. \A n \in MsgIds \ {m} : Used(n)' = Used(n)
      BY <1>2 DEF Used
    <3>2. QED
      BY <1>2, <1>U, <3>1
  <2>. DEFINE e == [kind |-> k, msg |-> m]
  <2>2. e \in Events /\ e.msg = m
    BY DEF Events
  <2>. HIDE DEF e
  <2>3. Used(e.msg)' = Used(e.msg) + 1 /\ Used(e.msg) \in 0..(MaxText + 1)
    BY <1>2, <1>U, <1>T, <2>2 DEF Used
  <2>4. bus' = Append(bus, e)
    BY <1>2 DEF e
  <2>5. \E g : Slotted(g)'
    BY <1>F, <1>T, <1>U, <2>1, <2>2, <2>3, <2>4, SlotTaken
  <2>6. QED
    BY <1>2, <1>T, <2>5 DEF Spaced
<1>3. ASSUME UNCHANGED <<bus, text>>, \A m \in MsgIds : Used(m)' \in Nat /\ Used(m)' >= Used(m)
      PROVE  Spaced'
  BY <1>1, <1>3, <1>T
<1>4. ASSUME UNCHANGED <<pc, text>>, bus' = bus \/ (bus # <<>> /\ bus' = Tail(bus))
      PROVE  Spaced'
  <2>1. \A m \in MsgIds : Used(m)' = Used(m)
    BY <1>4 DEF Used
  <2>2. QED
    BY <1>1, <1>4, <1>T, <1>U, <2>1
<1>5. ASSUME NEW d \in Dialogs, CreateDialog(d) \/ DeleteDialog(d) PROVE Spaced'
  BY <1>4, <1>5 DEF CreateDialog, DeleteDialog, turnVars
<1>6. ASSUME NEW m \in MsgIds, NEW d \in Dialogs, Post(m, d) PROVE Spaced'
  <2>1. pc[m] = "new" /\ pc' = [pc EXCEPT ![m] = "posted"] /\ UNCHANGED <<bus, text>>
    BY <1>6 DEF Post, Goto
  <2>2. \A n \in MsgIds : Used(n)' = Used(n)
    BY <1>T, <2>1 DEF Used
  <2>3. QED
    BY <1>3, <1>U, <2>1, <2>2
<1>7. ASSUME NEW m \in MsgIds, EmitRequest(m) PROVE Spaced'
  <2>1. pc[m] = "posted" /\ text' = text
    BY <1>7 DEF EmitRequest, turnVars
  <2>2. CASE bus' = bus /\ Goto(m, "lost")
    <3>1. \A n \in MsgIds : Used(n)' = Used(n)
      BY <1>T, <2>1, <2>2 DEF Used, Goto
    <3>2. QED
      BY <1>3, <1>U, <2>1, <2>2, <3>1
  <2>3. CASE bus' = Append(bus, [kind |-> "execute", msg |-> m]) /\ Goto(m, "queued")
    <3>1. Used(m) = 0 /\ Used(m)' = 1 /\ \A n \in MsgIds \ {m} : pc'[n] = pc[n]
      BY <1>T, <2>1, <2>3 DEF Used, Goto
    <3>2. Used(m) <= MaxText + 1 /\ Used(m)' = Used(m) + 1
      BY <1>T, <3>1
    <3>3. "execute" \in {"execute", "progress", "complete", "error"}
      OBVIOUS
    <3>4. QED
      BY <1>2, <2>1, <2>3, <3>1, <3>2, <3>3
  <2>4. QED
    BY <1>7, <2>2, <2>3 DEF EmitRequest
<1>8. ASSUME NEW m \in MsgIds, Chunk(m) PROVE Spaced'
  <2>1. /\ pc[m] = "streaming" /\ pc' = [pc EXCEPT ![m] = "progress"]
        /\ text' = [text EXCEPT ![m] = @ + 1] /\ text[m] < MaxText /\ bus' = bus
    BY <1>8 DEF Chunk, Goto
  <2>2. \A n \in MsgIds : Used(n)' = Used(n)
    BY <1>T, <2>1 DEF Used
  <2>3. \A n \in MsgIds : text'[n] \in 0..MaxText
    BY <1>T, <2>1
  <2>4. QED
    BY <1>1, <1>U, <2>1, <2>2, <2>3
<1>9. ASSUME NEW m \in MsgIds, EndStream(m) PROVE Spaced'
  <2>1. pc[m] = "streaming" /\ pc' = [pc EXCEPT ![m] = "complete"]
    BY <1>9, PatientSave DEF PatientInv
  <2>2. UNCHANGED <<text, bus>>
    BY <1>9 DEF EndStream, turnVars
  <2>3. \A n \in MsgIds : Used(n)' = Used(n)
    BY <1>T, <2>1, <2>2 DEF Used
  <2>4. QED
    BY <1>3, <1>U, <2>2, <2>3
<1>10. ASSUME NEW m \in MsgIds, EmitEvent(m) PROVE Spaced'
  <2>1. /\ pc[m] \in DOMAIN Emits /\ pc' = [pc EXCEPT ![m] = After[pc[m]]]
        /\ bus' = IF Len(bus) < Capacity
                  THEN Append(bus, [kind |-> Emits[pc[m]], msg |-> m]) ELSE bus
        /\ UNCHANGED text
    BY <1>10 DEF EmitEvent, Goto, turnVars
  <2>2. pc[m] = "progress" \/ pc[m] = "complete"
    BY <2>1 DEF Emits, PatientInv, Calm
  <2>3. Emits[pc[m]] \in {"progress", "complete"}
    BY <2>2 DEF Emits
  <2>4. /\ Used(m)' = Used(m) + 1 /\ Used(m) <= MaxText + 1
        /\ \A n \in MsgIds \ {m} : pc'[n] = pc[n]
    <3>1. CASE pc[m] = "progress"
      <4>1. pc' = [pc EXCEPT ![m] = "streaming"]
        BY <2>1, <3>1 DEF After
      <4>2. QED
        BY <1>T, <2>1, <3>1, <4>1 DEF Used
    <3>2. CASE pc[m] = "complete"
      <4>1. pc' = [pc EXCEPT ![m] = "ended"]
        BY <2>1, <3>2 DEF After
      <4>2. QED
        BY <1>T, <2>1, <3>2, <4>1 DEF Used
    <3>3. QED
      BY <2>2, <3>1, <3>2
  <2>5. CASE bus' = bus
    <3>1. \A n \in MsgIds : Used(n)' \in Nat /\ Used(n)' >= Used(n)
      <4>1. \A n \in MsgIds \ {m} : Used(n)' = Used(n)
        BY <2>1, <2>4 DEF Used
      <4>2. QED
        BY <1>U, <2>4, <4>1
    <3>2. QED
      BY <1>3, <2>1, <2>5, <3>1
  <2>6. CASE bus' = Append(bus, [kind |-> Emits[pc[m]], msg |-> m])
    BY <1>2, <2>1, <2>3, <2>4, <2>6
  <2>7. QED
    BY <2>1, <2>5, <2>6
<1>11. ASSUME NEW m \in MsgIds, Begin(m) PROVE Spaced'
  <2>1. /\ bus # <<>> /\ Head(bus) = [kind |-> "execute", msg |-> m] /\ bus' = Tail(bus)
        /\ pc' = [pc EXCEPT ![m] = "streaming"] /\ text' = text
    BY <1>11 DEF Begin, Consume, Goto, turnVars
  <2>2. pc[m] = "queued"
    <3>1. 1 \in DOMAIN bus /\ Head(bus) = bus[1]
      BY <1>T, <2>1
    <3>2. QED
      BY <2>1, <3>1 DEF OnceInv, Requested
  <2>3. \A n \in MsgIds : Used(n)' \in Nat /\ Used(n)' >= Used(n)
    BY <1>T, <2>1, <2>2 DEF Used
  <2>4. QED
    BY <1>1, <1>T, <2>1, <2>3
<1>12. ASSUME NEW m \in MsgIds, HandleProgress(m) \/ HandleComplete(m) \/ HandleError(m)
       PROVE  Spaced'
  BY <1>4, <1>12 DEF HandleProgress, HandleComplete, HandleError, Consume, turnVars
<1>13. ASSUME NEW m \in MsgIds, SeeStop(m) \/ Reason(m) \/ FailStream(m) PROVE Spaced'
  BY <1>13 DEF SeeStop, Reason, FailStream, PatientInv, Calm, Patient
<1>14. CASE Stop
  BY <1>14 DEF Stop, Patient
<1>15. CASE UNCHANGED vars
  BY <1>4, <1>15 DEF vars, turnVars
<1>16. QED
  BY <1>5, <1>6, <1>7, <1>8, <1>9, <1>10, <1>11, <1>12, <1>13, <1>14, <1>15
  DEF Next, Turn, Handle

LEMMA InitThought == Init => Thought /\ (Ample => Spaced)
<1>. SUFFICES ASSUME Init PROVE Thought /\ (Ample => Spaced)
  OBVIOUS
<1>1. Thought
  BY DEF Init, Thought
<1>2. ASSUME Ample PROVE Spaced
  <2>1. bus = <<>> /\ \A m \in MsgIds : text[m] = 0
    BY DEF Init
  <2>2. Slotted(<<>>)
    BY <2>1 DEF Slotted
  <2>3. QED
    BY <1>2, <2>1, <2>2 DEF Spaced, Ample
<1>3. QED
  BY <1>1, <1>2

LEMMA ThoughtEnds == Types /\ OnceInv /\ PatientInv /\ Thought => ThinkingEnds
<1>. SUFFICES ASSUME Types, OnceInv, PatientInv, Thought,
                     NEW d \in Dialogs, Quiet(d), display[d] = "thinking"
              PROVE  FALSE
  BY DEF ThinkingEnds
<1>1. PICK m \in MsgIds : dialog[m] = d /\ Thinker(m)
  BY DEF Thought
<1>2. CASE pc[m] \in {"streaming", "progress", "complete"}
  <2>1. m \in Active(d)
    BY <1>1, <1>2 DEF Active, Over
  <2>2. QED
    BY <2>1 DEF Quiet
<1>3. CASE Announced(m)
  BY <1>1, <1>3 DEF Announced, Quiet, OnBus
<1>4. QED
  BY <1>1, <1>2, <1>3 DEF Thinker, Announcing

\* With patient users and a model that does not fail, no dialog is left showing
\* "thinking" once its turns and their events are over, unless the completion
\* of a turn met a full bus.
THEOREM ThinkingEndsCorrect == Patient => (Spec /\ []Room => []ThinkingEnds)
<1>. SUFFICES ASSUME Patient PROVE Spec /\ []Room => []ThinkingEnds
  OBVIOUS
<1>1. Patient /\ Types /\ OnceInv /\ PatientInv /\ Room /\ Thought /\ [Next]_vars => Thought'
  BY NextThought
<1>2. QED
  BY <1>1, InitThought, ThoughtEnds, PatientCorrect, PTL DEF Spec

\* A bus that has room for a request, the text and the completion of every
\* message never meets the exception.
THEOREM AmpleBusEndsThinking == Patient /\ Ample => (Spec => []ThinkingEnds)
<1>. SUFFICES ASSUME Patient, Ample PROVE Spec => []ThinkingEnds
  OBVIOUS
<1>1. Patient /\ Ample /\ Types /\ OnceInv /\ PatientInv /\ Spaced /\ [Next]_vars => Spaced'
  BY NextSpaced
<1>2. Init => Spaced
  BY InitThought
<1>3. Ample /\ Types /\ Spaced => Room
  BY SpacedRoom
<1>4. Spec => []Room
  BY <1>1, <1>2, <1>3, PatientCorrect, PTL DEF Spec
<1>5. QED
  BY <1>4, ThinkingEndsCorrect, PTL
=============================================================================
